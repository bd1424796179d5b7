------------------------- MODULE OpalResponseProofs -------------------------
(***************************************************************************)
(* Lemmas about the response parsers of OpalResponse: what each scan finds  *)
(* in the packets that answer a command, whatever the status, the session   *)
(* number, the ComID and the locking bits in them, and for resp_len exact   *)
(* or the whole buffer.  OpalWireProofs builds on it.                       *)
(***************************************************************************)
EXTENDS OpalResponse, SequenceTheorems, TLAPS

-----------------------------------------------------------------------------
(* Bytes. *)

LEMMA MaxIs ==
  ASSUME NEW S \in SUBSET Int, NEW m \in S, \A x \in S : x <= m
  PROVE  Max(S) = m
<1>1. \A y \in S : m >= y
  OBVIOUS
<1>2. Max(S) \in S /\ \A y \in S : Max(S) >= y
  BY <1>1, Zenon DEF Max
<1>3. Max(S) >= m /\ m >= Max(S)
  BY <1>1, <1>2, Zenon
<1>4. \A k \in Int : k >= m /\ m >= k => k = m
  BY m \in Int
<1> QED
  BY <1>2, <1>3, <1>4

LEMMA MinIs ==
  ASSUME NEW S \in SUBSET Int, NEW m \in S, \A x \in S : m <= x
  PROVE  Min(S) = m
<1>1. \A y \in S : m =< y
  OBVIOUS
<1>2. Min(S) \in S /\ \A y \in S : Min(S) =< y
  BY <1>1, Zenon DEF Min
<1>3. Min(S) =< m /\ m =< Min(S)
  BY <1>1, <1>2, Zenon
<1>4. \A k \in Int : k =< m /\ m =< k => k = m
  BY m \in Int
<1> QED
  BY <1>2, <1>3, <1>4

(* A packet is put together piece by piece. *)
LEMMA Joined ==
  ASSUME NEW a \in Seq(Nat), NEW b \in Seq(Nat)
  PROVE  /\ a \o b \in Seq(Nat) /\ Len(a \o b) = Len(a) + Len(b)
         /\ \A i \in 1 .. Len(a) : (a \o b)[i] = a[i]
         /\ \A i \in 1 .. Len(b) : (a \o b)[Len(a) + i] = b[i]
OBVIOUS

LEMMA BytesRead ==
  ASSUME NEW b \in Seq(Nat), NEW len \in Nat
  PROVE  LET r == Response(b, len)
         IN /\ r.len = len /\ r.bytes = b
            /\ \A i \in Nat : Byte(r, i) = IF i < Len(b) THEN b[i + 1] ELSE 0
            /\ \A i \in Nat : Byte(r, i) \in Nat
BY DEF Response, Byte

LEMMA ZerosRead ==
  ASSUME NEW n \in Nat
  PROVE  /\ Zeros(n) \in Seq(Nat) /\ Len(Zeros(n)) = n
         /\ \A i \in 1 .. n : Zeros(n)[i] = 0
BY DEF Zeros

LEMMA HeadersRead ==
  ASSUME NEW n \in Nat
  PROVE  /\ Headers(n) \in Seq(Nat) /\ Len(Headers(n)) = TotalHdrLen
         /\ \A i \in 1 .. 51 : Headers(n)[i] = 0
<1> DEFINE front == Zeros(51)
           last  == <<n>>
           all   == front \o last
<1>1. front \in Seq(Nat) /\ Len(front) = 51 /\ \A i \in 1 .. 51 : front[i] = 0
  BY ZerosRead
<1>2. Headers(n) = all
  BY DEF Headers, TotalHdrLen
<1>3. last \in Seq(Nat) /\ Len(last) = 1
  OBVIOUS
<1> HIDE DEF front, last
<1>4. /\ all \in Seq(Nat) /\ Len(all) = Len(front) + Len(last)
      /\ \A i \in 1 .. Len(front) : all[i] = front[i]
  BY <1>1, <1>3, Joined, ZenonT(40)
<1> HIDE DEF all
<1>5. Len(all) = TotalHdrLen /\ \A i \in 1 .. 51 : all[i] = 0
  BY <1>1, <1>3, <1>4 DEF TotalHdrLen
<1> QED
  BY <1>2, <1>4, <1>5, Zenon

-----------------------------------------------------------------------------
(* The scans, over any bytes b and any resp_len that covers them. *)

(* The last ENDOFDATA decides where parse_status looks. *)
LEMMA StatusAt ==
  ASSUME NEW b \in Seq(Nat), NEW len \in Nat, 0 < len, Len(b) <= len,
         NEW e \in 5 .. Len(b) - 1, b[e + 1] = ENDOFDATA,
         \A i \in e + 2 .. Len(b) : b[i] # ENDOFDATA
  PROVE  parse_status(Response(b, len)) = CodeOfStatus(b[e - 3])
<1> DEFINE r    == Response(b, len)
           covered == IF r.len = 0 THEN MaxRespLen ELSE r.len
           Eods(n) == {i \in 5 .. n - 1 : Byte(r, i) = ENDOFDATA}
           eods == Eods(len)
<1>1. /\ r.len = len
      /\ \A i \in Nat : Byte(r, i) = IF i < Len(b) THEN b[i + 1] ELSE 0
  BY BytesRead
<1> HIDE DEF r
<1>2. e \in Nat /\ e - 4 \in Nat /\ e < Len(b) /\ e - 4 < Len(b) /\ (e - 4) + 1 = e - 3
      /\ Len(b) \in Nat
  OBVIOUS
<1>3. Byte(r, e) = ENDOFDATA /\ Byte(r, e - 4) = b[e - 3]
  BY <1>1, <1>2
<1>4. e \in eods
  BY <1>2, <1>3
<1>5. ASSUME NEW i \in eods PROVE i <= e
  <2>1. i \in Nat /\ Byte(r, i) = ENDOFDATA
    OBVIOUS
  <2>2. i < Len(b) /\ b[i + 1] = ENDOFDATA
    BY <1>1, <2>1 DEF ENDOFDATA
  <2> QED
    BY <1>2, <2>1, <2>2
<1>6. eods \in SUBSET Int
  OBVIOUS
<1>7. parse_status(r) = IF Eods(covered) = {} THEN OPAL_ERR_PROTO
                        ELSE CodeOfStatus(Byte(r, Max(Eods(covered)) - 4))
  BY Zenon DEF parse_status
<1>8. covered = len
  BY <1>1
<1> HIDE DEF covered, Eods
<1>9. Max(eods) = e
  BY <1>4, <1>5, <1>6, MaxIs
<1> QED
  BY <1>3, <1>4, <1>7, <1>8, <1>9 DEF r

LEMMA NoStatus ==
  ASSUME NEW b \in Seq(Nat), NEW len \in Nat, \A i \in 1 .. Len(b) : b[i] # ENDOFDATA
  PROVE  parse_status(Response(b, len)) = OPAL_ERR_PROTO
<1> DEFINE r == Response(b, len)
<1>1. \A i \in Nat : Byte(r, i) = IF i < Len(b) THEN b[i + 1] ELSE 0
  BY BytesRead
<1> HIDE DEF r
<1>2. ASSUME NEW i \in Nat PROVE Byte(r, i) # ENDOFDATA
  <2>1. CASE i < Len(b)
    <3>1. i + 1 \in 1 .. Len(b)
      BY <2>1
    <3>2. Byte(r, i) = b[i + 1]
      BY <1>1, <2>1
    <3> QED
      BY <3>1, <3>2
  <2>2. CASE ~(i < Len(b))
    BY <1>1, <2>2 DEF ENDOFDATA
  <2> QED
    BY <2>1, <2>2
<1>3. \A n \in Int : {i \in 5 .. n : Byte(r, i) = ENDOFDATA} = {}
  BY <1>2
<1>4. r.len \in Nat
  BY DEF r, Response
<1> QED
  BY <1>3, <1>4 DEF parse_status, r, MaxRespLen

(* Byte i of the payload. *)
LEMMA PayloadRead ==
  ASSUME NEW b \in Seq(Nat), NEW len \in Nat
  PROVE  \A i \in Nat : Payload(Response(b, len), i)
                          = IF 52 + i < Len(b) THEN b[53 + i] ELSE 0
<1> DEFINE r == Response(b, len)
<1>1. \A i \in Nat : Byte(r, i) = IF i < Len(b) THEN b[i + 1] ELSE 0
  BY BytesRead
<1>2. TotalHdrLen = 52
  BY DEF TotalHdrLen
<1> HIDE DEF r
<1>3. ASSUME NEW i \in Nat
      PROVE  Payload(r, i) = IF 52 + i < Len(b) THEN b[53 + i] ELSE 0
  <2>1. Payload(r, i) = Byte(r, 52 + i)
    BY <1>2, Zenon DEF Payload
  <2>2. 52 + i \in Nat /\ (52 + i) + 1 = 53 + i
    OBVIOUS
  <2>3. Byte(r, 52 + i) = IF 52 + i < Len(b) THEN b[(52 + i) + 1] ELSE 0
    BY <1>1, <2>2, Zenon
  <2> QED
    BY <2>1, <2>2, <2>3, Zenon
<1> QED
  BY <1>3, Zenon DEF r

(* ... and the ones after it. *)
LEMMA PayloadAhead ==
  ASSUME NEW b \in Seq(Nat), NEW len \in Nat
  PROVE  \A i, k \in Nat :
           /\ 52 + i + k < Len(b)
                => Payload(Response(b, len), i + k) = b[53 + i + k]
           /\ Payload(Response(b, len), i + k) # 0 => 52 + i + k < Len(b)
<1> DEFINE r == Response(b, len)
<1>1. \A i \in Nat : Payload(r, i) = IF 52 + i < Len(b) THEN b[53 + i] ELSE 0
  BY PayloadRead, Zenon
<1> HIDE DEF r
<1>2. ASSUME NEW i \in Nat, NEW k \in Nat
      PROVE  /\ 52 + i + k < Len(b) => Payload(r, i + k) = b[53 + i + k]
             /\ Payload(r, i + k) # 0 => 52 + i + k < Len(b)
  <2>1. i + k \in Nat /\ 52 + (i + k) = 52 + i + k /\ 53 + (i + k) = 53 + i + k
    OBVIOUS
  <2>2. Payload(r, i + k) = IF 52 + (i + k) < Len(b) THEN b[53 + (i + k)] ELSE 0
    BY <1>1, <2>1, Zenon
  <2> QED
    BY <2>1, <2>2, Zenon
<1> QED
  BY <1>2, Zenon DEF r

(* The first list that begins like session numbers is taken for them. *)
NumbersAt(b, e) ==
  /\ e + TotalHdrLen + 13 <= Len(b)
  /\ b[53 + e] = STARTLIST /\ b[54 + e] = U32_ATOM /\ b[59 + e] = U32_ATOM
  /\ \A i \in 53 .. 52 + e : b[i] # STARTLIST

LEMMA SessionAt ==
  ASSUME NEW b \in Seq(Nat), NEW len \in Nat, Len(b) <= len,
         NEW e \in Nat, NumbersAt(b, e)
  PROVE  parse_start_session_resp(Response(b, len))
           = U32(Response(b, len), 59 + e)
<1> DEFINE r        == Response(b, len)
           covered  == PayloadLen(r, 32)
           Found(n) == {i \in 0 .. n - 13 : /\ Payload(r, i) = STARTLIST
                                            /\ Payload(r, i + 1) = U32_ATOM
                                            /\ Payload(r, i + 6) = U32_ATOM}
           found    == Found(len - 52)
<1>1. /\ e + TotalHdrLen + 13 <= Len(b)
      /\ b[53 + e] = STARTLIST /\ b[54 + e] = U32_ATOM /\ b[59 + e] = U32_ATOM
      /\ \A i \in 53 .. 52 + e : b[i] # STARTLIST
  BY Zenon DEF NumbersAt
<1>2. \A i \in Nat : Payload(r, i) = IF 52 + i < Len(b) THEN b[53 + i] ELSE 0
  BY PayloadRead
<1>3. \A i, k \in Nat : /\ 52 + i + k < Len(b) => Payload(r, i + k) = b[53 + i + k]
                        /\ Payload(r, i + k) # 0 => 52 + i + k < Len(b)
  BY PayloadAhead
<1>4. covered = len - 52
  <2>1. r.len = len /\ len > TotalHdrLen
    BY <1>1 DEF Response, TotalHdrLen
  <2> QED
    BY <2>1 DEF PayloadLen, TotalHdrLen
<1> HIDE DEF r
<1>5. e <= (len - 52) - 13 /\ 52 + e + 12 < Len(b)
  BY <1>1 DEF TotalHdrLen
<1>6. Payload(r, e) = STARTLIST /\ Payload(r, e + 1) = U32_ATOM /\ Payload(r, e + 6) = U32_ATOM
  <2>1. /\ 52 + e < Len(b) /\ 52 + e + 1 < Len(b) /\ 52 + e + 6 < Len(b)
        /\ 53 + e + 1 = 54 + e /\ 53 + e + 6 = 59 + e
    BY <1>5
  <2>2. Payload(r, e) = b[53 + e]
    BY <1>2, <2>1, Zenon
  <2>3. Payload(r, e + 1) = b[53 + e + 1] /\ Payload(r, e + 6) = b[53 + e + 6]
    <3> 1 \in Nat /\ 6 \in Nat
      OBVIOUS
    <3> QED
      BY <1>3, <2>1, ZenonT(40)
  <2> QED
    BY <1>1, <2>1, <2>2, <2>3, Zenon
<1>7. e \in found
  BY <1>5, <1>6
<1>8. ASSUME NEW i \in found PROVE e <= i
  <2>1. i \in Nat /\ Payload(r, i) = STARTLIST
    OBVIOUS
  <2>2. ~(i < e)
    <3> SUFFICES ASSUME i < e PROVE FALSE
      OBVIOUS
    <3>1. 52 + i < Len(b) /\ 53 + i \in 53 .. 52 + e
      BY <1>5, <2>1
    <3>2. Payload(r, i) = b[53 + i]
      BY <1>2, <2>1, <3>1, Zenon
    <3> QED
      BY <1>1, <2>1, <3>1, <3>2, Zenon
  <2> QED
    BY <2>1, <2>2
<1>9. found \in SUBSET Int
  OBVIOUS
<1>10. parse_start_session_resp(r)
        = IF Found(covered) = {} THEN NoTsn
          ELSE U32(r, TotalHdrLen + Min(Found(covered)) + 7)
  BY Zenon DEF parse_start_session_resp
<1> HIDE DEF covered, Found
<1>11. Min(found) = e
  BY <1>7, <1>8, <1>9, MinIs
<1>12. TotalHdrLen + e + 7 = 59 + e
  BY DEF TotalHdrLen
<1> QED
  BY <1>4, <1>7, <1>10, <1>11, <1>12 DEF r

LEMMA NoSession ==
  ASSUME NEW b \in Seq(Nat), NEW len \in Nat,
         \A i \in 53 .. Len(b) - 6 : b[i] = STARTLIST => b[i + 1] # U32_ATOM
  PROVE  parse_start_session_resp(Response(b, len)) = NoTsn
<1> DEFINE r == Response(b, len)
<1>1. \A i \in Nat : Payload(r, i) = IF 52 + i < Len(b) THEN b[53 + i] ELSE 0
  BY PayloadRead, Zenon
<1>2. \A i, k \in Nat : /\ 52 + i + k < Len(b) => Payload(r, i + k) = b[53 + i + k]
                        /\ Payload(r, i + k) # 0 => 52 + i + k < Len(b)
  BY PayloadAhead, Zenon
<1> HIDE DEF r
<1>3. ASSUME NEW i \in Nat, Payload(r, i) = STARTLIST, Payload(r, i + 1) = U32_ATOM,
             Payload(r, i + 6) = U32_ATOM
      PROVE  FALSE
  <2>1. 52 + i + 6 < Len(b) /\ Len(b) \in Nat
    <3> 6 \in Nat /\ U32_ATOM # 0 /\ Len(b) \in Nat
      BY DEF U32_ATOM
    <3>1. Payload(r, i + 6) # 0
      BY <1>3
    <3> QED
      BY <1>2, <3>1, Zenon
  <2>2. 53 + i \in 53 .. Len(b) - 6 /\ 52 + i < Len(b) /\ 52 + i + 1 < Len(b)
    BY <2>1
  <2>3. b[53 + i] = STARTLIST
    BY <1>1, <1>3, <2>2, Zenon
  <2>4. b[53 + i + 1] = U32_ATOM
    <3> 1 \in Nat
      OBVIOUS
    <3> QED
      BY <1>2, <1>3, <2>2, Zenon
  <2> QED
    BY <2>2, <2>3, <2>4, Zenon
<1>4. \A n \in Int : {i \in 0 .. n : /\ Payload(r, i) = STARTLIST
                                     /\ Payload(r, i + 1) = U32_ATOM
                                     /\ Payload(r, i + 6) = U32_ATOM} = {}
  BY <1>3
<1>5. PayloadLen(r, 32) - 13 \in Int
  BY DEF PayloadLen, r, Response, TotalHdrLen
<1> QED
  BY <1>4, <1>5, Zenon DEF parse_start_session_resp, r

(* The last name equal to col names the value taken. *)
NamedAt(b, col, e) ==
  /\ e + TotalHdrLen + 5 <= Len(b)
  /\ b[53 + e] = STARTNAME /\ b[54 + e] = col
  /\ \A i \in 54 + e .. Len(b) - 1 : b[i] = STARTNAME => b[i + 1] # col
  /\ b[Len(b)] # STARTNAME

LEMMA ColumnAt ==
  ASSUME NEW b \in Seq(Nat), NEW len \in Nat, Len(b) <= len, NEW col \in Nat,
         NEW e \in Nat, NamedAt(b, col, e)
  PROVE  column_value(Response(b, len), col) = b[55 + e]
<1> DEFINE r       == Response(b, len)
           covered == PayloadLen(r, 64)
           Hits(n) == {i \in 0 .. n - 5 : /\ Payload(r, i) = STARTNAME
                                          /\ Payload(r, i + 1) = col}
           hits    == Hits(len - 52)
<1>1. /\ e + TotalHdrLen + 5 <= Len(b)
      /\ b[53 + e] = STARTNAME /\ b[54 + e] = col
      /\ \A i \in 54 + e .. Len(b) - 1 : b[i] = STARTNAME => b[i + 1] # col
      /\ b[Len(b)] # STARTNAME
  BY Zenon DEF NamedAt
<1>2. \A i \in Nat : Payload(r, i) = IF 52 + i < Len(b) THEN b[53 + i] ELSE 0
  BY PayloadRead, Zenon
<1>3. \A i, k \in Nat : /\ 52 + i + k < Len(b) => Payload(r, i + k) = b[53 + i + k]
                        /\ Payload(r, i + k) # 0 => 52 + i + k < Len(b)
  BY PayloadAhead, Zenon
<1>4. covered = len - 52
  <2>1. r.len = len /\ len > TotalHdrLen
    BY <1>1 DEF Response, TotalHdrLen
  <2> QED
    BY <2>1 DEF PayloadLen, TotalHdrLen
<1> HIDE DEF r
<1>5. e <= (len - 52) - 5 /\ 52 + e + 4 < Len(b)
  BY <1>1 DEF TotalHdrLen
<1>6. /\ Payload(r, e) = STARTNAME /\ Payload(r, e + 1) = col
      /\ Payload(r, e + 2) = b[55 + e]
  <2>1. /\ 52 + e < Len(b) /\ 52 + e + 1 < Len(b) /\ 52 + e + 2 < Len(b)
        /\ 53 + e + 1 = 54 + e /\ 53 + e + 2 = 55 + e
    BY <1>5
  <2>2. Payload(r, e) = b[53 + e]
    BY <1>2, <2>1, Zenon
  <2>3. Payload(r, e + 1) = b[53 + e + 1] /\ Payload(r, e + 2) = b[53 + e + 2]
    <3> 1 \in Nat /\ 2 \in Nat
      OBVIOUS
    <3> QED
      BY <1>3, <2>1, ZenonT(40)
  <2> QED
    BY <1>1, <2>1, <2>2, <2>3, Zenon
<1>7. e \in hits
  BY <1>5, <1>6
<1>8. ASSUME NEW i \in hits PROVE i <= e
  <2>1. i \in Nat /\ Payload(r, i) = STARTNAME /\ Payload(r, i + 1) = col
    OBVIOUS
  <2>2. 52 + i < Len(b) /\ b[53 + i] = STARTNAME
    <3>1. Payload(r, i) # 0
      BY <2>1 DEF STARTNAME
    <3> QED
      BY <1>2, <2>1, <3>1, Zenon
  <2>3. 52 + i + 1 < Len(b) /\ Len(b) \in Nat
    <3>1. i <= (len - 52) - 5 /\ Len(b) \in Nat
      OBVIOUS
    <3>2. 53 + i # Len(b)
      BY <1>1, <2>2, Zenon
    <3> QED
      BY <2>1, <2>2, <3>1, <3>2
  <2>4. b[53 + i + 1] = col
    <3> 1 \in Nat
      OBVIOUS
    <3> QED
      BY <1>3, <2>1, <2>3, Zenon
  <2>5. ~(e < i)
    <3> SUFFICES ASSUME e < i PROVE FALSE
      OBVIOUS
    <3>1. 53 + i \in 54 + e .. Len(b) - 1
      BY <2>1, <2>3
    <3> QED
      BY <1>1, <2>2, <2>4, <3>1, Zenon
  <2> QED
    BY <2>1, <2>5
<1>9. hits \in SUBSET Int
  OBVIOUS
<1>10. column_value(r, col) = IF Hits(covered) = {} THEN 0
                             ELSE Payload(r, Max(Hits(covered)) + 2)
  BY Zenon DEF column_value
<1> HIDE DEF covered, Hits
<1>11. Max(hits) = e
  BY <1>7, <1>8, <1>9, MaxIs
<1> QED
  BY <1>4, <1>6, <1>7, <1>10, <1>11 DEF r

Nameless(b, col) == \A i \in 53 .. Len(b) - 1 : b[i] = STARTNAME => b[i + 1] # col

LEMMA NoColumn ==
  ASSUME NEW b \in Seq(Nat), NEW len \in Nat, NEW col \in Nat \ {0}, Nameless(b, col)
  PROVE  column_value(Response(b, len), col) = 0
<1> DEFINE r == Response(b, len)
<1>1. \A i \in Nat : Payload(r, i) = IF 52 + i < Len(b) THEN b[53 + i] ELSE 0
  BY PayloadRead, Zenon
<1>2. \A i, k \in Nat : /\ 52 + i + k < Len(b) => Payload(r, i + k) = b[53 + i + k]
                        /\ Payload(r, i + k) # 0 => 52 + i + k < Len(b)
  BY PayloadAhead, Zenon
<1> HIDE DEF r
<1>3. ASSUME NEW i \in Nat, Payload(r, i) = STARTNAME, Payload(r, i + 1) = col
      PROVE  FALSE
  <2>1. 52 + i + 1 < Len(b) /\ Len(b) \in Nat
    <3> 1 \in Nat /\ Len(b) \in Nat
      OBVIOUS
    <3>1. Payload(r, i + 1) # 0
      BY <1>3
    <3> QED
      BY <1>2, <3>1, Zenon
  <2>2. 53 + i \in 53 .. Len(b) - 1 /\ 52 + i < Len(b)
    BY <2>1
  <2>3. b[53 + i] = STARTNAME
    BY <1>1, <1>3, <2>2, Zenon
  <2>4. b[53 + i + 1] = col
    <3> 1 \in Nat
      OBVIOUS
    <3> QED
      BY <1>2, <1>3, <2>1, Zenon
  <2> QED
    BY <2>2, <2>3, <2>4, Zenon DEF Nameless
<1>4. \A n \in Int : {i \in 0 .. n : /\ Payload(r, i) = STARTNAME
                                     /\ Payload(r, i + 1) = col} = {}
  BY <1>3
<1>5. PayloadLen(r, 64) - 5 \in Int
  BY DEF PayloadLen, r, Response, TotalHdrLen
<1> QED
  BY <1>4, <1>5, Zenon DEF column_value, r

-----------------------------------------------------------------------------
(* The walk of parse_discovery. *)
Walks(f, resp) ==
  f = [offset \in Nat |->
         IF offset + 4 > DiscoveryTotal(resp) + 4 THEN {}
         ELSE {offset} \cup f[offset + 4 + Byte(resp, offset + 3)]]

(* Such a walk exists: what it visits from o is what every set that holds o *)
(* and each stop's successor holds.                                         *)
LEMMA WalkFunction ==
  ASSUME NEW succ \in [Nat -> Nat], NEW past \in SUBSET Nat
  PROVE  \E f : f = [o \in Nat |-> IF o \in past THEN {} ELSE {o} \cup f[succ[o]]]
<1> DEFINE Closed(S, o) == o \in S /\ \A y \in S : succ[y] \notin past => succ[y] \in S
           Visited(o) == {x \in Nat : \A S \in SUBSET Nat : Closed(S, o) => x \in S}
           f == [o \in Nat |-> IF o \in past THEN {} ELSE Visited(o)]
<1>1. ASSUME NEW o \in Nat, o \notin past PROVE Visited(o) = {o} \cup f[succ[o]]
  <2>1. succ[o] \in Nat
    OBVIOUS
  <2>2. CASE succ[o] \in past
    <3>1. f[succ[o]] = {}
      BY <2>1, <2>2
    <3>2. Closed({o}, o) /\ {o} \in SUBSET Nat
      BY <2>2
    <3>3. \A S \in SUBSET Nat : Closed(S, o) => o \in S
      OBVIOUS
    <3> HIDE DEF Closed
    <3>4. Visited(o) = {o}
      BY <3>2, <3>3
    <3> QED
      BY <3>1, <3>4
  <2>3. CASE succ[o] \notin past
    <3>1. f[succ[o]] = Visited(succ[o])
      BY <2>1, <2>3, Zenon
    <3>2. ASSUME NEW S \in SUBSET Nat, Closed(S, o) PROVE Closed(S, succ[o])
      BY <2>3, <3>2, Zenon
    <3>3. ASSUME NEW S \in SUBSET Nat, Closed(S, succ[o])
          PROVE  Closed(S \cup {o}, o) /\ S \cup {o} \in SUBSET Nat
      BY <3>3
    <3>4. \A S \in SUBSET Nat : Closed(S, o) => o \in S
      OBVIOUS
    <3> HIDE DEF Closed, f
    <3>5. ASSUME NEW x \in Visited(o), x # o PROVE x \in Visited(succ[o])
      <4>1. x \in Nat
        OBVIOUS
      <4>2. ASSUME NEW S \in SUBSET Nat, Closed(S, succ[o]) PROVE x \in S
        <5>1. x \in S \cup {o}
          BY <3>3, <4>2
        <5> QED
          BY <3>5, <5>1
      <4> QED
        BY <4>1, <4>2
    <3>6. ASSUME NEW x \in Visited(succ[o]) PROVE x \in Visited(o)
      BY <3>2
    <3>7. o \in Visited(o)
      BY <3>4
    <3> HIDE DEF Visited
    <3> QED
      BY <3>1, <3>5, <3>6, <3>7
  <2> QED
    BY <2>2, <2>3
<1>2. f = [o \in Nat |-> IF o \in past THEN {} ELSE {o} \cup f[succ[o]]]
  <2>1. \A o \in Nat : (IF o \in past THEN {} ELSE Visited(o))
                         = (IF o \in past THEN {} ELSE {o} \cup f[succ[o]])
    BY <1>1, Zenon
  <2> HIDE DEF Visited
  <2> QED
    BY <2>1
<1> QED
  BY <1>2

LEMMA WalkExists ==
  ASSUME NEW b \in Seq(Nat), NEW len \in Nat
  PROVE  \E f : Walks(f, Response(b, len))
<1> DEFINE r     == Response(b, len)
           total == DiscoveryTotal(r)
           succ  == [o \in Nat |-> o + 4 + Byte(r, o + 3)]
           past  == {o \in Nat : o + 4 > total + 4}
<1>1. \A i \in Nat : Byte(r, i) \in Nat
  BY BytesRead
<1> HIDE DEF r, total
<1>2. succ \in [Nat -> Nat] /\ past \in SUBSET Nat
  BY <1>1, SMTT(30)
<1>3. PICK f : f = [o \in Nat |-> IF o \in past THEN {} ELSE {o} \cup f[succ[o]]]
  <2> HIDE DEF succ, past
  <2> QED
    BY <1>2, WalkFunction, Zenon
<1>4. \A o \in Nat : (o \in past <=> o + 4 > total + 4) /\ succ[o] = o + 4 + Byte(r, o + 3)
  OBVIOUS
<1> HIDE DEF succ, past
<1>5. f = [o \in Nat |-> IF o + 4 > total + 4 THEN {} ELSE {o} \cup f[o + 4 + Byte(r, o + 3)]]
  <2>1. \A o \in Nat : (IF o \in past THEN {} ELSE {o} \cup f[succ[o]])
                         = (IF o + 4 > total + 4 THEN {}
                            ELSE {o} \cup f[o + 4 + Byte(r, o + 3)])
    BY <1>4, Zenon
  <2>2. [o \in Nat |-> IF o \in past THEN {} ELSE {o} \cup f[succ[o]]]
          = [o \in Nat |-> IF o + 4 > total + 4 THEN {}
                           ELSE {o} \cup f[o + 4 + Byte(r, o + 3)]]
    BY <2>1
  <2> QED
    BY <1>3, <2>2, Zenon
<1> QED
  BY <1>5, Zenon DEF Walks, r, total

LEMMA OffsetsWalk ==
  ASSUME NEW resp, \E f : Walks(f, resp)
  PROVE  \E f : Walks(f, resp) /\ FeatureOffsets(resp) = f[8]
BY DEF FeatureOffsets, Walks

(* One step of the walk. *)
LEMMA WalkSteps ==
  ASSUME NEW f, NEW resp, Walks(f, resp), NEW o \in Nat
  PROVE  /\ o + 4 > DiscoveryTotal(resp) + 4 => f[o] = {}
         /\ ~(o + 4 > DiscoveryTotal(resp) + 4)
              => f[o] = {o} \cup f[o + 4 + Byte(resp, o + 3)]
BY Zenon DEF Walks

-----------------------------------------------------------------------------
(* The packets, piece by piece. *)
LEMMA Tuples ==
  /\ \A x, y \in Nat :
       /\ <<x, y>> \in Seq(Nat) /\ Len(<<x, y>>) = 2
       /\ <<x, y>>[1] = x /\ <<x, y>>[2] = y
  /\ \A x, y, z, w \in Nat :
       /\ <<x, y, z, w>> \in Seq(Nat) /\ Len(<<x, y, z, w>>) = 4
       /\ <<x, y, z, w>>[1] = x /\ <<x, y, z, w>>[2] = y
       /\ <<x, y, z, w>>[3] = z /\ <<x, y, z, w>>[4] = w
OBVIOUS

LEMMA TrailerRead ==
  ASSUME NEW s \in Nat, NEW before \in BOOLEAN
  PROVE  LET w == StatusTrailer(s, before)
         IN /\ w \in Seq(Nat) /\ Len(w) = 6
            /\ before => /\ w[1] = STARTLIST /\ w[2] = s /\ w[3] = 0 /\ w[4] = 0
                         /\ w[5] = ENDLIST /\ w[6] = ENDOFDATA
            /\ ~before => /\ w[1] = ENDOFDATA /\ w[2] = STARTLIST /\ w[3] = s
                          /\ w[4] = 0 /\ w[5] = 0 /\ w[6] = ENDLIST
<1>1. CASE before
  BY <1>1 DEF StatusTrailer, STARTLIST, ENDLIST, ENDOFDATA
<1>2. CASE ~before
  BY <1>2 DEF StatusTrailer, STARTLIST, ENDLIST, ENDOFDATA
<1> QED
  BY <1>1, <1>2

(* A status packet: headers, what the call returned, and the trailer; what  *)
(* parse_status makes of it.                                                *)
LEMMA StatusRead ==
  ASSUME NEW a \in Seq(Nat), NEW s \in Nat \ {ENDOFDATA}, NEW before \in BOOLEAN,
         NEW len \in Nat, Len(a) >= TotalHdrLen, Len(a) + 6 <= len,
         ~before => a[Len(a) - 3] = 0
  PROVE  parse_status(Response(a \o StatusTrailer(s, before), len))
           = CodeOfStatus(IF before THEN s ELSE 0)
<1> DEFINE w == StatusTrailer(s, before)
           b == a \o w
<1>1. /\ w \in Seq(Nat) /\ Len(w) = 6
      /\ before => /\ w[1] = STARTLIST /\ w[2] = s /\ w[3] = 0 /\ w[4] = 0
                   /\ w[5] = ENDLIST /\ w[6] = ENDOFDATA
      /\ ~before => /\ w[1] = ENDOFDATA /\ w[2] = STARTLIST /\ w[3] = s
                    /\ w[4] = 0 /\ w[5] = 0 /\ w[6] = ENDLIST
  BY TrailerRead
<1> HIDE DEF w
<1>2. /\ b \in Seq(Nat) /\ Len(b) = Len(a) + Len(w)
      /\ \A i \in 1 .. Len(a) : b[i] = a[i]
      /\ \A i \in 1 .. Len(w) : b[Len(a) + i] = w[i]
  BY <1>1, Joined, Zenon
<1> HIDE DEF b
<1>3. Len(b) = Len(a) + 6 /\ Len(a) \in Nat /\ Len(b) <= len /\ 0 < len
  BY <1>1, <1>2 DEF TotalHdrLen
<1>4. b[Len(a) + 1] = w[1] /\ b[Len(a) + 2] = w[2] /\ b[Len(a) + 3] = w[3]
      /\ b[Len(a) + 4] = w[4] /\ b[Len(a) + 5] = w[5] /\ b[Len(a) + 6] = w[6]
  BY <1>1, <1>2
<1>5. CASE before
  <2> DEFINE e == Len(a) + 5
  <2>1. /\ e \in 5 .. Len(b) - 1 /\ e + 1 = Len(a) + 6 /\ e - 3 = Len(a) + 2
        /\ \A i \in e + 2 .. Len(b) : FALSE
    BY <1>3
  <2> HIDE DEF e
  <2>2. b[e + 1] = ENDOFDATA /\ b[e - 3] = s
    BY <1>1, <1>4, <1>5, <2>1, Zenon
  <2>3. parse_status(Response(b, len)) = CodeOfStatus(b[e - 3])
    BY <1>2, <1>3, <2>1, <2>2, StatusAt, Zenon
  <2> QED
    BY <1>5, <2>2, <2>3, Zenon DEF b, w
<1>6. CASE ~before
  <2> DEFINE e == Len(a)
  <2>1. /\ e \in 5 .. Len(b) - 1 /\ e - 3 \in 1 .. Len(a)
        /\ \A i \in e + 2 .. Len(b) :
             i = Len(a) + 2 \/ i = Len(a) + 3 \/ i = Len(a) + 4 \/ i = Len(a) + 5
               \/ i = Len(a) + 6
    BY <1>3 DEF TotalHdrLen
  <2>2. b[e + 1] = ENDOFDATA /\ b[e - 3] = 0
    BY <1>1, <1>2, <1>4, <1>6, <2>1, Zenon
  <2>3. /\ STARTLIST # ENDOFDATA /\ s # ENDOFDATA /\ 0 # ENDOFDATA
        /\ ENDLIST # ENDOFDATA
    BY DEF STARTLIST, ENDLIST, ENDOFDATA
  <2>4. \A i \in e + 2 .. Len(b) : b[i] # ENDOFDATA
    BY <1>1, <1>4, <1>6, <2>1, <2>3, Zenon
  <2> HIDE DEF e
  <2>5. parse_status(Response(b, len)) = CodeOfStatus(b[e - 3])
    BY <1>2, <1>3, <2>1, <2>2, <2>4, StatusAt, Zenon
  <2> QED
    BY <1>6, <2>2, <2>5, Zenon DEF b, w
<1> QED
  BY <1>5, <1>6

(* A session number is a big-endian word. *)
LEMMA WordRead ==
  ASSUME NEW n \in Nat
  PROVE  LET w == U32Bytes(n)
         IN /\ w \in Seq(Nat) /\ Len(w) = 4 /\ w[1] = 0 /\ w[2] = 0
            /\ 256 * w[3] + w[4] = n
<1> DEFINE hi == n \div 256
           lo == n % 256
           front == <<0, 0>>
           back  == <<hi, lo>>
           w == front \o back
<1>1. hi \in Nat /\ lo \in Nat /\ 256 * hi + lo = n /\ 0 \in Nat
  OBVIOUS
<1> HIDE DEF hi, lo
<1>2. /\ front \in Seq(Nat) /\ Len(front) = 2 /\ front[1] = 0 /\ front[2] = 0
      /\ back \in Seq(Nat) /\ Len(back) = 2 /\ back[1] = hi /\ back[2] = lo
  BY <1>1, Tuples, Zenon
<1> HIDE DEF front, back
<1>3. /\ w \in Seq(Nat) /\ Len(w) = Len(front) + Len(back)
      /\ \A i \in 1 .. Len(front) : w[i] = front[i]
      /\ \A i \in 1 .. Len(back) : w[Len(front) + i] = back[i]
  BY <1>2, Joined, Zenon
<1> HIDE DEF w
<1>4. /\ w \in Seq(Nat) /\ Len(w) = 4 /\ w[1] = 0 /\ w[2] = 0 /\ w[3] = hi /\ w[4] = lo
  BY <1>2, <1>3
<1>5. 256 * w[3] + w[4] = n
  BY <1>1, <1>4
<1> QED
  BY <1>4, <1>5, ZenonT(40) DEF w, front, back, hi, lo, U32Bytes, U16Bytes

(* The list of the two session numbers, whatever they are. *)
LEMMA NumbersRead ==
  ASSUME NEW tsn \in Nat
  PROVE  LET w == SessionNumbers(tsn)
         IN /\ w \in Seq(Nat) /\ Len(w) = 12
            /\ w[1] = STARTLIST /\ w[2] = U32_ATOM /\ w[7] = U32_ATOM
            /\ w[8] = 0 /\ w[9] = 0 /\ 256 * w[10] + w[11] = tsn
<1> DEFINE p1 == <<STARTLIST, U32_ATOM>>
           p2 == U32Bytes(HostSessionId)
           p3 == <<U32_ATOM>>
           p4 == U32Bytes(tsn)
           p5 == <<ENDLIST>>
           s2 == p1 \o p2
           s3 == s2 \o p3
           s4 == s3 \o p4
           s5 == s4 \o p5
<1>1. p1 \in Seq(Nat) /\ Len(p1) = 2 /\ p1[1] = STARTLIST /\ p1[2] = U32_ATOM
  BY DEF STARTLIST, U32_ATOM
<1>2. p2 \in Seq(Nat) /\ Len(p2) = 4
  BY WordRead DEF HostSessionId
<1>3. p3 \in Seq(Nat) /\ Len(p3) = 1 /\ p3[1] = U32_ATOM
  BY DEF U32_ATOM
<1>4. p4 \in Seq(Nat) /\ Len(p4) = 4 /\ p4[1] = 0 /\ p4[2] = 0 /\ 256 * p4[3] + p4[4] = tsn
  BY WordRead, Zenon
<1>5. p5 \in Seq(Nat) /\ Len(p5) = 1
  BY DEF ENDLIST
<1> HIDE DEF p1, p2, p3, p4, p5
<1>6. /\ s2 \in Seq(Nat) /\ Len(s2) = Len(p1) + Len(p2)
      /\ \A i \in 1 .. Len(p1) : s2[i] = p1[i]
  BY <1>1, <1>2, Joined, Zenon
<1> HIDE DEF s2
<1>7. /\ s3 \in Seq(Nat) /\ Len(s3) = Len(s2) + Len(p3)
      /\ \A i \in 1 .. Len(s2) : s3[i] = s2[i]
      /\ \A i \in 1 .. Len(p3) : s3[Len(s2) + i] = p3[i]
  BY <1>3, <1>6, Joined, Zenon
<1> HIDE DEF s3
<1>8. /\ s4 \in Seq(Nat) /\ Len(s4) = Len(s3) + Len(p4)
      /\ \A i \in 1 .. Len(s3) : s4[i] = s3[i]
      /\ \A i \in 1 .. Len(p4) : s4[Len(s3) + i] = p4[i]
  BY <1>4, <1>7, Joined, Zenon
<1> HIDE DEF s4
<1>9. /\ s5 \in Seq(Nat) /\ Len(s5) = Len(s4) + Len(p5)
      /\ \A i \in 1 .. Len(s4) : s5[i] = s4[i]
  BY <1>5, <1>8, Joined, Zenon
<1> HIDE DEF s5
<1>10. Len(s2) = 6 /\ Len(s3) = 7 /\ Len(s4) = 11 /\ Len(s5) = 12
  BY <1>1, <1>2, <1>3, <1>4, <1>5, <1>6, <1>7, <1>8, <1>9
<1>11. s2[1] = STARTLIST /\ s2[2] = U32_ATOM
  BY <1>1, <1>6
<1>12. s3[1] = STARTLIST /\ s3[2] = U32_ATOM /\ s3[7] = U32_ATOM
  BY <1>3, <1>7, <1>10, <1>11
<1>13. /\ s4[1] = STARTLIST /\ s4[2] = U32_ATOM /\ s4[7] = U32_ATOM
       /\ s4[8] = p4[1] /\ s4[9] = p4[2] /\ s4[10] = p4[3] /\ s4[11] = p4[4]
  BY <1>4, <1>8, <1>10, <1>12
<1>14. /\ s5[1] = STARTLIST /\ s5[2] = U32_ATOM /\ s5[7] = U32_ATOM
       /\ s5[8] = p4[1] /\ s5[9] = p4[2] /\ s5[10] = p4[3] /\ s5[11] = p4[4]
  <2>1. \A i \in 1 .. 11 : s5[i] = s4[i]
    BY <1>9, <1>10, Zenon
  <2>2. {1, 2, 7, 8, 9, 10, 11} \subseteq 1 .. 11
    OBVIOUS
  <2> QED
    BY <1>13, <2>1, <2>2, Zenon
<1>15. SessionNumbers(tsn) = s5
  BY Zenon DEF SessionNumbers, s5, s4, s3, s2, p1, p2, p3, p4, p5
<1>16. s5[8] = 0 /\ s5[9] = 0 /\ 256 * s5[10] + s5[11] = tsn
  BY <1>4, <1>14, Zenon
<1> QED
  BY <1>9, <1>10, <1>14, <1>15, <1>16, Zenon

(* A sequence of bytes of a length. *)
Bytes(n) == {b \in Seq(Nat) : Len(b) = n}

LEMMA BytesJoined ==
  ASSUME NEW m \in Nat, NEW n \in Nat, NEW k, k = m + n,
         NEW a \in Bytes(m), NEW b \in Bytes(n)
  PROVE  /\ a \o b \in Bytes(k)
         /\ \A i \in 1 .. m : (a \o b)[i] = a[i]
         /\ \A i \in 1 .. n : (a \o b)[m + i] = b[i]
<1>1. a \in Seq(Nat) /\ Len(a) = m /\ b \in Seq(Nat) /\ Len(b) = n
  BY Zenon DEF Bytes
<1> QED
  BY <1>1, Joined, Zenon DEF Bytes

LEMMA HeaderBytes ==
  \A n \in Nat : Headers(n) \in Bytes(52) /\ \A i \in 1 .. 51 : Headers(n)[i] = 0
<1>1. TotalHdrLen = 52
  BY DEF TotalHdrLen
<1> QED
  BY <1>1, HeadersRead, Zenon DEF Bytes

(* The StartSession UID and that of SyncSession, which hold no list. *)
LEMMA UidBytes ==
  /\ UID_STARTSESSION \in Bytes(8) /\ UID_SMUID \in Bytes(8)
  /\ [UID_STARTSESSION EXCEPT ![8] = 3] \in Bytes(8)
  /\ \A i \in 1 .. 8 : /\ UID_STARTSESSION[i] # STARTLIST /\ UID_SMUID[i] # STARTLIST
                       /\ [UID_STARTSESSION EXCEPT ![8] = 3][i] # STARTLIST
<1> DEFINE ss == <<0, 0, 0, 0, 0, 0, 255, 3>>
<1>1. [UID_STARTSESSION EXCEPT ![8] = 3] = ss
  BY DEF UID_STARTSESSION
<1>2. UID_STARTSESSION \in Bytes(8) /\ UID_SMUID \in Bytes(8) /\ ss \in Bytes(8)
  BY DEF UID_STARTSESSION, UID_SMUID, Bytes
<1>3. 1 .. 8 = {1, 2, 3, 4, 5, 6, 7, 8}
  OBVIOUS
<1>4. \A i \in {1, 2, 3, 4, 5, 6, 7, 8} :
        UID_STARTSESSION[i] # STARTLIST /\ UID_SMUID[i] # STARTLIST /\ ss[i] # STARTLIST
  BY DEF UID_STARTSESSION, UID_SMUID, STARTLIST
<1> HIDE DEF ss
<1> QED
  BY <1>1, <1>2, <1>3, <1>4, Zenon

(* Appending what holds no list to what holds none behind the headers. *)
Listless(a, m) == a \in Bytes(m) /\ \A i \in 53 .. m : a[i] # STARTLIST

LEMMA StillListless ==
  ASSUME NEW m \in Nat, NEW n \in Nat, NEW k \in Nat, k = m + n, m >= 52,
         NEW a, Listless(a, m), NEW b \in Bytes(n), \A i \in 1 .. n : b[i] # STARTLIST
  PROVE  Listless(a \o b, k)
<1> DEFINE c == a \o b
<1>1. /\ c \in Bytes(k)
      /\ \A i \in 1 .. m : c[i] = a[i]
      /\ \A i \in 1 .. n : c[m + i] = b[i]
  BY BytesJoined, ZenonT(40) DEF Listless
<1> HIDE DEF c
<1>2. ASSUME NEW i \in 53 .. k PROVE c[i] # STARTLIST
  <2>1. CASE i <= m
    <3>1. i \in 1 .. m /\ i \in 53 .. m
      BY <2>1
    <3> QED
      BY <1>1, <3>1, Zenon DEF Listless
  <2>2. CASE ~(i <= m)
    <3> DEFINE j == i - m
    <3>1. j \in 1 .. n /\ m + j = i
      BY <2>2
    <3> HIDE DEF j
    <3> QED
      BY <1>1, <3>1, Zenon
  <2> QED
    BY <2>1, <2>2
<1> QED
  BY <1>1, <1>2, Zenon DEF Listless, c

(* A SyncSession: the numbers behind any call that holds no list. *)
LEMMA SyncRead ==
  ASSUME NEW m \in Nat, m >= 52, NEW a, Listless(a, m), NEW n \in Nat, n >= 1,
         NEW c \in Bytes(n), NEW tsn \in Nat, NEW len \in Nat, m + 12 + n <= len
  PROVE  parse_start_session_resp(Response((a \o SessionNumbers(tsn)) \o c, len)) = tsn
<1> DEFINE w == SessionNumbers(tsn)
           d == a \o w
           b == d \o c
           r == Response(b, len)
           e == Len(a) - 52
<1>1. /\ a \in Seq(Nat) /\ Len(a) = m /\ c \in Seq(Nat) /\ Len(c) = n
      /\ \A i \in 53 .. Len(a) : a[i] # STARTLIST
  BY Zenon DEF Listless, Bytes
<1>2. Len(a) >= 52 /\ Len(c) >= 1 /\ Len(a) + 12 + Len(c) <= len
  BY <1>1
<1>3. /\ w \in Seq(Nat) /\ Len(w) = 12
      /\ w[1] = STARTLIST /\ w[2] = U32_ATOM /\ w[7] = U32_ATOM
      /\ w[8] = 0 /\ w[9] = 0 /\ 256 * w[10] + w[11] = tsn
  BY NumbersRead, Zenon
<1> HIDE DEF w
<1>4. /\ d \in Seq(Nat) /\ Len(d) = Len(a) + Len(w)
      /\ \A i \in 1 .. Len(a) : d[i] = a[i]
      /\ \A i \in 1 .. Len(w) : d[Len(a) + i] = w[i]
  BY <1>1, <1>3, Joined, Zenon
<1> HIDE DEF d
<1>5. /\ b \in Seq(Nat) /\ Len(b) = Len(d) + Len(c)
      /\ \A i \in 1 .. Len(d) : b[i] = d[i]
  BY <1>1, <1>4, Joined, Zenon
<1> HIDE DEF b
<1>6. Len(d) = Len(a) + 12 /\ Len(b) = Len(a) + 12 + Len(c) /\ Len(a) \in Nat
      /\ Len(b) \in Nat /\ Len(b) <= len
  BY <1>2, <1>1, <1>3, <1>4, <1>5
<1>7. \A i \in 53 .. Len(a) : b[i] # STARTLIST
  <2> TAKE i \in 53 .. Len(a)
  <2>1. i \in 1 .. Len(a) /\ i \in 1 .. Len(d)
    BY <1>6
  <2> QED
    BY <1>1, <1>4, <1>5, <2>1
<1>8. \A i \in 1 .. 12 : b[Len(a) + i] = w[i]
  <2> TAKE i \in 1 .. 12
  <2>1. i \in 1 .. Len(w)
    BY <1>3, Zenon
  <2>2. Len(a) + i \in 1 .. Len(d)
    BY <1>6
  <2> QED
    BY <1>4, <1>5, <2>1, <2>2, Zenon
<1>9. e \in Nat /\ 53 + e = Len(a) + 1 /\ 54 + e = Len(a) + 2 /\ 59 + e = Len(a) + 7
      /\ 60 + e = Len(a) + 8 /\ 61 + e = Len(a) + 9 /\ 62 + e = Len(a) + 10
      /\ 63 + e = Len(a) + 11 /\ 52 + e = Len(a) /\ e + TotalHdrLen + 13 <= Len(b)
  BY <1>2, <1>1, <1>6 DEF TotalHdrLen
<1> HIDE DEF e
<1>10. {1, 2, 7, 8, 9, 10, 11} \subseteq 1 .. 12
  OBVIOUS
<1>11. b[53 + e] = STARTLIST /\ b[54 + e] = U32_ATOM /\ b[59 + e] = U32_ATOM
  BY <1>3, <1>8, <1>9, <1>10, ZenonT(40)
<1>12. parse_start_session_resp(r) = U32(r, 59 + e)
  <2>1. \A i \in 53 .. 52 + e : b[i] # STARTLIST
    BY <1>7, <1>9, Zenon
  <2>2. e \in Nat /\ e + TotalHdrLen + 13 <= Len(b)
    BY <1>9, Zenon
  <2> QED
    <3>1. NumbersAt(b, e)
      BY <1>11, <2>1, <2>2, Zenon DEF NumbersAt
    <3> QED
      BY <1>5, <1>6, <2>2, <3>1, SessionAt, ZenonT(40)
<1>13. b[60 + e] = 0 /\ b[61 + e] = 0 /\ 256 * b[62 + e] + b[63 + e] = tsn
  <2>1. b[60 + e] = w[8] /\ b[61 + e] = w[9]
    BY <1>8, <1>9, <1>10, Zenon
  <2>2. b[62 + e] = w[10] /\ b[63 + e] = w[11]
    BY <1>8, <1>9, <1>10, Zenon
  <2> QED
    BY <1>3, <2>1, <2>2, Zenon
<1>14. \A i \in Nat : Byte(r, i) = IF i < Len(b) THEN b[i + 1] ELSE 0
  BY <1>5, BytesRead
<1> HIDE DEF r
<1>15. /\ Byte(r, 59 + e) = b[60 + e] /\ Byte(r, 59 + e + 1) = b[61 + e]
       /\ Byte(r, 59 + e + 2) = b[62 + e] /\ Byte(r, 59 + e + 2 + 1) = b[63 + e]
  <2>1. /\ 59 + e \in Nat /\ 59 + e + 1 \in Nat /\ 59 + e + 2 \in Nat
        /\ 59 + e + 2 + 1 \in Nat
        /\ 59 + e < Len(b) /\ 59 + e + 1 < Len(b) /\ 59 + e + 2 < Len(b)
        /\ 59 + e + 2 + 1 < Len(b)
        /\ 59 + e + 1 = 60 + e /\ 59 + e + 1 + 1 = 61 + e /\ 59 + e + 2 + 1 = 62 + e
        /\ 59 + e + 2 + 1 + 1 = 63 + e
    <3>1. e \in Nat /\ 59 + e + 4 <= Len(b) /\ Len(b) \in Nat
      BY <1>2, <1>1, <1>6, <1>9
    <3> QED
      BY <3>1
  <2>2. /\ Byte(r, 59 + e) = b[59 + e + 1] /\ Byte(r, 59 + e + 1) = b[59 + e + 1 + 1]
        /\ Byte(r, 59 + e + 2) = b[59 + e + 2 + 1]
        /\ Byte(r, 59 + e + 2 + 1) = b[59 + e + 2 + 1 + 1]
    BY <1>14, <2>1, ZenonT(40)
  <2> QED
    BY <2>1, <2>2, Zenon
<1>16. U32(r, 59 + e) = tsn
  <2>1. U16(r, 59 + e) = 0
    BY <1>13, <1>15 DEF U16
  <2>2. U16(r, 59 + e + 2) = tsn
    BY <1>13, <1>15 DEF U16
  <2> QED
    BY <2>1, <2>2 DEF U32
<1> QED
  BY <1>12, <1>16, Zenon DEF r, b, d, w

LEMMA SyncPacket ==
  ASSUME NEW m \in Nat, m >= 52, NEW a, Listless(a, m), NEW tsn \in Nat,
         NEW before \in BOOLEAN, NEW len \in Nat
  PROVE  LET b == (a \o SessionNumbers(tsn)) \o StatusTrailer(0, before)
         IN /\ b \in Seq(Nat) /\ Len(b) = m + 18
            /\ len >= m + 18 => parse_start_session_resp(Response(b, len)) = tsn
<1> DEFINE w == SessionNumbers(tsn)
           s == StatusTrailer(0, before)
           d == a \o w
           b == d \o s
<1>1. a \in Bytes(m)
  BY Zenon DEF Listless
<1>2. w \in Bytes(12) /\ s \in Bytes(6)
  BY NumbersRead, TrailerRead, ZenonT(40) DEF Bytes
<1> HIDE DEF w, s
<1>3. d \in Bytes(m + 12)
  BY <1>1, <1>2, BytesJoined
<1> HIDE DEF d
<1>4. b \in Bytes(m + 18)
  BY <1>2, <1>3, BytesJoined
<1> HIDE DEF b
<1>5. ASSUME len >= m + 18
      PROVE  parse_start_session_resp(Response((a \o SessionNumbers(tsn)) \o s, len)) = tsn
  <2>1. 6 >= 1 /\ 6 \in Nat /\ m + 12 + 6 <= len
    BY <1>5
  <2> QED
    BY <1>2, <2>1, SyncRead
<1> QED
  BY <1>4, <1>5, Zenon DEF b, d, w, s, Bytes

LEMMA OpeningBytes ==
  ASSUME NEW n \in Nat
  PROVE  Listless(Headers(n) \o <<CALL, UID_ATOM>>, 54)
<1> DEFINE call == <<CALL, UID_ATOM>>
           h == Headers(n)
<1>1. h \in Bytes(52)
  BY HeaderBytes
<1>2. call \in Bytes(2) /\ \A i \in 1 .. 2 : call[i] # STARTLIST
  <2>1. 1 .. 2 = {1, 2}
    OBVIOUS
  <2> QED
    BY <2>1 DEF CALL, UID_ATOM, STARTLIST, Bytes
<1> HIDE DEF call, h
<1>3. Listless(h, 52)
  <2>1. 53 .. 52 = {}
    OBVIOUS
  <2> QED
    BY <1>1, <2>1, Zenon DEF Listless
<1>4. Listless(h \o call, 54)
  BY <1>2, <1>3, StillListless
<1> QED
  BY <1>4, Zenon DEF h, call

LEMMA SesRead ==
  ASSUME NEW tsn \in Nat, NEW before \in BOOLEAN, NEW len \in Nat
  PROVE  LET b == RESP_SES(tsn, before)
         IN /\ b \in Seq(Nat) /\ Len(b) = 80
            /\ len >= 80 => parse_start_session_resp(Response(b, len)) = tsn
<1> DEFINE c == Headers(0) \o <<CALL, UID_ATOM>>
           a == c \o UID_STARTSESSION
           b == (a \o SessionNumbers(tsn)) \o StatusTrailer(0, before)
<1>1. Listless(c, 54)
  BY OpeningBytes
<1> HIDE DEF c
<1>2. Listless(a, 62)
  BY <1>1, UidBytes, StillListless
<1> HIDE DEF a
<1>3. /\ b \in Seq(Nat) /\ Len(b) = 62 + 18
      /\ len >= 62 + 18 => parse_start_session_resp(Response(b, len)) = tsn
  <2> 62 \in Nat /\ 62 >= 52
    OBVIOUS
  <2> QED
    BY <1>2, SyncPacket, SMTT(30)
<1>4. RESP_SES(tsn, before) = b
  BY Zenon DEF RESP_SES, b, a, c
<1> HIDE DEF b
<1>5. 62 + 18 = 80
  OBVIOUS
<1> QED
  BY <1>3, <1>4, <1>5, Zenon

LEMMA SyncSessionRead ==
  ASSUME NEW tsn \in Nat, NEW before \in BOOLEAN, NEW len \in Nat
  PROVE  LET b == FullSyncSession(tsn, before)
         IN /\ b \in Seq(Nat) /\ Len(b) = 89
            /\ len >= 89 => parse_start_session_resp(Response(b, len)) = tsn
<1> DEFINE uid  == [UID_STARTSESSION EXCEPT ![8] = 3]
           atom == <<UID_ATOM>>
           c == Headers(37) \o <<CALL, UID_ATOM>>
           d == c \o UID_SMUID
           f == d \o atom
           a == f \o uid
           b == (a \o SessionNumbers(tsn)) \o StatusTrailer(0, before)
<1>1. Listless(c, 54)
  BY OpeningBytes
<1> HIDE DEF c
<1>2. Listless(d, 62)
  BY <1>1, UidBytes, StillListless
<1> HIDE DEF d
<1>3. atom \in Bytes(1) /\ \A i \in 1 .. 1 : atom[i] # STARTLIST
  BY DEF UID_ATOM, STARTLIST, Bytes
<1> HIDE DEF atom
<1>4. Listless(f, 63)
  BY <1>2, <1>3, StillListless
<1> HIDE DEF f
<1>5. uid \in Bytes(8) /\ \A i \in 1 .. 8 : uid[i] # STARTLIST
  BY UidBytes, Zenon
<1> HIDE DEF uid
<1>6. Listless(a, 71)
  BY <1>4, <1>5, StillListless
<1> HIDE DEF a
<1>7. /\ b \in Seq(Nat) /\ Len(b) = 71 + 18
      /\ len >= 71 + 18 => parse_start_session_resp(Response(b, len)) = tsn
  <2> 71 \in Nat /\ 71 >= 52
    OBVIOUS
  <2> QED
    BY <1>6, SyncPacket, SMTT(30)
<1>8. FullSyncSession(tsn, before) = b
  BY Zenon DEF FullSyncSession, b, a, f, d, c, uid, atom
<1> HIDE DEF b
<1>9. 71 + 18 = 89
  OBVIOUS
<1> QED
  BY <1>7, <1>8, <1>9, Zenon

Columns == {COL_READ_LOCKED, COL_WRITE_LOCKED}

(* What no parser finds anything in. *)
LEMMA ZerosSayNothing ==
  ASSUME NEW b \in Seq(Nat), \A i \in 1 .. Len(b) : b[i] = 0, NEW len \in Nat
  PROVE  /\ parse_status(Response(b, len)) = OPAL_ERR_PROTO
         /\ parse_start_session_resp(Response(b, len)) = NoTsn
         /\ \A col \in Columns : column_value(Response(b, len), col) = 0
<1>1. \A i \in 1 .. Len(b) : b[i] # ENDOFDATA
  BY DEF ENDOFDATA
<1>2. \A i \in 53 .. Len(b) - 6 : b[i] # STARTLIST
  BY DEF STARTLIST
<1>3. \A i \in 53 .. Len(b) - 1 : b[i] # STARTNAME
  BY DEF STARTNAME
<1>4. Columns \subseteq Nat \ {0}
  BY DEF Columns, COL_READ_LOCKED, COL_WRITE_LOCKED
<1>5. parse_status(Response(b, len)) = OPAL_ERR_PROTO
  BY <1>1, NoStatus, Zenon
<1>6. parse_start_session_resp(Response(b, len)) = NoTsn
  BY <1>2, NoSession, Zenon
<1>7. ASSUME NEW col \in Columns PROVE column_value(Response(b, len), col) = 0
  BY <1>3, <1>4, NoColumn, Zenon DEF Nameless
<1> QED
  BY <1>5, <1>6, <1>7

(* A refusal, and a method's own success: no session and no lock state. *)
SaysStatus(b, n, s, before, len) ==
  /\ b \in Seq(Nat) /\ Len(b) = n
  /\ s # ENDOFDATA /\ len >= n =>
       parse_status(Response(b, len)) = CodeOfStatus(IF before THEN s ELSE 0)
  /\ parse_start_session_resp(Response(b, len)) = NoTsn
  /\ \A col \in Columns : column_value(Response(b, len), col) = 0

LEMMA StatusPacket ==
  ASSUME NEW m \in {52, 54}, NEW a \in Bytes(m), NEW s \in Nat, NEW before \in BOOLEAN,
         NEW len \in Nat, a[m - 3] = 0,
         m = 54 => a[53] = STARTLIST /\ a[54] = ENDLIST
  PROVE  SaysStatus(a \o StatusTrailer(s, before), m + 6, s, before, len)
<1> DEFINE w == StatusTrailer(s, before)
           b == a \o w
<1>1. /\ w \in Seq(Nat) /\ Len(w) = 6
      /\ before => /\ w[1] = STARTLIST /\ w[2] = s /\ w[3] = 0 /\ w[4] = 0
                   /\ w[5] = ENDLIST /\ w[6] = ENDOFDATA
      /\ ~before => /\ w[1] = ENDOFDATA /\ w[2] = STARTLIST /\ w[3] = s
                    /\ w[4] = 0 /\ w[5] = 0 /\ w[6] = ENDLIST
  BY TrailerRead
<1>2. a \in Seq(Nat) /\ Len(a) = m /\ m \in Nat
  BY DEF Bytes
<1>3. s # ENDOFDATA /\ len >= m + 6 =>
        parse_status(Response(b, len)) = CodeOfStatus(IF before THEN s ELSE 0)
  <2> HAVE s # ENDOFDATA /\ len >= m + 6
  <2>1. Len(a) >= TotalHdrLen /\ Len(a) + 6 <= len /\ (~before => a[Len(a) - 3] = 0)
    BY <1>2 DEF TotalHdrLen
  <2> QED
    BY <1>2, <2>1, StatusRead
<1> HIDE DEF w
<1>4. /\ b \in Seq(Nat) /\ Len(b) = Len(a) + Len(w)
      /\ \A i \in 1 .. Len(a) : b[i] = a[i]
      /\ \A i \in 1 .. Len(w) : b[Len(a) + i] = w[i]
  BY <1>1, <1>2, Joined, Zenon
<1> HIDE DEF b
<1>5. Len(b) = m + 6
  BY <1>1, <1>2, <1>4
<1>6. \A i \in 1 .. 6 : b[m + i] = w[i]
  BY <1>1, <1>2, <1>4, Zenon
<1>7. m = 54 => b[53] = STARTLIST /\ b[54] = ENDLIST
  <2> HAVE m = 54
  <2>1. 53 \in 1 .. Len(a) /\ 54 \in 1 .. Len(a)
    BY <1>2
  <2> QED
    BY <1>4, <2>1
<1>8. \A i \in 53 .. Len(b) - 6 : b[i] = STARTLIST => b[i + 1] # U32_ATOM
  <2>1. CASE m = 52
    BY <1>5, <2>1
  <2>2. CASE m = 54
    <3> TAKE i \in 53 .. Len(b) - 6
    <3>1. i = 53 \/ i = 54
      BY <1>5, <2>2
    <3> QED
      BY <1>7, <2>2, <3>1 DEF STARTLIST, ENDLIST, U32_ATOM
  <2> QED
    BY <2>1, <2>2
<1>9. /\ b[m + 1] = w[1] /\ b[m + 2] = w[2] /\ b[m + 3] = w[3]
      /\ b[m + 4] = w[4] /\ b[m + 5] = w[5] /\ b[m + 6] = w[6]
  BY <1>6
<1>10. ASSUME NEW col \in Columns
       PROVE  Nameless(b, col)
  <2> SUFFICES ASSUME NEW i \in 53 .. Len(b) - 1
               PROVE  b[i] = STARTNAME => b[i + 1] # col
    BY DEF Nameless
  <2>1. \/ m = 54 /\ i \in {53, 54}
        \/ i \in {m + 1, m + 2, m + 3, m + 4, m + 5}
    BY <1>5
  <2>2. CASE m = 54 /\ i \in {53, 54}
    BY <1>7, <2>2 DEF STARTNAME, STARTLIST, ENDLIST
  <2>3. CASE i \in {m + 1, m + 2, m + 3, m + 4, m + 5}
    <3>1. col # 0
      BY DEF Columns, COL_READ_LOCKED, COL_WRITE_LOCKED
    <3>2. CASE before
      BY <1>1, <1>9, <2>3, <3>1, <3>2, SMTT(30) DEF STARTNAME, STARTLIST, ENDLIST
    <3>3. CASE ~before
      <4>1. /\ b[m + 1] = ENDOFDATA /\ b[m + 2] = STARTLIST
            /\ b[m + 4] = 0 /\ b[m + 5] = 0
        BY <1>1, <1>9, <3>3, Zenon
      <4>2. /\ b[m + 1] # STARTNAME /\ b[m + 2] # STARTNAME
            /\ b[m + 4] # STARTNAME /\ b[m + 5] # STARTNAME
        BY <4>1 DEF STARTNAME, STARTLIST, ENDOFDATA
      <4>3. (m + 3) + 1 = m + 4
        BY <1>2
      <4> QED
        BY <2>3, <3>1, <4>1, <4>2, <4>3
    <3> QED
      BY <3>2, <3>3
  <2> QED
    BY <2>1, <2>2, <2>3
<1>11. Columns \subseteq Nat \ {0}
  BY DEF Columns, COL_READ_LOCKED, COL_WRITE_LOCKED
<1>12. parse_start_session_resp(Response(b, len)) = NoTsn
  BY <1>4, <1>8, NoSession, Zenon
<1>13. ASSUME NEW col \in Columns PROVE column_value(Response(b, len), col) = 0
  <2>1. col \in Nat \ {0} /\ Nameless(b, col)
    BY <1>10, <1>11
  <2>2. b \in Seq(Nat)
    BY <1>4
  <2> QED
    BY <2>1, <2>2, NoColumn, ZenonT(40)
<1> QED
  BY <1>3, <1>4, <1>5, <1>12, <1>13, Zenon DEF SaysStatus, b, w

LEMMA StatusesRead ==
  ASSUME NEW s \in Nat, NEW before \in BOOLEAN, NEW len \in Nat,
         NEW b \in {RESP_STATUS(s, before), FullStatus(s, before)}
  PROVE  /\ b \in Bytes(58) \cup Bytes(60)
         /\ s # ENDOFDATA /\ len >= Len(b) =>
              parse_status(Response(b, len)) = CodeOfStatus(IF before THEN s ELSE 0)
         /\ parse_start_session_resp(Response(b, len)) = NoTsn
         /\ \A col \in Columns : column_value(Response(b, len), col) = 0
<1>1. CASE b = RESP_STATUS(s, before)
  <2> DEFINE a == Headers(0)
  <2>1. a \in Bytes(52) /\ a[49] = 0
    BY HeaderBytes
  <2>2. b = a \o StatusTrailer(s, before)
    BY <1>1 DEF RESP_STATUS
  <2> HIDE DEF a
  <2>3. 52 \in {52, 54} /\ 52 - 3 = 49 /\ 52 # 54 /\ 52 + 6 = 58
    OBVIOUS
  <2>4. SaysStatus(b, 58, s, before, len)
    BY <2>1, <2>2, <2>3, StatusPacket
  <2> QED
    BY <2>4 DEF SaysStatus, Bytes
<1>2. CASE b = FullStatus(s, before)
  <2> DEFINE h == Headers(8)
             r == <<STARTLIST, ENDLIST>>
             a == h \o r
  <2>1. h \in Bytes(52) /\ h[51] = 0
    BY HeaderBytes
  <2>2. r \in Bytes(2) /\ r[1] = STARTLIST /\ r[2] = ENDLIST
    BY DEF STARTLIST, ENDLIST, Bytes
  <2>3. b = a \o StatusTrailer(s, before)
    BY <1>2 DEF FullStatus
  <2> HIDE DEF h, r
  <2>4. /\ a \in Bytes(54) /\ \A i \in 1 .. 52 : a[i] = h[i]
        /\ \A i \in 1 .. 2 : a[52 + i] = r[i]
    <3>1. h \in Seq(Nat) /\ Len(h) = 52 /\ r \in Seq(Nat) /\ Len(r) = 2
      BY <2>1, <2>2 DEF Bytes
    <3>2. /\ a \in Seq(Nat) /\ Len(a) = Len(h) + Len(r)
          /\ \A i \in 1 .. Len(h) : a[i] = h[i]
          /\ \A i \in 1 .. Len(r) : a[Len(h) + i] = r[i]
      <4>1. h \in Seq(Nat) /\ r \in Seq(Nat)
        BY <3>1
      <4> QED
        BY <4>1, Joined, Zenon
    <3> HIDE DEF a
    <3> QED
      BY <3>1, <3>2 DEF Bytes
  <2> HIDE DEF a
  <2>5. a[51] = 0 /\ a[53] = STARTLIST /\ a[54] = ENDLIST
    BY <2>1, <2>2, <2>4
  <2>6. 54 \in {52, 54} /\ 54 - 3 = 51 /\ 54 + 6 = 60
    OBVIOUS
  <2>7. a \in Bytes(54)
    BY <2>4
  <2>8. SaysStatus(b, 60, s, before, len)
    BY <2>3, <2>5, <2>6, <2>7, StatusPacket
  <2> QED
    BY <2>8 DEF SaysStatus, Bytes
<1> QED
  BY <1>1, <1>2

(* A Get result: each column reads as the value it was given. *)
LEMMA RowRead ==
  ASSUME NEW l \in {0, 1}, NEW before \in BOOLEAN, NEW len \in Nat
  PROVE  LET b == RowResult(l, before)
         IN /\ b \in Seq(Nat) /\ Len(b) = 70
            /\ len >= 70 => \A col \in Columns : column_value(Response(b, len), col) = l
<1> DEFINE column(col) == <<STARTNAME, col, l, ENDNAME>>
           p1 == Headers(18)
           p2 == <<STARTLIST, STARTLIST>>
           p3 == column(COL_READ_LOCKED)
           p4 == column(COL_WRITE_LOCKED)
           p5 == <<ENDLIST, ENDLIST>>
           p6 == StatusTrailer(0, before)
           s2 == p1 \o p2
           s3 == s2 \o p3
           s4 == s3 \o p4
           s5 == s4 \o p5
           b  == s5 \o p6
<1>1. p1 \in Seq(Nat) /\ Len(p1) = 52
  BY HeadersRead DEF TotalHdrLen
<1>2. p2 \in Seq(Nat) /\ Len(p2) = 2
  BY DEF STARTLIST
<1>3. /\ p3 \in Seq(Nat) /\ Len(p3) = 4
      /\ p3[1] = STARTNAME /\ p3[2] = COL_READ_LOCKED /\ p3[3] = l /\ p3[4] = ENDNAME
  BY DEF STARTNAME, ENDNAME, COL_READ_LOCKED
<1>4. /\ p4 \in Seq(Nat) /\ Len(p4) = 4
      /\ p4[1] = STARTNAME /\ p4[2] = COL_WRITE_LOCKED /\ p4[3] = l /\ p4[4] = ENDNAME
  BY DEF STARTNAME, ENDNAME, COL_WRITE_LOCKED
<1>5. p5 \in Seq(Nat) /\ Len(p5) = 2 /\ p5[1] = ENDLIST /\ p5[2] = ENDLIST
  BY DEF ENDLIST
<1>6. /\ p6 \in Seq(Nat) /\ Len(p6) = 6
      /\ \A i \in 1 .. 6 : p6[i] # STARTNAME
  <2>1. /\ p6 \in Seq(Nat) /\ Len(p6) = 6
        /\ before => /\ p6[1] = STARTLIST /\ p6[2] = 0 /\ p6[3] = 0 /\ p6[4] = 0
                     /\ p6[5] = ENDLIST /\ p6[6] = ENDOFDATA
        /\ ~before => /\ p6[1] = ENDOFDATA /\ p6[2] = STARTLIST /\ p6[3] = 0
                      /\ p6[4] = 0 /\ p6[5] = 0 /\ p6[6] = ENDLIST
    BY TrailerRead
  <2> HIDE DEF p6
  <2>2. 1 .. 6 = {1, 2, 3, 4, 5, 6}
    OBVIOUS
  <2>3. \A i \in {1, 2, 3, 4, 5, 6} : p6[i] # STARTNAME
    BY <2>1 DEF STARTNAME, STARTLIST, ENDLIST, ENDOFDATA
  <2> QED
    BY <2>1, <2>2, <2>3, Zenon
<1> HIDE DEF p1, p2, p3, p4, p5, p6
<1>7. s2 \in Seq(Nat) /\ Len(s2) = Len(p1) + Len(p2)
  BY <1>1, <1>2, Joined, Zenon
<1> HIDE DEF s2
<1>8. /\ s3 \in Seq(Nat) /\ Len(s3) = Len(s2) + Len(p3)
      /\ \A i \in 1 .. Len(p3) : s3[Len(s2) + i] = p3[i]
  BY <1>3, <1>7, Joined, Zenon
<1> HIDE DEF s3
<1>9. /\ s4 \in Seq(Nat) /\ Len(s4) = Len(s3) + Len(p4)
      /\ \A i \in 1 .. Len(s3) : s4[i] = s3[i]
      /\ \A i \in 1 .. Len(p4) : s4[Len(s3) + i] = p4[i]
  BY <1>4, <1>8, Joined, Zenon
<1> HIDE DEF s4
<1>10. /\ s5 \in Seq(Nat) /\ Len(s5) = Len(s4) + Len(p5)
       /\ \A i \in 1 .. Len(s4) : s5[i] = s4[i]
       /\ \A i \in 1 .. Len(p5) : s5[Len(s4) + i] = p5[i]
  BY <1>5, <1>9, Joined, Zenon
<1> HIDE DEF s5
<1>11. /\ b \in Seq(Nat) /\ Len(b) = Len(s5) + Len(p6)
       /\ \A i \in 1 .. Len(s5) : b[i] = s5[i]
       /\ \A i \in 1 .. Len(p6) : b[Len(s5) + i] = p6[i]
  BY <1>6, <1>10, Joined, Zenon
<1> HIDE DEF b
<1>12. Len(s2) = 54 /\ Len(s3) = 58 /\ Len(s4) = 62 /\ Len(s5) = 64 /\ Len(b) = 70
  BY <1>1, <1>2, <1>3, <1>4, <1>5, <1>6, <1>7, <1>8, <1>9, <1>10, <1>11
<1>13. s3[55] = STARTNAME /\ s3[56] = COL_READ_LOCKED /\ s3[57] = l /\ s3[58] = ENDNAME
  BY <1>3, <1>8, <1>12
<1>14. /\ s4[55] = STARTNAME /\ s4[56] = COL_READ_LOCKED /\ s4[57] = l /\ s4[58] = ENDNAME
       /\ s4[59] = STARTNAME /\ s4[60] = COL_WRITE_LOCKED /\ s4[61] = l
       /\ s4[62] = ENDNAME
  BY <1>4, <1>9, <1>12, <1>13
<1>15. \A i \in 55 .. 62 : b[i] = s4[i]
  <2>1. \A i \in 1 .. 62 : s5[i] = s4[i]
    BY <1>10, <1>12, Zenon
  <2>2. \A i \in 1 .. 64 : b[i] = s5[i]
    BY <1>11, <1>12, Zenon
  <2> QED
    BY <2>1, <2>2
<1>16. /\ b[55] = STARTNAME /\ b[56] = COL_READ_LOCKED /\ b[57] = l /\ b[58] = ENDNAME
       /\ b[59] = STARTNAME /\ b[60] = COL_WRITE_LOCKED /\ b[61] = l /\ b[62] = ENDNAME
  BY <1>14, <1>15
<1>17. \A i \in 63 .. 70 : b[i] # STARTNAME
  <2> TAKE i \in 63 .. 70
  <2>1. CASE i \in {63, 64}
    <3>1. s5[63] = ENDLIST /\ s5[64] = ENDLIST
      BY <1>5, <1>10, <1>12
    <3>2. b[63] = s5[63] /\ b[64] = s5[64]
      BY <1>11, <1>12
    <3> QED
      BY <2>1, <3>1, <3>2 DEF ENDLIST, STARTNAME
  <2>2. CASE i \notin {63, 64}
    <3> DEFINE k == i - 64
    <3>1. k \in 1 .. 6 /\ 64 + k = i
      BY <2>2
    <3> HIDE DEF k
    <3>2. Len(p6) = 6 /\ Len(s5) = 64
      BY <1>6, <1>12
    <3>3. \A j \in 1 .. 6 : b[64 + j] = p6[j]
      BY <1>11, <3>2, ZenonT(30)
    <3> QED
      BY <1>6, <3>1, <3>3
  <2> QED
    BY <2>1, <2>2
<1>18. /\ STARTNAME = 242 /\ ENDNAME = 243 /\ COL_READ_LOCKED = 7 /\ COL_WRITE_LOCKED = 8
       /\ TotalHdrLen = 52
  BY DEF STARTNAME, ENDNAME, COL_READ_LOCKED, COL_WRITE_LOCKED, TotalHdrLen
<1>19. ASSUME len >= 70 PROVE column_value(Response(b, len), COL_READ_LOCKED) = l
  <2>1. \A i \in 56 .. 69 : b[i] = STARTNAME => b[i + 1] # COL_READ_LOCKED
    <3> TAKE i \in 56 .. 69
    <3>1. i \in {56, 57, 58, 59, 60, 61, 62} \/ i \in 63 .. 70
      OBVIOUS
    <3> QED
      BY <1>16, <1>17, <1>18, <3>1
  <2>2. b[70] # STARTNAME
    BY <1>17
  <2>3. NamedAt(b, COL_READ_LOCKED, 2)
    BY <1>12, <1>16, <1>18, <2>1, <2>2 DEF NamedAt
  <2>4. 2 \in Nat /\ COL_READ_LOCKED \in Nat /\ Len(b) <= len /\ b[55 + 2] = l
    BY <1>12, <1>16, <1>18, <1>19
  <2> QED
    BY <1>11, <2>3, <2>4, ColumnAt, SMTT(30)
<1>20. ASSUME len >= 70 PROVE column_value(Response(b, len), COL_WRITE_LOCKED) = l
  <2>1. \A i \in 60 .. 69 : b[i] = STARTNAME => b[i + 1] # COL_WRITE_LOCKED
    <3> TAKE i \in 60 .. 69
    <3>1. i \in {60, 61, 62} \/ i \in 63 .. 70
      OBVIOUS
    <3> QED
      BY <1>16, <1>17, <1>18, <3>1
  <2>2. b[70] # STARTNAME
    BY <1>17
  <2>3. NamedAt(b, COL_WRITE_LOCKED, 6)
    BY <1>12, <1>16, <1>18, <2>1, <2>2 DEF NamedAt
  <2>4. 6 \in Nat /\ COL_WRITE_LOCKED \in Nat /\ Len(b) <= len /\ b[55 + 6] = l
    BY <1>12, <1>16, <1>18, <1>20
  <2> QED
    BY <1>11, <2>3, <2>4, ColumnAt, SMTT(30)
<1>21. RowResult(l, before) = b
  BY Zenon DEF RowResult, b, s5, s4, s3, s2, p1, p2, p3, p4, p5, p6
<1> QED
  BY <1>11, <1>12, <1>19, <1>20, <1>21 DEF Columns

-----------------------------------------------------------------------------
(* Discovery data: where its pieces lie. *)
Placed(b, k, d) == k + Len(d) <= Len(b) /\ \A i \in 1 .. Len(d) : b[k + i] = d[i]

LEMMA PlacedLast ==
  ASSUME NEW a \in Seq(Nat), NEW d \in Seq(Nat)
  PROVE  Placed(a \o d, Len(a), d)
<1> DEFINE b == a \o d
<1>1. b \in Seq(Nat) /\ Len(b) = Len(a) + Len(d) /\ \A i \in 1 .. Len(d) : b[Len(a) + i] = d[i]
  BY Joined, Zenon
<1> HIDE DEF b
<1>2. Len(a) + Len(d) <= Len(b)
  BY <1>1
<1> QED
  BY <1>1, <1>2, Zenon DEF Placed, b

LEMMA PlacedStill ==
  ASSUME NEW a \in Seq(Nat), NEW c \in Seq(Nat), NEW d \in Seq(Nat), NEW k \in Nat,
         Placed(a, k, d)
  PROVE  Placed(a \o c, k, d)
<1> DEFINE b == a \o c
<1>1. b \in Seq(Nat) /\ Len(b) = Len(a) + Len(c) /\ \A i \in 1 .. Len(a) : b[i] = a[i]
  BY Joined, Zenon
<1> HIDE DEF b
<1>2. k + Len(d) <= Len(a) /\ \A i \in 1 .. Len(d) : a[k + i] = d[i]
  BY Zenon DEF Placed
<1>3. k + Len(d) <= Len(b)
  BY <1>1, <1>2
<1>4. ASSUME NEW i \in 1 .. Len(d) PROVE b[k + i] = d[i]
  <2>1. k + i \in 1 .. Len(a)
    BY <1>2
  <2> QED
    BY <1>1, <1>2, <2>1, Zenon
<1> QED
  BY <1>3, <1>4, Zenon DEF Placed, b

LEMMA PlacedIn ==
  ASSUME NEW b \in Seq(Nat), NEW a \in Seq(Nat), NEW d \in Seq(Nat),
         NEW j \in Nat, NEW k \in Nat, Placed(b, j, a), Placed(a, k, d)
  PROVE  Placed(b, j + k, d)
<1>1. j + Len(a) <= Len(b) /\ \A i \in 1 .. Len(a) : b[j + i] = a[i]
  BY Zenon DEF Placed
<1>2. k + Len(d) <= Len(a) /\ \A i \in 1 .. Len(d) : a[k + i] = d[i]
  BY Zenon DEF Placed
<1>3. j + k + Len(d) <= Len(b)
  BY <1>1, <1>2
<1>4. ASSUME NEW i \in 1 .. Len(d) PROVE b[j + k + i] = d[i]
  <2>1. k + i \in 1 .. Len(a) /\ j + (k + i) = j + k + i
    BY <1>2
  <2> QED
    BY <1>1, <1>2, <2>1, Zenon
<1> QED
  BY <1>3, <1>4, Zenon DEF Placed

(* A feature descriptor: its code, its length and the data it begins with. *)
Feature(d, code, n, first) ==
  /\ d \in Seq(Nat) /\ Len(d) = n + 4
  /\ 256 * d[1] + d[2] = code /\ d[4] = n
  /\ \A i \in 1 .. Len(first) : d[4 + i] = first[i]

LEMMA DescriptorRead ==
  ASSUME NEW code \in Nat, NEW first \in Seq(Nat), NEW n \in Nat, Len(first) <= n,
         NEW fill \in Nat
  PROVE  Feature(Descriptor(code, first, n, fill), code, n, first)
<1> DEFINE hi == code \div 256
           lo == code % 256
           p1 == <<hi, lo>>
           p2 == <<16, n>>
           p4 == [i \in 1 .. n - Len(first) |-> fill]
           s2 == p1 \o p2
           s3 == s2 \o first
           s4 == s3 \o p4
<1>1. hi \in Nat /\ lo \in Nat /\ 256 * hi + lo = code
  OBVIOUS
<1> HIDE DEF hi, lo
<1>2. /\ p1 \in Seq(Nat) /\ Len(p1) = 2 /\ p1[1] = hi /\ p1[2] = lo
      /\ p2 \in Seq(Nat) /\ Len(p2) = 2 /\ p2[2] = n
  BY <1>1
<1>3. p4 \in Seq(Nat) /\ Len(p4) = n - Len(first)
  OBVIOUS
<1> HIDE DEF p1, p2, p4
<1>4. /\ s2 \in Seq(Nat) /\ Len(s2) = Len(p1) + Len(p2)
      /\ \A i \in 1 .. Len(p1) : s2[i] = p1[i]
      /\ \A i \in 1 .. Len(p2) : s2[Len(p1) + i] = p2[i]
  BY <1>2, Joined, Zenon
<1> HIDE DEF s2
<1>5. /\ s3 \in Seq(Nat) /\ Len(s3) = Len(s2) + Len(first)
      /\ \A i \in 1 .. Len(s2) : s3[i] = s2[i]
      /\ \A i \in 1 .. Len(first) : s3[Len(s2) + i] = first[i]
  BY <1>4, Joined, Zenon
<1> HIDE DEF s3
<1>6. /\ s4 \in Seq(Nat) /\ Len(s4) = Len(s3) + Len(p4)
      /\ \A i \in 1 .. Len(s3) : s4[i] = s3[i]
  BY <1>3, <1>5, Joined, Zenon
<1> HIDE DEF s4
<1>7. Len(s2) = 4 /\ Len(s3) = 4 + Len(first) /\ Len(s4) = n + 4 /\ Len(first) \in Nat
  BY <1>2, <1>3, <1>4, <1>5, <1>6
<1>8. s2[1] = hi /\ s2[2] = lo /\ s2[4] = n
  BY <1>2, <1>4
<1>9. s3[1] = hi /\ s3[2] = lo /\ s3[4] = n
  BY <1>5, <1>7, <1>8
<1>10. s4[1] = hi /\ s4[2] = lo /\ s4[4] = n
  <2>1. 1 \in 1 .. Len(s3) /\ 2 \in 1 .. Len(s3) /\ 4 \in 1 .. Len(s3)
    BY <1>7
  <2> QED
    BY <1>6, <1>9, <2>1, Zenon
<1>11. ASSUME NEW i \in 1 .. Len(first) PROVE s4[4 + i] = first[i]
  <2>1. 4 + i \in 1 .. Len(s3)
    BY <1>7
  <2>2. s4[4 + i] = s3[4 + i]
    BY <1>6, <2>1, Zenon
  <2>3. s3[4 + i] = first[i]
    BY <1>5, <1>7, Zenon
  <2> QED
    BY <2>2, <2>3, Zenon
<1>12. 256 * s4[1] + s4[2] = code
  BY <1>1, <1>10, Zenon
<1>13. Descriptor(code, first, n, fill) = s4
  BY Zenon DEF Descriptor, U16Bytes, s4, s3, s2, p1, p2, p4, hi, lo
<1> QED
  BY <1>6, <1>7, <1>10, <1>11, <1>12, <1>13, ZenonT(40) DEF Feature

(* Descriptor code, with n bytes that begin with first, lies at o. *)
Lies(b, o, code, n, first) ==
  /\ o \in Nat /\ code \in Nat /\ n \in Nat /\ first \in Seq(Nat) /\ Len(first) <= n
  /\ \E d : Feature(d, code, n, first) /\ Placed(b, o, d)

(* What the walk sees of a descriptor that lies at o. *)
LEMMA FeatureRead ==
  ASSUME NEW b \in Seq(Nat), NEW len \in Nat, NEW o, NEW code, NEW n, NEW first,
         Lies(b, o, code, n, first)
  PROVE  LET r == Response(b, len)
         IN /\ U16(r, o) = code /\ Byte(r, o + 3) = n
            /\ Len(first) >= 1 => Byte(r, o + 4) = first[1]
            /\ Len(first) >= 2 => U16(r, o + 4) = 256 * first[1] + first[2]
<1>1. PICK d : Feature(d, code, n, first) /\ Placed(b, o, d)
  BY Zenon DEF Lies
<1> o \in Nat /\ code \in Nat /\ n \in Nat /\ first \in Seq(Nat) /\ Len(first) <= n
  BY Zenon DEF Lies
<1> DEFINE r == Response(b, len)
<1>2. \A i \in Nat : Byte(r, i) = IF i < Len(b) THEN b[i + 1] ELSE 0
  BY BytesRead
<1> HIDE DEF r
<1>3. /\ d \in Seq(Nat) /\ Len(d) = n + 4
      /\ 256 * d[1] + d[2] = code /\ d[4] = n
      /\ \A i \in 1 .. Len(first) : d[4 + i] = first[i]
  BY <1>1, Zenon DEF Feature
<1>4. o + Len(d) <= Len(b) /\ \A i \in 1 .. Len(d) : b[o + i] = d[i]
  BY <1>1, Zenon DEF Placed
<1>5. \A i \in Nat : i < n + 4 => Byte(r, o + i) = d[i + 1]
  <2> SUFFICES ASSUME NEW i \in Nat, i < n + 4 PROVE Byte(r, o + i) = d[i + 1]
    OBVIOUS
  <2>1. /\ o + i \in Nat /\ o + i < Len(b) /\ (o + i) + 1 = o + (i + 1)
        /\ i + 1 \in 1 .. Len(d)
    BY <1>3, <1>4
  <2> QED
    BY <1>2, <1>4, <2>1, Zenon
<1>6. /\ Byte(r, o) = d[1] /\ Byte(r, o + 1) = d[2] /\ Byte(r, o + 3) = d[4]
      /\ n >= 1 => Byte(r, o + 4) = d[5]
      /\ n >= 2 => Byte(r, o + 4 + 1) = d[6]
  <2>1. Byte(r, o + 0) = d[0 + 1] /\ Byte(r, o + 1) = d[1 + 1] /\ Byte(r, o + 3) = d[3 + 1]
    <3> 0 \in Nat /\ 1 \in Nat /\ 3 \in Nat /\ 0 < n + 4 /\ 1 < n + 4 /\ 3 < n + 4
      OBVIOUS
    <3> QED
      BY <1>5, Zenon
  <2>2. n >= 1 => Byte(r, o + 4) = d[4 + 1]
    <3> HAVE n >= 1
    <3> 4 \in Nat /\ 4 < n + 4
      OBVIOUS
    <3> QED
      BY <1>5, Zenon
  <2>3. n >= 2 => Byte(r, o + 5) = d[5 + 1]
    <3> HAVE n >= 2
    <3> 5 \in Nat /\ 5 < n + 4
      OBVIOUS
    <3> QED
      BY <1>5, Zenon
  <2>4. /\ o + 0 = o /\ 0 + 1 = 1 /\ 1 + 1 = 2 /\ 3 + 1 = 4 /\ 4 + 1 = 5 /\ 5 + 1 = 6
        /\ o + 5 = o + 4 + 1
    OBVIOUS
  <2> QED
    BY <2>1, <2>2, <2>3, <2>4, Zenon
<1>7. Len(first) \in Nat /\ (Len(first) >= 1 => n >= 1) /\ (Len(first) >= 2 => n >= 2)
  OBVIOUS
<1>8. Len(first) >= 1 => d[5] = first[1]
  <2> HAVE Len(first) >= 1
  <2>1. 1 \in 1 .. Len(first) /\ 4 + 1 = 5
    BY <1>7
  <2> QED
    BY <1>3, <2>1, Zenon
<1>9. Len(first) >= 2 => d[5] = first[1] /\ d[6] = first[2]
  <2> HAVE Len(first) >= 2
  <2>1. 1 \in 1 .. Len(first) /\ 2 \in 1 .. Len(first) /\ 4 + 1 = 5 /\ 4 + 2 = 6
    BY <1>7
  <2> QED
    BY <1>3, <2>1, Zenon
<1>10. U16(r, o) = code
  BY <1>3, <1>6, Zenon DEF U16
<1>11. Len(first) >= 2 => U16(r, o + 4) = 256 * first[1] + first[2]
  <2> HAVE Len(first) >= 2
  <2>1. Byte(r, o + 4) = first[1] /\ Byte(r, o + 4 + 1) = first[2]
    BY <1>6, <1>7, <1>9
  <2> QED
    BY <2>1, Zenon DEF U16
<1> QED
  BY <1>3, <1>6, <1>7, <1>8, <1>10, <1>11, Zenon DEF r

(* The header of discovery data, and the features behind it. *)
LEMMA DiscoveryRead ==
  ASSUME NEW hdr \in Nat, hdr >= 4, NEW features \in Seq(Nat), NEW len \in Nat
  PROVE  LET b == DiscoveryOf(hdr, features)
         IN /\ b \in Seq(Nat) /\ Len(b) = hdr + Len(features)
            /\ Placed(b, hdr, features)
            /\ \A i \in 4 .. hdr - 1 : Byte(Response(b, len), i) = 0
            /\ DiscoveryTotal(Response(b, len)) = hdr - 4 + Len(features)
<1> DEFINE n  == hdr - 4 + Len(features)
           p1 == U32Bytes(n)
           p2 == Zeros(hdr - 4)
           s2 == p1 \o p2
           b  == s2 \o features
           r  == Response(b, len)
<1>1. n \in Nat /\ hdr - 4 \in Nat
  OBVIOUS
<1> HIDE DEF n
<1>2. p1 \in Seq(Nat) /\ Len(p1) = 4 /\ p1[1] = 0 /\ p1[2] = 0 /\ 256 * p1[3] + p1[4] = n
  BY <1>1, WordRead, Zenon
<1>3. p2 \in Seq(Nat) /\ Len(p2) = hdr - 4 /\ \A i \in 1 .. hdr - 4 : p2[i] = 0
  BY <1>1, ZerosRead, Zenon
<1> HIDE DEF p1, p2
<1>4. /\ s2 \in Seq(Nat) /\ Len(s2) = Len(p1) + Len(p2)
      /\ \A i \in 1 .. Len(p1) : s2[i] = p1[i]
      /\ \A i \in 1 .. Len(p2) : s2[Len(p1) + i] = p2[i]
  BY <1>2, <1>3, Joined, Zenon
<1> HIDE DEF s2
<1>5. /\ b \in Seq(Nat) /\ Len(b) = Len(s2) + Len(features)
      /\ \A i \in 1 .. Len(s2) : b[i] = s2[i]
  BY <1>4, Joined, Zenon
<1>6. Placed(b, Len(s2), features)
  BY <1>4, PlacedLast, Zenon
<1> HIDE DEF b
<1>7. Len(s2) = hdr /\ Len(b) = hdr + Len(features) /\ Len(features) \in Nat
  BY <1>2, <1>3, <1>4, <1>5
<1>8. \A i \in Nat : Byte(r, i) = IF i < Len(b) THEN b[i + 1] ELSE 0
  BY <1>5, BytesRead
<1> HIDE DEF r
<1>9. ASSUME NEW i \in 4 .. hdr - 1 PROVE Byte(r, i) = 0
  <2> DEFINE k == i - 3
  <2>1. /\ k \in 1 .. hdr - 4 /\ 4 + k = i + 1 /\ i \in Nat /\ i < Len(b)
        /\ i + 1 \in 1 .. Len(s2)
    BY <1>7
  <2> HIDE DEF k
  <2>2. Byte(r, i) = b[i + 1] /\ b[i + 1] = s2[i + 1]
    BY <1>5, <1>8, <2>1, Zenon
  <2>3. s2[4 + k] = p2[k] /\ p2[k] = 0
    BY <1>2, <1>3, <1>4, <2>1, Zenon
  <2> QED
    BY <2>1, <2>2, <2>3, Zenon
<1>10. DiscoveryTotal(r) = n
  <2>1. s2[1] = 0 /\ s2[2] = 0 /\ s2[3] = p1[3] /\ s2[4] = p1[4]
    BY <1>2, <1>4
  <2>2. b[1] = 0 /\ b[2] = 0 /\ b[3] = p1[3] /\ b[4] = p1[4]
    BY <1>5, <1>7, <2>1
  <2>3. 0 < Len(b) /\ 1 < Len(b) /\ 2 < Len(b) /\ 3 < Len(b)
    BY <1>7
  <2>4. Byte(r, 0) = 0 /\ Byte(r, 1) = 0 /\ Byte(r, 2) = p1[3] /\ Byte(r, 3) = p1[4]
    BY <1>8, <2>2, <2>3
  <2>5. U16(r, 0) = 0
    BY <2>4 DEF U16
  <2>6. U16(r, 2) = n
    BY <1>2, <2>4 DEF U16
  <2> QED
    BY <1>1, <2>5, <2>6 DEF DiscoveryTotal, U32
<1>11. DiscoveryOf(hdr, features) = b
  BY Zenon DEF DiscoveryOf, b, s2, p1, p2, n
<1> QED
  BY <1>5, <1>6, <1>7, <1>9, <1>10, <1>11, Zenon DEF r, n

(* What is reported follows from the last feature of each kind. *)
BitsOf(bits) == [enabled |-> (bits \div 2) % 2 = 1, locked |-> (bits \div 4) % 2 = 1]

LEMMA DiscoveryParsed ==
  ASSUME NEW r, FeatureOffsets(r) \subseteq Nat, NEW l \in FeatureOffsets(r),
         U16(r, l) = FEAT_LOCKING, NEW bits \in Nat, Byte(r, l + 4) = bits,
         \A o \in FeatureOffsets(r) : U16(r, o) = FEAT_LOCKING => o <= l,
         NEW com \in Nat,
         \/ com = 0 /\ \A o \in FeatureOffsets(r) : U16(r, o) \notin {FEAT_OPALV1, FEAT_OPALV2}
         \/ \E v \in FeatureOffsets(r) :
              /\ U16(r, v) \in {FEAT_OPALV1, FEAT_OPALV2} /\ U16(r, v + 4) = com
              /\ \A o \in FeatureOffsets(r) :
                   U16(r, o) \in {FEAT_OPALV1, FEAT_OPALV2} => o <= v
  PROVE  parse_discovery(r) = [com     |-> com,
                               enabled |-> BitsOf(bits).enabled,
                               locked  |-> BitsOf(bits).locked]
<1> DEFINE found(feats) == {o \in FeatureOffsets(r) : U16(r, o) \in feats}
           opal    == found({FEAT_OPALV1, FEAT_OPALV2})
           locking == found({FEAT_LOCKING})
<1>1. locking \in SUBSET Int /\ l \in locking /\ \A o \in locking : o <= l
  OBVIOUS
<1>2. Max(locking) = l /\ locking # {}
  <2> HIDE DEF locking
  <2> QED
    BY <1>1, MaxIs
<1>3. (IF opal = {} THEN 0 ELSE U16(r, Max(opal) + 4)) = com
  <2>1. CASE com = 0 /\ \A o \in FeatureOffsets(r) : U16(r, o) \notin {FEAT_OPALV1, FEAT_OPALV2}
    BY <2>1
  <2>2. CASE \E v \in FeatureOffsets(r) :
               /\ U16(r, v) \in {FEAT_OPALV1, FEAT_OPALV2} /\ U16(r, v + 4) = com
               /\ \A o \in FeatureOffsets(r) :
                    U16(r, o) \in {FEAT_OPALV1, FEAT_OPALV2} => o <= v
    <3>1. PICK v \in FeatureOffsets(r) :
               /\ U16(r, v) \in {FEAT_OPALV1, FEAT_OPALV2} /\ U16(r, v + 4) = com
               /\ \A o \in FeatureOffsets(r) :
                    U16(r, o) \in {FEAT_OPALV1, FEAT_OPALV2} => o <= v
      BY <2>2
    <3>2. opal \in SUBSET Int /\ v \in opal /\ \A o \in opal : o <= v
      BY <3>1
    <3> HIDE DEF opal
    <3>3. Max(opal) = v /\ opal # {}
      BY <3>2, MaxIs
    <3> QED
      BY <3>1, <3>3
  <2> QED
    BY <2>1, <2>2
<1>4. parse_discovery(r)
        = [com     |-> IF opal = {} THEN 0 ELSE U16(r, Max(opal) + 4),
           enabled |-> locking # {} /\ (Byte(r, Max(locking) + 4) \div 2) % 2 = 1,
           locked  |-> locking # {} /\ (Byte(r, Max(locking) + 4) \div 4) % 2 = 1]
  BY Zenon DEF parse_discovery, FeaturesFound
<1> HIDE DEF opal, locking
<1>5. /\ (locking # {} /\ (Byte(r, Max(locking) + 4) \div 2) % 2 = 1) = BitsOf(bits).enabled
      /\ (locking # {} /\ (Byte(r, Max(locking) + 4) \div 4) % 2 = 1) = BitsOf(bits).locked
  BY <1>2, Zenon DEF BitsOf
<1> QED
  BY <1>3, <1>4, <1>5, Zenon

LEMMA ZeroStep ==
  ASSUME NEW f, NEW r, Walks(f, r), DiscoveryTotal(r) \in Nat, NEW o \in Nat,
         o <= DiscoveryTotal(r), Byte(r, o + 3) = 0
  PROVE  f[o] = {o} \cup f[o + 4]
<1>1. ~(o + 4 > DiscoveryTotal(r) + 4) /\ o + 4 + 0 = o + 4
  OBVIOUS
<1>2. f[o] = {o} \cup f[o + 4 + Byte(r, o + 3)]
  BY <1>1, WalkSteps, Zenon
<1>3. f[o] = {o} \cup f[o + 4 + 0]
  BY <1>2, Zenon
<1> QED
  BY <1>1, <1>3, Zenon

(* A header of 48 zero bytes is walked in steps of four. *)
HeaderStops == {8, 12, 16, 20, 24, 28, 32, 36, 40, 44}

LEMMA HeaderWalk ==
  ASSUME NEW f, NEW r, Walks(f, r), DiscoveryTotal(r) \in Nat, DiscoveryTotal(r) >= 44,
         \A i \in 4 .. 47 : Byte(r, i) = 0
  PROVE  /\ f[8] = HeaderStops \cup f[48]
         /\ \A o \in HeaderStops : U16(r, o) = 0
<1>1. \A o \in HeaderStops : /\ o \in Nat /\ o <= DiscoveryTotal(r)
                             /\ o \in 4 .. 47 /\ o + 1 \in 4 .. 47 /\ o + 3 \in 4 .. 47
  BY DEF HeaderStops
<1>2. \A o \in HeaderStops : f[o] = {o} \cup f[o + 4]
  BY <1>1, ZeroStep, Zenon
<1>3. /\ f[8] = {8} \cup f[12] /\ f[12] = {12} \cup f[16] /\ f[16] = {16} \cup f[20]
      /\ f[20] = {20} \cup f[24] /\ f[24] = {24} \cup f[28] /\ f[28] = {28} \cup f[32]
      /\ f[32] = {32} \cup f[36] /\ f[36] = {36} \cup f[40] /\ f[40] = {40} \cup f[44]
      /\ f[44] = {44} \cup f[48]
  BY <1>2 DEF HeaderStops
<1>4. f[8] = HeaderStops \cup f[48]
  BY <1>3 DEF HeaderStops
<1>5. \A o \in HeaderStops : U16(r, o) = 0
  BY <1>1 DEF U16
<1> QED
  BY <1>4, <1>5

(* The walk reaches a descriptor and goes on behind it. *)
LEMMA FeatureStep ==
  ASSUME NEW b \in Seq(Nat), NEW len \in Nat, NEW o, NEW code, NEW n, NEW first,
         Lies(b, o, code, n, first), NEW f, Walks(f, Response(b, len)),
         NEW total \in Nat, DiscoveryTotal(Response(b, len)) = total, o <= total
  PROVE  f[o] = {o} \cup f[o + 4 + n]
<1> DEFINE r == Response(b, len)
<1>1. Byte(r, o + 3) = n
  BY FeatureRead
<1>2. o \in Nat
  BY Zenon DEF Lies
<1> HIDE DEF r
<1>3. ~(o + 4 > total + 4)
  BY <1>2
<1>4. Walks(f, r) /\ DiscoveryTotal(r) = total
  BY DEF r
<1>5. f[o] = {o} \cup f[o + 4 + Byte(r, o + 3)]
  <2>1. ~(o + 4 > DiscoveryTotal(r) + 4)
    BY <1>3, <1>4, Zenon
  <2> QED
    BY <1>2, <1>4, <2>1, WalkSteps, Zenon
<1> QED
  BY <1>1, <1>5, Zenon

(* The sizes of what is put together. *)
Data(code, first, n, fill) ==
  code \in Nat /\ first \in Seq(Nat) /\ n \in Nat /\ Len(first) <= n /\ fill \in Nat
Behind(m, n, k) == m \in Nat /\ n \in Nat /\ k = m + n + 4
Framed(hdr, m, k, total) ==
  hdr \in Nat /\ hdr >= 4 /\ m \in Nat /\ k = hdr + m /\ total = hdr - 4 + m
Moved(hdr, o, p) == p = hdr + o

LEMMA OneDescriptor ==
  ASSUME NEW code, NEW first, NEW n, NEW fill, Data(code, first, n, fill),
         NEW m, Behind(0, n, m)
  PROVE  LET d == Descriptor(code, first, n, fill)
         IN d \in Bytes(m) /\ Lies(d, 0, code, n, first)
<1> DEFINE d == Descriptor(code, first, n, fill)
<1> code \in Nat /\ first \in Seq(Nat) /\ n \in Nat /\ Len(first) <= n /\ fill \in Nat
  BY Zenon DEF Data
<1>1. Feature(d, code, n, first)
  BY DescriptorRead, Zenon
<1> HIDE DEF d
<1>2. d \in Seq(Nat) /\ Len(d) = n + 4
  BY <1>1, Zenon DEF Feature
<1>3. Placed(d, 0, d)
  BY <1>2 DEF Placed
<1>4. d \in Bytes(m)
  BY <1>2 DEF Bytes, Behind
<1>5. 0 \in Nat
  OBVIOUS
<1>6. Lies(d, 0, code, n, first)
  BY <1>1, <1>3, <1>5, Zenon DEF Lies
<1> QED
  BY <1>4, <1>6, Zenon DEF d

(* One more descriptor behind those that lie there already. *)
LEMMA OneMore ==
  ASSUME NEW m, NEW a \in Bytes(m), NEW code, NEW first, NEW n, NEW fill,
         Data(code, first, n, fill), NEW k, Behind(m, n, k)
  PROVE  LET c == a \o Descriptor(code, first, n, fill)
         IN /\ c \in Bytes(k) /\ Lies(c, m, code, n, first)
            /\ \A o, x, y, z : Lies(a, o, x, y, z) => Lies(c, o, x, y, z)
<1> DEFINE d == Descriptor(code, first, n, fill)
           c == a \o d
<1> code \in Nat /\ first \in Seq(Nat) /\ n \in Nat /\ Len(first) <= n /\ fill \in Nat
  BY Zenon DEF Data
<1>1. Feature(d, code, n, first)
  BY DescriptorRead, Zenon
<1> HIDE DEF d
<1>2. d \in Seq(Nat) /\ Len(d) = n + 4 /\ a \in Seq(Nat) /\ Len(a) = m
  BY <1>1, Zenon DEF Feature, Bytes
<1>3. c \in Seq(Nat) /\ Len(c) = Len(a) + Len(d)
  BY <1>2, Joined, Zenon
<1>4. Placed(c, Len(a), d)
  BY <1>2, PlacedLast, Zenon
<1>5. \A o \in Nat, e \in Seq(Nat) : Placed(a, o, e) => Placed(c, o, e)
  BY <1>2, PlacedStill, Zenon
<1> HIDE DEF c
<1>6. c \in Bytes(k) /\ m \in Nat
  BY <1>2, <1>3 DEF Bytes, Behind
<1>7. Lies(c, m, code, n, first)
  BY <1>1, <1>2, <1>4, <1>6, Zenon DEF Lies
<1>8. \A o, x, y, z : Lies(a, o, x, y, z) => Lies(c, o, x, y, z)
  <2> SUFFICES ASSUME NEW o, NEW x, NEW y, NEW z, Lies(a, o, x, y, z)
               PROVE  Lies(c, o, x, y, z)
    OBVIOUS
  <2>1. PICK e : Feature(e, x, y, z) /\ Placed(a, o, e)
    BY Zenon DEF Lies
  <2>2. o \in Nat /\ e \in Seq(Nat)
    BY <2>1, Zenon DEF Lies, Feature
  <2>3. Placed(c, o, e)
    BY <1>5, <2>1, <2>2, Zenon
  <2> QED
    BY <2>1, <2>3, Zenon DEF Lies
<1> QED
  BY <1>6, <1>7, <1>8, Zenon DEF c, d

(* The data of a discovery: total length, zeros up to hdr, descriptors.     *)
LEMMA DataRead ==
  ASSUME NEW m, NEW features \in Bytes(m), NEW hdr, NEW k, NEW total,
         Framed(hdr, m, k, total), NEW len \in Nat
  PROVE  LET b == DiscoveryOf(hdr, features)
         IN /\ b \in Bytes(k) /\ Placed(b, hdr, features)
            /\ \A o, x, y, z, p : Lies(features, o, x, y, z) /\ Moved(hdr, o, p)
                                    => Lies(b, p, x, y, z)
            /\ \A i \in 4 .. hdr - 1 : Byte(Response(b, len), i) = 0
            /\ DiscoveryTotal(Response(b, len)) = total
<1> DEFINE b == DiscoveryOf(hdr, features)
<1>1. features \in Seq(Nat) /\ Len(features) = m /\ hdr \in Nat /\ hdr >= 4
  BY Zenon DEF Bytes, Framed
<1>2. /\ b \in Seq(Nat) /\ Len(b) = hdr + Len(features)
      /\ Placed(b, hdr, features)
      /\ \A i \in 4 .. hdr - 1 : Byte(Response(b, len), i) = 0
      /\ DiscoveryTotal(Response(b, len)) = hdr - 4 + Len(features)
  BY <1>1, DiscoveryRead, Zenon
<1> HIDE DEF b
<1>3. b \in Bytes(k) /\ DiscoveryTotal(Response(b, len)) = total
  BY <1>1, <1>2, Zenon DEF Bytes, Framed
<1>4. \A o, x, y, z : Lies(features, o, x, y, z) => Lies(b, hdr + o, x, y, z)
  <2> SUFFICES ASSUME NEW o, NEW x, NEW y, NEW z, Lies(features, o, x, y, z)
               PROVE  Lies(b, hdr + o, x, y, z)
    OBVIOUS
  <2>1. PICK e : Feature(e, x, y, z) /\ Placed(features, o, e)
    BY Zenon DEF Lies
  <2>2. o \in Nat /\ e \in Seq(Nat)
    BY <2>1, Zenon DEF Lies, Feature
  <2>3. Placed(b, hdr + o, e)
    BY <1>1, <1>2, <2>1, <2>2, PlacedIn, Zenon
  <2>4. hdr + o \in Nat
    BY <1>1, <2>2
  <2> QED
    BY <2>1, <2>3, <2>4, Zenon DEF Lies
<1> QED
  BY <1>2, <1>3, <1>4, Zenon DEF b, Moved

(* Where a descriptor lies, the walk reads it, and goes on behind it.       *)
Reads(r, b) ==
  \A o, code, n, first : Lies(b, o, code, n, first) =>
    /\ U16(r, o) = code
    /\ Len(first) >= 1 => Byte(r, o + 4) = first[1]
    /\ Len(first) >= 2 => U16(r, o + 4) = 256 * first[1] + first[2]

Goes(f, r, b, total) ==
  /\ Walks(f, r) /\ FeatureOffsets(r) = f[8]
  /\ \A o, code, n, first, next :
       Lies(b, o, code, n, first) /\ Behind(o, n, next) /\ o <= total
         => f[o] = {o} \cup f[next]

LEMMA DataWalk ==
  ASSUME NEW k, NEW b \in Bytes(k), NEW len \in Nat, NEW total \in Nat,
         DiscoveryTotal(Response(b, len)) = total
  PROVE  /\ Reads(Response(b, len), b)
         /\ \E f : Goes(f, Response(b, len), b, total)
<1> DEFINE r == Response(b, len)
<1>1. b \in Seq(Nat)
  BY Zenon DEF Bytes
<1>2. PICK f : Walks(f, r) /\ FeatureOffsets(r) = f[8]
  BY <1>1, WalkExists, OffsetsWalk
<1>3. ASSUME NEW o, NEW code, NEW n, NEW first, Lies(b, o, code, n, first)
      PROVE  /\ U16(r, o) = code
             /\ Len(first) >= 1 => Byte(r, o + 4) = first[1]
             /\ Len(first) >= 2 => U16(r, o + 4) = 256 * first[1] + first[2]
  BY <1>1, <1>3, FeatureRead
<1>4. ASSUME NEW o, NEW code, NEW n, NEW first, NEW next,
             Lies(b, o, code, n, first), Behind(o, n, next), o <= total
      PROVE  f[o] = {o} \cup f[next]
  <2>1. f[o] = {o} \cup f[o + 4 + n]
    BY <1>1, <1>2, <1>4, FeatureStep
  <2>2. next = o + 4 + n
    BY <1>4 DEF Behind
  <2> QED
    BY <2>1, <2>2, Zenon
<1> HIDE DEF r
<1>5. Reads(r, b)
  BY <1>3 DEF Reads
<1>6. Goes(f, r, b, total)
  BY <1>2, <1>4 DEF Goes
<1> QED
  BY <1>5, <1>6, Zenon DEF r

LEMMA CodesDiffer ==
  /\ FEAT_TPER \in Nat /\ FEAT_LOCKING \in Nat /\ FEAT_GEOMETRY \in Nat
  /\ FEAT_OPALV1 \in Nat /\ FEAT_OPALV2 \in Nat
  /\ 0 \notin {FEAT_LOCKING, FEAT_OPALV1, FEAT_OPALV2}
  /\ FEAT_TPER \notin {FEAT_LOCKING, FEAT_OPALV1, FEAT_OPALV2}
  /\ FEAT_GEOMETRY \notin {FEAT_LOCKING, FEAT_OPALV1, FEAT_OPALV2}
  /\ 65535 \notin {FEAT_LOCKING, FEAT_OPALV1, FEAT_OPALV2}
  /\ FEAT_LOCKING \notin {FEAT_OPALV1, FEAT_OPALV2}
BY DEF FEAT_TPER, FEAT_LOCKING, FEAT_GEOMETRY, FEAT_OPALV1, FEAT_OPALV2

(* A discovery without an OPAL feature. *)
LEMMA NoOpalRead ==
  ASSUME NEW bits \in Nat, NEW len \in Nat
  PROVE  LET b == NoOpalDiscovery(bits)
         IN /\ b \in Bytes(80)
            /\ parse_discovery(Response(b, len)) = [com     |-> 0,
                                                    enabled |-> BitsOf(bits).enabled,
                                                    locked  |-> BitsOf(bits).locked]
<1> DEFINE v1 == <<17>>
           v2 == <<bits>>
           c1 == Descriptor(FEAT_TPER, v1, 12, 255)
           c2 == c1 \o Descriptor(FEAT_LOCKING, v2, 12, 255)
           b  == DiscoveryOf(48, c2)
           r  == Response(b, len)
<1>1. v2[1] = bits /\ Len(v2) >= 1
  OBVIOUS
<1>2. Data(FEAT_TPER, v1, 12, 255) /\ Data(FEAT_LOCKING, v2, 12, 255)
  BY CodesDiffer DEF Data
<1> HIDE DEF v1, v2, r
<1>3. /\ Behind(0, 12, 16) /\ Behind(16, 12, 32) /\ Framed(48, 32, 80, 76)
      /\ Moved(48, 0, 48) /\ Moved(48, 16, 64) /\ Behind(48, 12, 64) /\ Behind(64, 12, 80)
  BY DEF Behind, Framed, Moved
<1>4. c1 \in Bytes(16) /\ Lies(c1, 0, FEAT_TPER, 12, v1)
  BY <1>2, <1>3, OneDescriptor, ZenonT(40)
<1> HIDE DEF c1
<1>5. /\ c2 \in Bytes(32) /\ Lies(c2, 16, FEAT_LOCKING, 12, v2)
      /\ \A o, x, y, z : Lies(c1, o, x, y, z) => Lies(c2, o, x, y, z)
  BY <1>2, <1>3, <1>4, OneMore
<1> HIDE DEF c2
<1>6. /\ b \in Bytes(80)
      /\ \A o, x, y, z, p : Lies(c2, o, x, y, z) /\ Moved(48, o, p) => Lies(b, p, x, y, z)
      /\ \A i \in 4 .. 48 - 1 : Byte(r, i) = 0
      /\ DiscoveryTotal(r) = 76
  BY <1>3, <1>5, DataRead DEF r
<1> HIDE DEF b
<1>7. Lies(b, 48, FEAT_TPER, 12, v1) /\ Lies(b, 64, FEAT_LOCKING, 12, v2)
  BY <1>3, <1>4, <1>5, <1>6
<1>8. 76 \in Nat
  OBVIOUS
<1>9. Reads(r, b) /\ \E f : Goes(f, r, b, 76)
  BY <1>6, <1>8, DataWalk DEF r
<1>10. U16(r, 48) = FEAT_TPER /\ U16(r, 64) = FEAT_LOCKING /\ Byte(r, 64 + 4) = bits
  BY <1>1, <1>7, <1>9 DEF Reads
<1>11. PICK f : Goes(f, r, b, 76)
  BY <1>9, Zenon
<1>12. f[8] = HeaderStops \cup f[48] /\ \A o \in HeaderStops : U16(r, o) = 0
  BY <1>6, <1>11, HeaderWalk DEF Goes
<1>13. f[48] = {48} \cup f[64] /\ f[64] = {64} \cup f[80]
  BY <1>3, <1>7, <1>11 DEF Goes
<1>14. f[80] = {}
  BY <1>6, <1>11, WalkSteps DEF Goes
<1>15. FeatureOffsets(r) = HeaderStops \cup {48, 64}
  BY <1>11, <1>12, <1>13, <1>14 DEF Goes
<1>16. FeatureOffsets(r) \subseteq Nat /\ 64 \in FeatureOffsets(r)
  BY <1>15 DEF HeaderStops
<1>17. \A o \in FeatureOffsets(r) : U16(r, o) = FEAT_LOCKING => o <= 64
  BY <1>15 DEF HeaderStops
<1>18. \A o \in FeatureOffsets(r) : U16(r, o) \notin {FEAT_OPALV1, FEAT_OPALV2}
  BY <1>10, <1>12, <1>15, CodesDiffer
<1>19. parse_discovery(r) = [com     |-> 0,
                             enabled |-> BitsOf(bits).enabled,
                             locked  |-> BitsOf(bits).locked]
  BY <1>10, <1>16, <1>17, <1>18, DiscoveryParsed
<1>20. NoOpalDiscovery(bits) = b
  BY Zenon DEF NoOpalDiscovery, b, c2, c1, v1, v2
<1> QED
  BY <1>6, <1>19, <1>20, Zenon DEF r

(* What follows the descriptors in RESP_DISC is walked in steps of four.    *)
TailStops == {40, 44, 48, 52, 56, 60, 64, 68, 72}

LEMMA TailWalk ==
  ASSUME NEW f, NEW r, Walks(f, r), DiscoveryTotal(r) = 72,
         \A i \in 40 .. 75 : Byte(r, i) = 0
  PROVE  f[40] = TailStops /\ \A o \in TailStops : U16(r, o) = 0
<1>1. \A o \in TailStops : /\ o \in Nat /\ o <= DiscoveryTotal(r)
                           /\ o \in 40 .. 75 /\ o + 1 \in 40 .. 75 /\ o + 3 \in 40 .. 75
  BY DEF TailStops
<1>2. DiscoveryTotal(r) \in Nat
  OBVIOUS
<1>3. ASSUME NEW o \in TailStops PROVE f[o] = {o} \cup f[o + 4]
  <2>1. Byte(r, o + 3) = 0 /\ o \in Nat /\ o <= DiscoveryTotal(r)
    BY <1>1
  <2> QED
    BY <1>2, <2>1, ZeroStep
<1>4. /\ f[40] = {40} \cup f[44] /\ f[44] = {44} \cup f[48] /\ f[48] = {48} \cup f[52]
      /\ f[52] = {52} \cup f[56] /\ f[56] = {56} \cup f[60] /\ f[60] = {60} \cup f[64]
      /\ f[64] = {64} \cup f[68] /\ f[68] = {68} \cup f[72] /\ f[72] = {72} \cup f[76]
  BY <1>3 DEF TailStops
<1>5. f[76] = {}
  BY WalkSteps
<1>6. f[40] = TailStops
  BY <1>4, <1>5 DEF TailStops
<1>7. \A o \in TailStops : U16(r, o) = 0
  BY <1>1 DEF U16
<1> QED
  BY <1>6, <1>7

(* Zeros behind the descriptors. *)
Padded(m, n, k) == m \in Nat /\ n \in Nat /\ k = m + n

LEMMA PadRead ==
  ASSUME NEW m, NEW a \in Bytes(m), NEW n, NEW k, Padded(m, n, k)
  PROVE  LET c == a \o Zeros(n)
         IN /\ c \in Bytes(k)
            /\ \A i \in 1 .. k : i > m => c[i] = 0
            /\ \A o, x, y, z : Lies(a, o, x, y, z) => Lies(c, o, x, y, z)
<1> DEFINE d == Zeros(n)
           c == a \o d
<1> m \in Nat /\ n \in Nat /\ k = m + n
  BY Zenon DEF Padded
<1>1. d \in Seq(Nat) /\ Len(d) = n /\ \A i \in 1 .. n : d[i] = 0
  BY ZerosRead, Zenon
<1> HIDE DEF d
<1>2. a \in Seq(Nat) /\ Len(a) = m
  BY Zenon DEF Bytes
<1>3. /\ c \in Seq(Nat) /\ Len(c) = Len(a) + Len(d)
      /\ \A i \in 1 .. Len(d) : c[Len(a) + i] = d[i]
  BY <1>1, <1>2, Joined, Zenon
<1>4. \A o \in Nat, e \in Seq(Nat) : Placed(a, o, e) => Placed(c, o, e)
  BY <1>1, <1>2, PlacedStill, Zenon
<1> HIDE DEF c
<1>5. c \in Bytes(k)
  BY <1>1, <1>2, <1>3 DEF Bytes
<1>6. ASSUME NEW i \in 1 .. k, i > m PROVE c[i] = 0
  <2>1. i - m \in 1 .. n /\ m + (i - m) = i
    BY <1>6
  <2>2. c[m + (i - m)] = d[i - m] /\ d[i - m] = 0
    BY <1>1, <1>2, <1>3, <2>1, Zenon
  <2> QED
    BY <2>1, <2>2, Zenon
<1>7. \A o, x, y, z : Lies(a, o, x, y, z) => Lies(c, o, x, y, z)
  <2> SUFFICES ASSUME NEW o, NEW x, NEW y, NEW z, Lies(a, o, x, y, z)
               PROVE  Lies(c, o, x, y, z)
    OBVIOUS
  <2>1. PICK e : Feature(e, x, y, z) /\ Placed(a, o, e)
    BY Zenon DEF Lies
  <2>2. o \in Nat /\ e \in Seq(Nat)
    BY <2>1, Zenon DEF Lies, Feature
  <2>3. Placed(c, o, e)
    BY <1>4, <2>1, <2>2, Zenon
  <2> QED
    BY <2>1, <2>3, Zenon DEF Lies
<1> QED
  BY <1>5, <1>6, <1>7, Zenon DEF c, d

(* The discovery of the stubs. *)
LEMMA DiscRead ==
  ASSUME NEW com \in Nat, NEW bits \in Nat, NEW len \in Nat
  PROVE  LET b == RESP_DISC(com, bits)
         IN /\ b \in Bytes(76)
            /\ parse_discovery(Response(b, len)) = [com     |-> com,
                                                    enabled |-> BitsOf(bits).enabled,
                                                    locked  |-> BitsOf(bits).locked]
<1> DEFINE v1 == <<bits>>
           v2 == U16Bytes(com) \o <<0, 1>>
           c1 == Descriptor(FEAT_LOCKING, v1, 12, 0)
           c2 == c1 \o Descriptor(FEAT_OPALV2, v2, 12, 0)
           c3 == c2 \o Zeros(36)
           b  == DiscoveryOf(8, c3)
           r  == Response(b, len)
<1>1. v1[1] = bits /\ Len(v1) >= 1
  OBVIOUS
<1>2. v2 \in Seq(Nat) /\ Len(v2) = 4 /\ 256 * v2[1] + v2[2] = com
  BY DEF U16Bytes
<1> HIDE DEF v2
<1>3. Data(FEAT_LOCKING, v1, 12, 0) /\ Data(FEAT_OPALV2, v2, 12, 0)
  BY <1>2, CodesDiffer DEF Data
<1> HIDE DEF v1, r
<1>4. /\ Behind(0, 12, 16) /\ Behind(16, 12, 32) /\ Framed(8, 68, 76, 72)
      /\ Moved(8, 0, 8) /\ Moved(8, 16, 24) /\ Behind(8, 12, 24) /\ Behind(24, 12, 40)
  BY DEF Behind, Framed, Moved
<1>5. c1 \in Bytes(16) /\ Lies(c1, 0, FEAT_LOCKING, 12, v1)
  BY <1>3, <1>4, OneDescriptor
<1> HIDE DEF c1
<1>6. /\ c2 \in Bytes(32) /\ Lies(c2, 16, FEAT_OPALV2, 12, v2)
      /\ \A o, x, y, z : Lies(c1, o, x, y, z) => Lies(c2, o, x, y, z)
  BY <1>3, <1>4, <1>5, OneMore
<1> HIDE DEF c2
<1>7. /\ c3 \in Bytes(68) /\ \A i \in 1 .. 68 : i > 32 => c3[i] = 0
      /\ \A o, x, y, z : Lies(c2, o, x, y, z) => Lies(c3, o, x, y, z)
  <2>1. Padded(32, 36, 68)
    BY DEF Padded
  <2> QED
    BY <1>6, <2>1, PadRead
<1> HIDE DEF c3
<1>8. /\ b \in Bytes(76) /\ Placed(b, 8, c3)
      /\ \A o, x, y, z, p : Lies(c3, o, x, y, z) /\ Moved(8, o, p) => Lies(b, p, x, y, z)
      /\ DiscoveryTotal(r) = 72
  BY <1>4, <1>7, DataRead DEF r
<1> HIDE DEF b
<1>9. Lies(b, 8, FEAT_LOCKING, 12, v1) /\ Lies(b, 24, FEAT_OPALV2, 12, v2)
  BY <1>4, <1>5, <1>6, <1>7, <1>8
<1>10. Reads(r, b) /\ \E f : Goes(f, r, b, 72)
  BY <1>8, DataWalk DEF r
<1>11. /\ U16(r, 8) = FEAT_LOCKING /\ Byte(r, 8 + 4) = bits
       /\ U16(r, 24) = FEAT_OPALV2 /\ U16(r, 24 + 4) = com
  <2>1. /\ U16(r, 8) = FEAT_LOCKING
        /\ Len(v1) >= 1 => Byte(r, 8 + 4) = v1[1]
    BY <1>9, <1>10 DEF Reads
  <2>2. /\ U16(r, 24) = FEAT_OPALV2
        /\ Len(v2) >= 2 => U16(r, 24 + 4) = 256 * v2[1] + v2[2]
    BY <1>9, <1>10 DEF Reads
  <2>3. Len(v2) >= 2
    BY <1>2
  <2> QED
    BY <1>1, <1>2, <2>1, <2>2, <2>3
<1>12. PICK f : Goes(f, r, b, 72)
  BY <1>10, Zenon
<1>13. f[8] = {8} \cup f[24] /\ f[24] = {24} \cup f[40]
  BY <1>4, <1>9, <1>12 DEF Goes
<1>14. \A i \in 40 .. 75 : Byte(r, i) = 0
  <2> SUFFICES ASSUME NEW i \in 40 .. 75 PROVE Byte(r, i) = 0
    OBVIOUS
  <2>1. b \in Seq(Nat) /\ Len(b) = 76 /\ Len(c3) = 68
    BY <1>7, <1>8 DEF Bytes
  <2>2. \A j \in Nat : Byte(r, j) = IF j < Len(b) THEN b[j + 1] ELSE 0
    BY <2>1, BytesRead, ZenonT(40) DEF r
  <2>3. Byte(r, i) = b[i + 1]
    BY <2>1, <2>2
  <2>4. \A j \in 1 .. Len(c3) : b[8 + j] = c3[j]
    BY <1>8, Zenon DEF Placed
  <2>5. b[8 + (i - 7)] = c3[i - 7]
    <3>1. i - 7 \in 1 .. Len(c3)
      BY <2>1
    <3> QED
      BY <2>4, <3>1, Zenon
  <2>6. c3[i - 7] = 0
    BY <1>7
  <2> QED
    BY <2>3, <2>5, <2>6
<1>15. f[40] = TailStops /\ \A o \in TailStops : U16(r, o) = 0
  BY <1>8, <1>12, <1>14, TailWalk DEF Goes
<1>16. FeatureOffsets(r) = {8, 24} \cup TailStops
  BY <1>12, <1>13, <1>15 DEF Goes
<1>17. FeatureOffsets(r) \subseteq Nat /\ {8, 24} \subseteq FeatureOffsets(r)
  BY <1>16 DEF TailStops
<1>18. \A o \in FeatureOffsets(r) : U16(r, o) = FEAT_LOCKING => o <= 8
  BY <1>11, <1>15, <1>16, CodesDiffer
<1>19. \A o \in FeatureOffsets(r) : U16(r, o) \in {FEAT_OPALV1, FEAT_OPALV2} => o <= 24
  BY <1>11, <1>15, <1>16, CodesDiffer
<1>20. parse_discovery(r) = [com     |-> com,
                             enabled |-> BitsOf(bits).enabled,
                             locked  |-> BitsOf(bits).locked]
  BY <1>11, <1>17, <1>18, <1>19, DiscoveryParsed
<1>21. RESP_DISC(com, bits) = b
  BY Zenon DEF RESP_DISC, b, c3, c2, c1, v1, v2
<1> QED
  BY <1>8, <1>20, <1>21, Zenon DEF r

(* The discovery a drive sends. *)
LEMMA FullRead ==
  ASSUME NEW com \in Nat, NEW bits \in Nat, NEW len \in Nat
  PROVE  LET b == FullDiscovery(com, bits)
         IN /\ b \in Bytes(156)
            /\ parse_discovery(Response(b, len)) = [com     |-> com,
                                                    enabled |-> BitsOf(bits).enabled,
                                                    locked  |-> BitsOf(bits).locked]
<1> DEFINE v1 == <<17>>
           v2 == <<bits>>
           v3 == <<1>>
           v4 == U16Bytes(com)
           v5 == <<>>
           c1 == Descriptor(FEAT_TPER, v1, 12, 255)
           c2 == c1 \o Descriptor(FEAT_LOCKING, v2, 12, 255)
           c3 == c2 \o Descriptor(FEAT_GEOMETRY, v3, 28, 255)
           c4 == c3 \o Descriptor(FEAT_OPALV1, v4, 16, 255)
           c5 == c4 \o Descriptor(65535, v5, 0, 255)
           c6 == c5 \o Descriptor(FEAT_OPALV2, v4, 16, 255)
           b  == DiscoveryOf(48, c6)
           r  == Response(b, len)
<1>1. v2[1] = bits /\ Len(v2) >= 1
  OBVIOUS
<1>2. v4 \in Seq(Nat) /\ Len(v4) = 2 /\ 256 * v4[1] + v4[2] = com
  BY DEF U16Bytes
<1> HIDE DEF v4
<1>3. /\ Data(FEAT_TPER, v1, 12, 255) /\ Data(FEAT_LOCKING, v2, 12, 255)
      /\ Data(FEAT_GEOMETRY, v3, 28, 255) /\ Data(65535, v5, 0, 255)
  BY CodesDiffer DEF Data
<1>4. Data(FEAT_OPALV1, v4, 16, 255) /\ Data(FEAT_OPALV2, v4, 16, 255)
  BY <1>2, CodesDiffer DEF Data
<1> HIDE DEF v1, v2, v3, v5, r
<1>5. /\ Behind(0, 12, 16) /\ Behind(16, 12, 32) /\ Behind(32, 28, 64)
      /\ Behind(64, 16, 84) /\ Behind(84, 0, 88) /\ Behind(88, 16, 108)
      /\ Framed(48, 108, 156, 152)
  BY DEF Behind, Framed
<1>6. c1 \in Bytes(16) /\ Lies(c1, 0, FEAT_TPER, 12, v1)
  BY <1>3, <1>5, OneDescriptor
<1> HIDE DEF c1
<1>7. /\ c2 \in Bytes(32) /\ Lies(c2, 16, FEAT_LOCKING, 12, v2)
      /\ \A o, x, y, z : Lies(c1, o, x, y, z) => Lies(c2, o, x, y, z)
  BY <1>3, <1>5, <1>6, OneMore
<1> HIDE DEF c2
<1>8. /\ c3 \in Bytes(64) /\ Lies(c3, 32, FEAT_GEOMETRY, 28, v3)
      /\ \A o, x, y, z : Lies(c2, o, x, y, z) => Lies(c3, o, x, y, z)
  BY <1>3, <1>5, <1>7, OneMore
<1> HIDE DEF c3
<1>9. /\ c4 \in Bytes(84) /\ Lies(c4, 64, FEAT_OPALV1, 16, v4)
      /\ \A o, x, y, z : Lies(c3, o, x, y, z) => Lies(c4, o, x, y, z)
  BY <1>4, <1>5, <1>8, OneMore
<1> HIDE DEF c4
<1>10. /\ c5 \in Bytes(88) /\ Lies(c5, 84, 65535, 0, v5)
       /\ \A o, x, y, z : Lies(c4, o, x, y, z) => Lies(c5, o, x, y, z)
  BY <1>3, <1>5, <1>9, OneMore
<1> HIDE DEF c5
<1>11. /\ c6 \in Bytes(108) /\ Lies(c6, 88, FEAT_OPALV2, 16, v4)
       /\ \A o, x, y, z : Lies(c5, o, x, y, z) => Lies(c6, o, x, y, z)
  BY <1>4, <1>5, <1>10, OneMore
<1> HIDE DEF c6
<1>12. /\ b \in Bytes(156)
       /\ \A o, x, y, z, p : Lies(c6, o, x, y, z) /\ Moved(48, o, p) => Lies(b, p, x, y, z)
       /\ \A i \in 4 .. 48 - 1 : Byte(r, i) = 0
       /\ DiscoveryTotal(r) = 152
  BY <1>5, <1>11, DataRead DEF r
<1> HIDE DEF b
<1>13. /\ Lies(c6, 0, FEAT_TPER, 12, v1) /\ Lies(c6, 16, FEAT_LOCKING, 12, v2)
       /\ Lies(c6, 32, FEAT_GEOMETRY, 28, v3) /\ Lies(c6, 64, FEAT_OPALV1, 16, v4)
       /\ Lies(c6, 84, 65535, 0, v5) /\ Lies(c6, 88, FEAT_OPALV2, 16, v4)
  BY <1>6, <1>7, <1>8, <1>9, <1>10, <1>11
<1>14. /\ Moved(48, 0, 48) /\ Moved(48, 16, 64) /\ Moved(48, 32, 80)
       /\ Moved(48, 64, 112) /\ Moved(48, 84, 132) /\ Moved(48, 88, 136)
  BY DEF Moved
<1>15. /\ Lies(b, 48, FEAT_TPER, 12, v1) /\ Lies(b, 64, FEAT_LOCKING, 12, v2)
       /\ Lies(b, 80, FEAT_GEOMETRY, 28, v3) /\ Lies(b, 112, FEAT_OPALV1, 16, v4)
       /\ Lies(b, 132, 65535, 0, v5) /\ Lies(b, 136, FEAT_OPALV2, 16, v4)
  BY <1>12, <1>13, <1>14
<1>16. Reads(r, b) /\ \E f : Goes(f, r, b, 152)
  <2>1. 152 \in Nat
    OBVIOUS
  <2> QED
    BY <1>12, <2>1, DataWalk DEF r
<1>17. /\ U16(r, 48) = FEAT_TPER /\ U16(r, 64) = FEAT_LOCKING /\ U16(r, 80) = FEAT_GEOMETRY
       /\ U16(r, 112) = FEAT_OPALV1 /\ U16(r, 132) = 65535 /\ U16(r, 136) = FEAT_OPALV2
  BY <1>15, <1>16 DEF Reads
<1>18. Byte(r, 64 + 4) = bits
  <2>1. Len(v2) >= 1 => Byte(r, 64 + 4) = v2[1]
    BY <1>15, <1>16 DEF Reads
  <2> QED
    BY <1>1, <2>1
<1>19. U16(r, 136 + 4) = com
  <2>1. Len(v4) >= 2 => U16(r, 136 + 4) = 256 * v4[1] + v4[2]
    BY <1>15, <1>16 DEF Reads
  <2>2. Len(v4) >= 2
    BY <1>2
  <2> QED
    BY <1>2, <2>1, <2>2
<1>20. PICK f : Goes(f, r, b, 152)
  BY <1>16, Zenon
<1>21. f[8] = HeaderStops \cup f[48] /\ \A o \in HeaderStops : U16(r, o) = 0
  BY <1>12, <1>20, HeaderWalk DEF Goes
<1>22. /\ Behind(48, 12, 64) /\ Behind(64, 12, 80) /\ Behind(80, 28, 112)
       /\ Behind(112, 16, 132) /\ Behind(132, 0, 136) /\ Behind(136, 16, 156)
  BY DEF Behind
<1>23. /\ f[48] = {48} \cup f[64] /\ f[64] = {64} \cup f[80] /\ f[80] = {80} \cup f[112]
       /\ f[112] = {112} \cup f[132] /\ f[132] = {132} \cup f[136]
       /\ f[136] = {136} \cup f[156]
  BY <1>15, <1>20, <1>22 DEF Goes
<1>24. f[156] = {}
  <2>1. 156 \in Nat /\ 156 + 4 > DiscoveryTotal(r) + 4
    BY <1>12
  <2>2. Walks(f, r)
    BY <1>20, Zenon DEF Goes
  <2> QED
    BY <2>1, <2>2, WalkSteps
<1>25. FeatureOffsets(r) = HeaderStops \cup {48, 64, 80, 112, 132, 136}
  BY <1>20, <1>21, <1>23, <1>24 DEF Goes
<1>26. FeatureOffsets(r) \subseteq Nat /\ {64, 136} \subseteq FeatureOffsets(r)
  BY <1>25 DEF HeaderStops
<1>27. \A o \in FeatureOffsets(r) : U16(r, o) = FEAT_LOCKING => o <= 64
  BY <1>17, <1>21, <1>25, CodesDiffer
<1>28. \A o \in FeatureOffsets(r) : U16(r, o) \in {FEAT_OPALV1, FEAT_OPALV2} => o <= 136
  BY <1>25 DEF HeaderStops
<1>29. parse_discovery(r) = [com     |-> com,
                             enabled |-> BitsOf(bits).enabled,
                             locked  |-> BitsOf(bits).locked]
  BY <1>17, <1>18, <1>19, <1>26, <1>27, <1>28, DiscoveryParsed
<1>30. FullDiscovery(com, bits) = b
  BY DEF FullDiscovery, b, c6, c5, c4, c3, c2, c1, v1, v2, v3, v4, v5
<1> QED
  BY <1>12, <1>29, <1>30, Zenon DEF r

-----------------------------------------------------------------------------
(* Whether IF-RECV tells the length of what it wrote or that of the whole   *)
(* buffer, the response holds all of it and fits.                           *)
Fits(r) == r.len \in 0 .. MaxRespLen /\ Len(r.bytes) <= MaxRespLen

Lengths == {0, 20, 52, 58, 60, 70, 76, 80, 89, 156}

LEMMA ResponseFits ==
  ASSUME NEW n \in Lengths, NEW b \in Bytes(n), NEW len \in {Len(b), MaxRespLen}
  PROVE  len \in Nat /\ len >= n /\ Fits(Response(b, len))
<1>1. n \in Nat /\ n <= 512
  BY DEF Lengths
<1>2. Len(b) = n /\ len \in {n, 512}
  BY DEF Bytes, MaxRespLen
<1>3. len \in 0 .. 512 /\ len \in Nat /\ len >= n
  BY <1>1, <1>2
<1> QED
  BY <1>1, <1>2, <1>3, Zenon DEF Fits, Response, MaxRespLen

(* One lemma for each kind of answer. *)
LEMMA EmptyRead ==
  ASSUME NEW n \in {0, 20, 52}, NEW len \in {n, MaxRespLen}
  PROVE  LET r == Response(Zeros(n), len)
         IN /\ parse_status(r) = OPAL_ERR_PROTO /\ parse_start_session_resp(r) = NoTsn
            /\ \A col \in Columns : column_value(r, col) = 0
            /\ Fits(r)
<1> DEFINE b == Zeros(n)
<1>1. n \in Nat /\ n \in Lengths
  BY DEF Lengths
<1>2. b \in Seq(Nat) /\ Len(b) = n /\ \A i \in 1 .. n : b[i] = 0
  BY <1>1, ZerosRead
<1> HIDE DEF b
<1>3. b \in Bytes(n)
  BY <1>2 DEF Bytes
<1>4. len \in Nat /\ Fits(Response(b, len))
  BY <1>1, <1>2, <1>3, ResponseFits, Zenon
<1>5. /\ parse_status(Response(b, len)) = OPAL_ERR_PROTO
      /\ parse_start_session_resp(Response(b, len)) = NoTsn
      /\ \A col \in Columns : column_value(Response(b, len), col) = 0
  BY <1>2, <1>4, ZerosSayNothing, ZenonT(40)
<1> QED
  BY <1>4, <1>5, Zenon DEF b

LEMMA MethodsRead ==
  ASSUME NEW s \in Nat, NEW before \in BOOLEAN,
         NEW b \in {RESP_STATUS(s, before), FullStatus(s, before)},
         NEW len \in {Len(b), MaxRespLen}
  PROVE  LET r == Response(b, len)
         IN /\ s # ENDOFDATA => parse_status(r) = CodeOfStatus(IF before THEN s ELSE 0)
            /\ parse_start_session_resp(r) = NoTsn
            /\ \A col \in Columns : column_value(r, col) = 0
            /\ Fits(r)
<1>1. b \in Bytes(58) \cup Bytes(60)
  <2>1. 0 \in Nat
    OBVIOUS
  <2> QED
    BY <2>1, StatusesRead, ZenonT(40)
<1>2. PICK n \in Lengths : b \in Bytes(n)
  BY <1>1 DEF Lengths
<1>3. len \in Nat /\ len >= n /\ Fits(Response(b, len))
  BY <1>2, ResponseFits
<1>4. len >= Len(b)
  BY <1>2, <1>3 DEF Bytes
<1>5. /\ s # ENDOFDATA =>
           parse_status(Response(b, len)) = CodeOfStatus(IF before THEN s ELSE 0)
      /\ parse_start_session_resp(Response(b, len)) = NoTsn
      /\ \A col \in Columns : column_value(Response(b, len), col) = 0
  BY <1>3, <1>4, StatusesRead
<1> QED
  BY <1>3, <1>5, Zenon

LEMMA SyncsRead ==
  ASSUME NEW tsn \in Nat, NEW before \in BOOLEAN,
         NEW b \in {RESP_SES(tsn, before), FullSyncSession(tsn, before)},
         NEW len \in {Len(b), MaxRespLen}
  PROVE  parse_start_session_resp(Response(b, len)) = tsn /\ Fits(Response(b, len))
<1>1. 0 \in Nat /\ 80 \in Lengths /\ 89 \in Lengths
  BY DEF Lengths
<1>2. CASE b = RESP_SES(tsn, before)
  <2>1. b \in Bytes(80)
    BY <1>1, <1>2, SesRead DEF Bytes
  <2>2. len \in Nat /\ len >= 80 /\ Fits(Response(b, len))
    BY <1>1, <2>1, ResponseFits
  <2> QED
    BY <1>2, <2>2, SesRead
<1>3. CASE b = FullSyncSession(tsn, before)
  <2>1. b \in Bytes(89)
    BY <1>1, <1>3, SyncSessionRead DEF Bytes
  <2>2. len \in Nat /\ len >= 89 /\ Fits(Response(b, len))
    BY <1>1, <2>1, ResponseFits
  <2> QED
    BY <1>3, <2>2, SyncSessionRead
<1> QED
  BY <1>2, <1>3

LEMMA RowsRead ==
  ASSUME NEW l \in {0, 1}, NEW before \in BOOLEAN,
         NEW len \in {Len(RowResult(l, before)), MaxRespLen}
  PROVE  LET r == Response(RowResult(l, before), len)
         IN  (\A col \in Columns : column_value(r, col) = l) /\ Fits(r)
<1> DEFINE b == RowResult(l, before)
<1>1. 0 \in Nat /\ 70 \in Lengths
  BY DEF Lengths
<1>2. b \in Bytes(70)
  BY <1>1, RowRead DEF Bytes
<1>3. len \in {Len(b), MaxRespLen}
  OBVIOUS
<1>4. len \in Nat /\ len >= 70 => \A col \in Columns : column_value(Response(b, len), col) = l
  BY RowRead
<1> HIDE DEF b
<1>5. len \in Nat /\ len >= 70 /\ Fits(Response(b, len))
  BY <1>1, <1>2, <1>3, ResponseFits
<1> QED
  BY <1>4, <1>5 DEF b

LEMMA DiscoveriesRead ==
  ASSUME NEW com \in Nat, NEW bits \in Nat, NEW b,
         com = 0 => b = NoOpalDiscovery(bits),
         com # 0 => b \in {RESP_DISC(com, bits), FullDiscovery(com, bits)},
         NEW len \in {Len(b), MaxRespLen}
  PROVE  /\ parse_discovery(Response(b, len)) = [com     |-> com,
                                                 enabled |-> BitsOf(bits).enabled,
                                                 locked  |-> BitsOf(bits).locked]
         /\ Fits(Response(b, len))
<1> DEFINE found == [com     |-> com,
                     enabled |-> BitsOf(bits).enabled,
                     locked  |-> BitsOf(bits).locked]
<1>1. 0 \in Nat /\ 76 \in Lengths /\ 80 \in Lengths /\ 156 \in Lengths
  BY DEF Lengths
<1>2. ASSUME NEW n \in Lengths, b \in Bytes(n),
             \A k \in Nat : parse_discovery(Response(b, k)) = found
      PROVE  parse_discovery(Response(b, len)) = found /\ Fits(Response(b, len))
  <2> HIDE DEF found
  <2>1. len \in Nat /\ Fits(Response(b, len))
    BY <1>2, ResponseFits
  <2> QED
    BY <1>2, <2>1
<1>3. CASE com = 0
  <2>1. b = NoOpalDiscovery(bits)
    BY <1>3
  <2>2. ASSUME NEW k \in Nat
        PROVE  b \in Bytes(80) /\ parse_discovery(Response(b, k)) = found
    BY <1>3, <2>1, NoOpalRead
  <2> QED
    BY <1>1, <1>2, <2>2, Zenon
<1>4. CASE com # 0 /\ b = RESP_DISC(com, bits)
  <2>1. ASSUME NEW k \in Nat
        PROVE  b \in Bytes(76) /\ parse_discovery(Response(b, k)) = found
    BY <1>4, DiscRead
  <2> QED
    BY <1>1, <1>2, <2>1, Zenon
<1>5. CASE com # 0 /\ b = FullDiscovery(com, bits)
  <2>1. ASSUME NEW k \in Nat
        PROVE  b \in Bytes(156) /\ parse_discovery(Response(b, k)) = found
    BY <1>5, FullRead
  <2> QED
    BY <1>1, <1>2, <2>1, Zenon
<1> QED
  BY <1>3, <1>4, <1>5
=============================================================================
