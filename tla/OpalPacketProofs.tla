-------------------------- MODULE OpalPacketProofs --------------------------
(***************************************************************************)
(* Lemmas about the packet builder of OpalPacket: what a sequence of        *)
(* append_ calls leaves in cmd_buf, how long each method call is, and which *)
(* brackets it leaves open.  The state machines do not occur here;          *)
(* OpalWireProofs builds on it.                                             *)
(***************************************************************************)
EXTENDS OpalPacket, SequenceTheorems, TLAPS

-----------------------------------------------------------------------------
(* cmd_buf after the append_ calls of a command. *)

Tokens == [kind : {"token", "u8", "u32", "uid", "pin"}, arg : Seq(Nat), len : Nat]

(* Built is a fold: append, from an empty cmd_buf on. *)
Appending == INSTANCE OpalFolds WITH Op <- append, Base <- buf_reset

LEMMA BuiltIsFold == ASSUME NEW toks PROVE Built(toks) = Appending!Result(toks)
BY Zenon DEF Built, Appending!Result, FoldLeft, MapThenFoldSet, Max,
   Appending!FoldLeft, Appending!MapThenFoldSet, Appending!Max

LEMMA BuiltEmpty == Built(<<>>) = buf_reset
BY BuiltIsFold, Appending!FoldEmpty

LEMMA BuiltAppend ==
  ASSUME NEW toks \in Seq(Tokens), NEW tok \in Tokens
  PROVE  Built(Append(toks, tok)) = append(Built(toks), tok)
BY BuiltIsFold, Appending!FoldAppend, Zenon

(* What the append_ calls of n bytes leave in cmd_buf: all of them, or a    *)
(* full buffer and the failure.                                             *)
Measured(toks, n) ==
  IF Overflows(n) THEN Built(toks).r = APPEND_FAILED /\ Built(toks).cmd_pos = MaxCmdLen
  ELSE Built(toks) = [toks |-> toks, cmd_pos |-> TotalHdrLen + n, r |-> OPAL_OK]

(* toks is n bytes long: so much further the cursor is behind it, whatever  *)
(* stands before it.                                                        *)
Weighs(toks, n) ==
  /\ toks \in Seq(Tokens) /\ n \in Nat
  /\ \A pre \in Seq(Tokens), m \in Nat :
       Measured(pre, m) => Measured(pre \o toks, m + n)

LEMMA WeighsNothing == Weighs(<<>>, 0)
<1>1. \A pre \in Seq(Tokens) : pre \o <<>> = pre
  OBVIOUS
<1> QED
  BY <1>1 DEF Weighs

LEMMA WeighsToken == ASSUME NEW tok \in Tokens PROVE Weighs(<<tok>>, tok.len)
<1>1. tok.len \in Nat /\ <<tok>> \in Seq(Tokens)
  BY DEF Tokens
<1> SUFFICES ASSUME NEW pre \in Seq(Tokens), NEW m \in Nat, Measured(pre, m)
             PROVE  Measured(pre \o <<tok>>, m + tok.len)
  BY <1>1 DEF Weighs
<1>2. pre \o <<tok>> = Append(pre, tok)
  OBVIOUS
<1>3. Built(pre \o <<tok>>) = append(Built(pre), tok)
  BY <1>2, BuiltAppend
<1> DEFINE b    == Built(pre)
           more == pre \o <<tok>>
           next == Built(more)
<1>4. more = Append(pre, tok) /\ next = append(b, tok)
  BY <1>2, <1>3
<1>5. CASE Overflows(m)
  <2>1. b.r = APPEND_FAILED /\ b.cmd_pos = MaxCmdLen
    BY <1>5 DEF Measured
  <2> HIDE DEF b, more, next
  <2>2. next = b /\ Overflows(m + tok.len)
    BY <1>1, <1>4, <1>5, <2>1
    DEF append, Overflows, APPEND_FAILED, OPAL_OK, TotalHdrLen, MaxCmdLen
  <2> QED
    BY <2>1, <2>2 DEF Measured, next, more
<1>6. CASE ~Overflows(m)
  <2>1. b = [toks |-> pre, cmd_pos |-> TotalHdrLen + m, r |-> OPAL_OK]
    BY <1>6 DEF Measured
  <2> HIDE DEF b, more, next
  <2>2. CASE Overflows(m + tok.len)
    <3>1. next.r = APPEND_FAILED /\ next.cmd_pos = MaxCmdLen
      BY <1>1, <1>4, <2>1, <2>2
      DEF append, Overflows, APPEND_FAILED, OPAL_OK, TotalHdrLen, MaxCmdLen
    <3> QED
      BY <2>2, <3>1 DEF Measured, next, more
  <2>3. CASE ~Overflows(m + tok.len)
    <3>1. b.r = OPAL_OK /\ b.cmd_pos = TotalHdrLen + m /\ b.toks = pre
      BY <2>1
    <3>2. next = [b EXCEPT !.toks = Append(@, tok), !.cmd_pos = @ + tok.len]
      BY <1>1, <1>4, <2>3, <3>1 DEF append, Overflows, OPAL_OK, TotalHdrLen, MaxCmdLen
    <3>3. next = [toks |-> more, cmd_pos |-> (TotalHdrLen + m) + tok.len, r |-> OPAL_OK]
      BY <1>4, <2>1, <3>2
    <3>4. (TotalHdrLen + m) + tok.len = TotalHdrLen + (m + tok.len)
      BY <1>1 DEF TotalHdrLen
    <3> QED
      BY <2>3, <3>3, <3>4 DEF Measured, next, more
  <2> QED
    BY <2>2, <2>3
<1> QED
  BY <1>5, <1>6

LEMMA WeighsConcat ==
  ASSUME NEW s, NEW a, Weighs(s, a), NEW t, NEW b, Weighs(t, b)
  PROVE  Weighs(s \o t, a + b)
<1>1. s \in Seq(Tokens) /\ t \in Seq(Tokens) /\ a \in Nat /\ b \in Nat
  BY DEF Weighs
<1>2. ASSUME NEW pre \in Seq(Tokens), NEW m \in Nat, Measured(pre, m)
      PROVE  Measured(pre \o (s \o t), m + (a + b))
  <2>1. pre \o s \in Seq(Tokens) /\ (pre \o s) \o t = pre \o (s \o t)
    BY <1>1
  <2>2. Measured(pre \o s, m + a)
    BY <1>2 DEF Weighs
  <2> DEFINE front == pre \o s
             far   == m + a
  <2>3. front \in Seq(Tokens) /\ far \in Nat /\ far + b = m + (a + b)
    BY <1>1
  <2> HIDE DEF front, far
  <2>4. Measured(front, far) => Measured(front \o t, far + b)
    BY <2>3 DEF Weighs
  <2> QED
    BY <2>1, <2>2, <2>3, <2>4 DEF front, far
<1>3. s \o t \in Seq(Tokens) /\ a + b \in Nat
  BY <1>1
<1> QED
  BY <1>2, <1>3 DEF Weighs

LEMMA WeighsWhole == ASSUME NEW s, NEW n, Weighs(s, n) PROVE Measured(s, n)
<1>1. Measured(<<>>, 0)
  BY BuiltEmpty DEF Measured, Overflows, buf_reset, TotalHdrLen, MaxCmdLen
<1>2. <<>> \o s = s /\ 0 + n = n /\ <<>> \in Seq(Tokens)
  BY DEF Weighs
<1>3. Measured(<<>> \o s, 0 + n)
  BY <1>1, <1>2 DEF Weighs
<1> QED
  BY <1>2, <1>3

-----------------------------------------------------------------------------
(* The lengths OpalProtocol gives are those of what the builder appends. *)

Uids == [1 .. UID_LEN -> Nat]

LEMMA UidConstants ==
  {UID_SMUID, UID_ADMINSP, UID_LOCKINGSP, UID_GLOBALRANGE, UID_AUTH_ADMIN1,
   UID_AUTH_USER1, UID_AUTH_PSID, UID_STARTSESSION, UID_REVERT, UID_ACTIVATE, UID_GET,
   UID_SET} \subseteq Uids
BY DEF Uids, UID_LEN, UID_SMUID, UID_ADMINSP, UID_LOCKINGSP, UID_GLOBALRANGE,
   UID_AUTH_ADMIN1, UID_AUTH_USER1, UID_AUTH_PSID, UID_STARTSESSION, UID_REVERT,
   UID_ACTIVATE, UID_GET, UID_SET

(* A row's UID: the table's, with two bytes put in. *)
LEMMA UidOfRow ==
  ASSUME NEW uid \in Uids, NEW a \in Nat, NEW b \in Nat
  PROVE  /\ [uid EXCEPT ![6] = a, ![8] = b] \in Uids
         /\ [uid EXCEPT ![8] = b] \in Uids
BY DEF Uids, UID_LEN

LEMMA TokenTypes ==
  /\ \A t \in Nat : append_token(t) \in Tokens /\ append_token(t).len = 1
  /\ \A v \in 0 .. 63 : append_u8(v) \in Tokens /\ append_u8(v).len = 1
  /\ \A v \in Nat : append_u32(v) \in Tokens /\ append_u32(v).len = 5
  /\ \A u \in Uids : append_uid(u) \in Tokens /\ append_uid(u).len = UidLen
  /\ \A n \in Nat : append_pin(n) \in Tokens /\ append_pin(n).len = BytesLen(n)
<1>1. ASSUME NEW n \in Nat
      PROVE  Len(AtomHeader(n)) + n = BytesLen(n) /\ BytesLen(n) \in Nat
  <2>1. CASE n <= 15
    <3>1. AtomHeader(n) = <<160 + n>>
      BY <2>1 DEF AtomHeader
    <3> QED
      BY <2>1, <3>1 DEF BytesLen
  <2>2. CASE n > 15 /\ n <= 255
    <3>1. AtomHeader(n) = <<209, n>>
      BY <2>2 DEF AtomHeader
    <3> QED
      BY <2>2, <3>1 DEF BytesLen
  <2>3. CASE n > 255
    <3>1. AtomHeader(n) = <<210, n \div 256, n % 256>>
      BY <2>3 DEF AtomHeader
    <3> QED
      BY <2>3, <3>1 DEF BytesLen
  <2> QED
    BY <2>1, <2>2, <2>3
<1>2. UidLen = Len(AtomHeader(UID_LEN)) + UID_LEN /\ UidLen \in Nat
  BY <1>1 DEF UidLen, UID_LEN
<1>3. <<>> \in Seq(Nat) /\ \A v \in Nat : <<v>> \in Seq(Nat)
  OBVIOUS
<1>4. Uids \subseteq Seq(Nat)
  BY SeqDef DEF Uids, UID_LEN
<1>5. ASSUME NEW k \in {"token", "u8", "u32", "uid", "pin"}, NEW a \in Seq(Nat),
             NEW n \in Nat
      PROVE  Token(k, a, n) \in Tokens /\ Token(k, a, n).len = n
  BY DEF Token, Tokens
<1>6. ASSUME NEW u \in Uids PROVE append_uid(u) \in Tokens /\ append_uid(u).len = UidLen
  BY <1>2, <1>4, <1>5 DEF append_uid
<1>7. ASSUME NEW n \in Nat PROVE append_pin(n) \in Tokens /\ append_pin(n).len = BytesLen(n)
  <2> DEFINE arg == <<>>
             len == Len(AtomHeader(n)) + n
  <2>1. /\ append_pin(n) = Token("pin", arg, len) /\ arg \in Seq(Nat)
        /\ len = BytesLen(n) /\ len \in Nat
    BY <1>1, <1>3 DEF append_pin
  <2> HIDE DEF arg, len
  <2> QED
    BY <1>5, <2>1
<1>8. ASSUME NEW t \in Nat PROVE append_token(t) \in Tokens /\ append_token(t).len = 1
  <2> DEFINE arg == <<t>>
  <2>1. append_token(t) = Token("token", arg, 1) /\ arg \in Seq(Nat)
    BY <1>3 DEF append_token
  <2> HIDE DEF arg
  <2> QED
    BY <1>5, <2>1
<1>9. ASSUME NEW v \in 0 .. 63 PROVE append_u8(v) \in Tokens /\ append_u8(v).len = 1
  <2> DEFINE arg == <<v>>
  <2>1. append_u8(v) = Token("u8", arg, 1) /\ arg \in Seq(Nat)
    BY <1>3, <1>9 DEF append_u8
  <2> HIDE DEF arg
  <2> QED
    BY <1>5, <2>1
<1>10. ASSUME NEW v \in Nat PROVE append_u32(v) \in Tokens /\ append_u32(v).len = 5
  <2> DEFINE arg == <<v>>
  <2>1. append_u32(v) = Token("u32", arg, 5) /\ arg \in Seq(Nat)
    BY <1>3 DEF append_u32
  <2> HIDE DEF arg
  <2> QED
    BY <1>5, <2>1
<1> QED
  BY <1>6, <1>7, <1>8, <1>9, <1>10

LEMMA WeighsTokens ==
  /\ \A t \in Nat : Weighs(<<append_token(t)>>, 1)
  /\ \A v \in 0 .. 63 : Weighs(<<append_u8(v)>>, 1)
  /\ \A v \in Nat : Weighs(<<append_u32(v)>>, 5)
  /\ \A u \in Uids : Weighs(<<append_uid(u)>>, UidLen)
  /\ \A n \in Nat : Weighs(<<append_pin(n)>>, BytesLen(n))
<1>1. \A tok \in Tokens : Weighs(<<tok>>, tok.len)
  BY WeighsToken
<1> QED
  BY <1>1, TokenTypes

TheTokens == {STARTLIST, ENDLIST, STARTNAME, ENDNAME, CALL, ENDOFDATA, EOSESSION}

LEMMA WeighsBracket == \A t \in TheTokens : Weighs(<<append_token(t)>>, 1)
BY WeighsTokens DEF TheTokens, STARTLIST, ENDLIST, STARTNAME, ENDNAME, CALL, ENDOFDATA,
   EOSESSION

LEMMA WeighsEod == Weighs(append_eod, EodLen)
<1>1. append_eod = <<append_token(ENDOFDATA)>> \o <<append_token(STARTLIST)>>
                    \o <<append_u8(0)>> \o <<append_u8(0)>> \o <<append_u8(0)>>
                    \o <<append_token(ENDLIST)>>
  BY DEF append_eod
<1> DEFINE w2 == <<append_token(ENDOFDATA)>> \o <<append_token(STARTLIST)>>
           w3 == w2 \o <<append_u8(0)>>
           w4 == w3 \o <<append_u8(0)>>
           w5 == w4 \o <<append_u8(0)>>
<1>2. Weighs(<<append_u8(0)>>, 1)
  BY WeighsTokens
<1>3. Weighs(w2, 2)
  BY WeighsBracket, WeighsConcat, 1 + 1 = 2 DEF TheTokens
<1> HIDE DEF w2
<1>4. Weighs(w3, 3)
  BY <1>2, <1>3, WeighsConcat, 2 + 1 = 3
<1> HIDE DEF w3
<1>5. Weighs(w4, 4)
  BY <1>2, <1>4, WeighsConcat, 3 + 1 = 4
<1> HIDE DEF w4
<1>6. Weighs(w5, 5)
  BY <1>2, <1>5, WeighsConcat, 4 + 1 = 5
<1> HIDE DEF w5
<1>7. Weighs(w5 \o <<append_token(ENDLIST)>>, 6)
  BY <1>6, WeighsBracket, WeighsConcat, 5 + 1 = 6 DEF TheTokens
<1> QED
  BY <1>1, <1>7 DEF w2, w3, w4, w5, EodLen

LEMMA WeighsHeader ==
  ASSUME NEW u \in Uids, NEW m \in Uids
  PROVE  Weighs(append_call_header(u, m), CallHeaderLen)
<1> DEFINE w2 == <<append_token(CALL)>> \o <<append_uid(u)>>
           w3 == w2 \o <<append_uid(m)>>
<1>1. append_call_header(u, m) = w3 \o <<append_token(STARTLIST)>>
  BY DEF append_call_header
<1>2. Weighs(<<append_uid(u)>>, UidLen) /\ Weighs(<<append_uid(m)>>, UidLen)
  BY WeighsTokens
<1>3. Weighs(w2, 1 + UidLen)
  BY <1>2, WeighsBracket, WeighsConcat DEF TheTokens
<1> HIDE DEF w2
<1>4. Weighs(w3, (1 + UidLen) + UidLen)
  BY <1>2, <1>3, WeighsConcat
<1> HIDE DEF w3
<1>5. Weighs(w3 \o <<append_token(STARTLIST)>>, ((1 + UidLen) + UidLen) + 1)
  BY <1>4, WeighsBracket, WeighsConcat DEF TheTokens
<1> QED
  BY <1>1, <1>5 DEF CallHeaderLen

LEMMA WeighsNamed ==
  ASSUME NEW name \in 0 .. 63, NEW toks, NEW n, Weighs(toks, n)
  PROVE  Weighs(Named(name, toks), NamedLen(n))
<1> DEFINE open == <<append_token(STARTNAME)>> \o <<append_u8(name)>>
<1>1. Named(name, toks) = (open \o toks) \o <<append_token(ENDNAME)>>
  BY DEF Named
<1>2. Weighs(open, 1 + 1)
  BY WeighsTokens, WeighsBracket, WeighsConcat DEF TheTokens
<1> HIDE DEF open
<1>3. Weighs(open \o toks, (1 + 1) + n)
  BY <1>2, WeighsConcat
<1>4. Weighs((open \o toks) \o <<append_token(ENDNAME)>>, ((1 + 1) + n) + 1)
  BY <1>3, WeighsBracket, WeighsConcat DEF TheTokens
<1> QED
  BY <1>1, <1>4 DEF NamedLen

LEMMA WeighsListed ==
  ASSUME NEW toks, NEW n, Weighs(toks, n)
  PROVE  Weighs(Listed(toks), (1 + n) + 1)
<1>1. Weighs(<<append_token(STARTLIST)>> \o toks, 1 + n)
  BY WeighsBracket, WeighsConcat DEF TheTokens
<1>2. Weighs((<<append_token(STARTLIST)>> \o toks) \o <<append_token(ENDLIST)>>, (1 + n) + 1)
  BY <1>1, WeighsBracket, WeighsConcat DEF TheTokens
<1> QED
  BY <1>2 DEF Listed

LEMMA WeighsCall ==
  ASSUME NEW u \in Uids, NEW m \in Uids, NEW args, NEW n, Weighs(args, n)
  PROVE  Weighs(MethodCall(u, m, args), MethodLen(n))
<1> DEFINE head == append_call_header(u, m)
<1>1. Weighs(head, CallHeaderLen)
  BY WeighsHeader
<1>2. MethodCall(u, m, args) = ((head \o args) \o <<append_token(ENDLIST)>>) \o append_eod
  BY DEF MethodCall
<1> HIDE DEF head
<1>3. Weighs(head \o args, CallHeaderLen + n)
  BY <1>1, WeighsConcat
<1>4. Weighs((head \o args) \o <<append_token(ENDLIST)>>, (CallHeaderLen + n) + 1)
  BY <1>3, WeighsBracket, WeighsConcat DEF TheTokens
<1>5. Weighs(((head \o args) \o <<append_token(ENDLIST)>>) \o append_eod,
             ((CallHeaderLen + n) + 1) + EodLen)
  BY <1>4, WeighsEod, WeighsConcat
<1> QED
  BY <1>2, <1>5 DEF MethodLen

LEMMA WeighsCredential ==
  ASSUME NEW auth \in Uids, NEW n \in Nat
  PROVE  Weighs(HostCredential(auth, n), CredentialLen(n))
<1>1. CASE n = 0
  BY <1>1, WeighsNothing DEF HostCredential, CredentialLen
<1>2. CASE n # 0
  <2>1. Weighs(Named(0, <<append_pin(n)>>), NamedLen(BytesLen(n)))
    BY WeighsTokens, WeighsNamed
  <2>2. Weighs(Named(3, <<append_uid(auth)>>), NamedLen(UidLen))
    BY WeighsTokens, WeighsNamed
  <2> QED
    BY <1>2, <2>1, <2>2, WeighsConcat DEF HostCredential, CredentialLen
<1> QED
  BY <1>1, <1>2

(* A tuple, token by token. *)
LEMMA TwoJoined ==
  ASSUME NEW S, NEW a \in S, NEW b \in S PROVE <<a, b>> = <<a>> \o <<b>>
<1> DEFINE l == <<a, b>>
           r == <<a>> \o <<b>>
<1>1. l \in Seq(S) /\ r \in Seq(S) /\ Len(l) = 2 /\ Len(r) = 2
  OBVIOUS
<1>2. \A i \in 1 .. 2 : l[i] = r[i]
  OBVIOUS
<1> HIDE DEF l, r
<1>3. l = r
  BY <1>1, <1>2, SeqEqual
<1> QED
  BY <1>3 DEF l, r

LEMMA ThreeJoined ==
  ASSUME NEW S, NEW a \in S, NEW b \in S, NEW c \in S
  PROVE  <<a, b, c>> = <<a>> \o <<b>> \o <<c>>
<1> DEFINE l == <<a, b, c>>
           r == <<a, b>> \o <<c>>
<1>1. l \in Seq(S) /\ r \in Seq(S) /\ Len(l) = 3 /\ Len(r) = 3
  OBVIOUS
<1>2. \A i \in 1 .. 3 : l[i] = r[i]
  OBVIOUS
<1> HIDE DEF l, r
<1>3. l = r
  BY <1>1, <1>2, SeqEqual
<1> QED
  BY <1>3, TwoJoined DEF l, r

LEMMA SessionArgs ==
  ASSUME NEW sp \in Uids
  PROVE  <<append_u32(HostSessionId), append_uid(sp), append_u8(1)>>
           = <<append_u32(HostSessionId)>> \o <<append_uid(sp)>> \o <<append_u8(1)>>
<1>1. {append_u32(HostSessionId), append_uid(sp), append_u8(1)} \subseteq Tokens
  BY TokenTypes DEF HostSessionId
<1> QED
  BY <1>1, ThreeJoined

LEMMA WeighsStartSession ==
  ASSUME NEW sp \in Uids, NEW auth \in Uids, NEW n \in Nat
  PROVE  Weighs(StartSession(sp, auth, n), StartSessionLen(n))
<1> DEFINE w2 == <<append_u32(HostSessionId)>> \o <<append_uid(sp)>>
           w3 == w2 \o <<append_u8(1)>>
           cred == HostCredential(auth, n)
<1>1. StartSession(sp, auth, n) = MethodCall(UID_SMUID, UID_STARTSESSION, w3 \o cred)
  <2>1. <<append_u32(HostSessionId), append_uid(sp), append_u8(1)>> = w3
    BY SessionArgs, Zenon
  <2> QED
    BY <2>1, Zenon DEF StartSession
<1>2. Weighs(w2, 5 + UidLen)
  BY WeighsTokens, WeighsConcat DEF HostSessionId
<1> HIDE DEF w2
<1>3. Weighs(w3, (5 + UidLen) + 1)
  BY <1>2, WeighsTokens, WeighsConcat
<1> HIDE DEF w3
<1>4. Weighs(w3 \o cred, ((5 + UidLen) + 1) + CredentialLen(n))
  BY <1>3, WeighsCredential, WeighsConcat
<1> HIDE DEF cred
<1>5. Weighs(MethodCall(UID_SMUID, UID_STARTSESSION, w3 \o cred),
             MethodLen(((5 + UidLen) + 1) + CredentialLen(n)))
  BY <1>4, UidConstants, WeighsCall
<1>6. CredentialLen(n) \in Nat
  BY WeighsCredential, UidConstants DEF Weighs
<1>7. MethodLen(((5 + UidLen) + 1) + CredentialLen(n)) = StartSessionLen(n)
  BY <1>6 DEF MethodLen, StartSessionLen, CallHeaderLen, EodLen, UidLen, BytesLen
<1> QED
  BY <1>1, <1>5, <1>7

LEMMA WeighsSetRow ==
  ASSUME NEW u \in Uids, NEW columns, NEW n, Weighs(columns, n)
  PROVE  Weighs(SetRow(u, columns), MethodLen(5 + n))
<1>1. n \in Nat
  BY DEF Weighs
<1>2. Weighs(Named(1, Listed(columns)), NamedLen((1 + n) + 1))
  BY WeighsListed, WeighsNamed
<1>3. NamedLen((1 + n) + 1) = 5 + n
  BY <1>1 DEF NamedLen
<1> QED
  BY <1>2, <1>3, UidConstants, WeighsCall DEF SetRow

-----------------------------------------------------------------------------
(* The brackets a packet leaves open. *)

Nesting == INSTANCE OpalFolds WITH Op <- Bracket, Base <- <<>>

Open(toks) == Nesting!Result(toks)

LEMMA BalancedIsFold == ASSUME NEW toks PROVE Balanced(toks) <=> Open(toks) = <<>>
BY Zenon DEF Balanced, Open, Nesting!Result, FoldLeft, MapThenFoldSet, Max,
   Nesting!FoldLeft, Nesting!MapThenFoldSet, Nesting!Max

LEMMA OpenEmpty == Open(<<>>) = <<>>
BY Nesting!FoldEmpty DEF Open

LEMMA OpenAppend ==
  ASSUME NEW toks \in Seq(Tokens), NEW tok \in Tokens
  PROVE  Open(toks \o <<tok>>) = Bracket(Open(toks), tok)
<1>1. toks \o <<tok>> = Append(toks, tok)
  OBVIOUS
<1>2. Open(Append(toks, tok)) = Bracket(Open(toks), tok)
  BY Nesting!FoldAppend, Zenon DEF Open
<1> QED
  BY <1>1, <1>2

(* toks leaves the brackets b open, on top of those that stood open before. *)
Leaves(toks, b) ==
  /\ toks \in Seq(Tokens) /\ b \in Seq(Nat)
  /\ \A pre \in Seq(Tokens) : Open(pre) \in Seq(Nat) => Open(pre \o toks) = Open(pre) \o b

Neutral(toks) == Leaves(toks, <<>>)

LEMMA NeutralBalanced == ASSUME NEW toks, Neutral(toks) PROVE Balanced(toks)
<1>1. <<>> \in Seq(Tokens) /\ <<>> \in Seq(Nat) /\ <<>> \o toks = toks /\ <<>> \o <<>> = <<>>
  BY DEF Neutral, Leaves
<1>2. Open(<<>> \o toks) = <<>>
  BY <1>1, OpenEmpty DEF Neutral, Leaves
<1> QED
  BY <1>1, <1>2, BalancedIsFold

LEMMA NeutralNothing == Neutral(<<>>)
<1>1. /\ \A pre \in Seq(Tokens) : pre \o <<>> = pre
      /\ \A b \in Seq(Nat) : b \o <<>> = b
      /\ <<>> \in Seq(Tokens) /\ <<>> \in Seq(Nat)
  OBVIOUS
<1> QED
  BY <1>1 DEF Neutral, Leaves

Brackets == {STARTLIST, ENDLIST, STARTNAME, ENDNAME}

LEMMA NeutralToken ==
  ASSUME NEW tok \in Tokens, tok.kind # "token" \/ tok.arg[1] \notin Brackets
  PROVE  Neutral(<<tok>>)
<1>1. \A open : Bracket(open, tok) = open
  BY DEF Bracket, Brackets
<1>2. <<tok>> \in Seq(Tokens) /\ <<>> \in Seq(Nat)
  OBVIOUS
<1>3. ASSUME NEW pre \in Seq(Tokens), Open(pre) \in Seq(Nat)
      PROVE  Open(pre \o <<tok>>) = Open(pre) \o <<>>
  <2>1. Open(pre \o <<tok>>) = Open(pre)
    BY <1>1, OpenAppend
  <2>2. Open(pre) \o <<>> = Open(pre)
    BY <1>3
  <2> QED
    BY <2>1, <2>2
<1> QED
  BY <1>2, <1>3 DEF Neutral, Leaves

LEMMA TokensAssociative ==
  \A r, s, t \in Seq(Tokens) : r \o s \in Seq(Tokens) /\ (r \o s) \o t = r \o (s \o t)
BY ConcatAssociative

LEMMA TokenLast ==
  \A r, s \in Seq(Tokens) : \A t \in Tokens :
    r \o s \in Seq(Tokens) /\ r \o (s \o <<t>>) = (r \o s) \o <<t>>
BY ConcatAssociative

LEMMA ConcatAppend ==
  \A r, s \in Seq(Nat) : \A x \in Nat : r \o Append(s, x) = Append(r \o s, x)
OBVIOUS

(* What follows with its brackets closed leaves those before it. *)
LEMMA LeavesMore ==
  ASSUME NEW s, NEW b, Leaves(s, b), NEW t, Neutral(t) PROVE Leaves(s \o t, b)
<1>1. s \in Seq(Tokens) /\ t \in Seq(Tokens) /\ s \o t \in Seq(Tokens) /\ b \in Seq(Nat)
  BY DEF Leaves, Neutral
<1>2. ASSUME NEW pre \in Seq(Tokens), Open(pre) \in Seq(Nat)
      PROVE  Open(pre \o (s \o t)) = Open(pre) \o b
  <2> DEFINE front == pre \o s
             open  == Open(pre) \o b
  <2>1. front \in Seq(Tokens) /\ pre \o (s \o t) = front \o t
    <3>1. pre \o s \in Seq(Tokens)
      BY <1>1, TokensAssociative, Zenon
    <3>2. (pre \o s) \o t = pre \o (s \o t)
      BY <1>1, <1>2, TokensAssociative, Zenon
    <3> QED
      BY <3>1, <3>2, Zenon
  <2>2. Open(front) = open /\ open \in Seq(Nat) /\ open \o <<>> = open
    BY <1>1, <1>2 DEF Leaves
  <2> HIDE DEF front, open
  <2>3. Open(front \o t) = Open(front) \o <<>>
    BY <2>1, <2>2 DEF Neutral, Leaves
  <2>4. Open(pre \o (s \o t)) = open
    BY <2>1, <2>2, <2>3
  <2> QED
    BY <2>4 DEF open
<1> QED
  BY <1>1, <1>2 DEF Leaves

LEMMA BracketToken ==
  \A t : append_token(t).kind = "token" /\ append_token(t).arg[1] = t
BY DEF append_token, Token

(* An opening bracket stays open until the one that closes it. *)
LEMMA LeavesOpen ==
  ASSUME NEW s, NEW b, Leaves(s, b), NEW o \in Opening
  PROVE  Leaves(s \o <<append_token(o)>>, Append(b, o))
<1> DEFINE tok == append_token(o)
<1>1. o \in Nat /\ o \in Brackets /\ \A x \in Opening : o # Closing(x)
  BY DEF Opening, Closing, Brackets, STARTLIST, STARTNAME, ENDLIST, ENDNAME
<1>2. tok \in Tokens /\ tok.kind = "token" /\ tok.arg[1] = o
  BY <1>1, TokenTypes, BracketToken
<1> HIDE DEF tok
<1>3. s \in Seq(Tokens) /\ b \in Seq(Nat) /\ Append(b, o) \in Seq(Nat)
      /\ s \o <<tok>> \in Seq(Tokens)
  BY <1>1, <1>2 DEF Leaves
<1>4. \A open : Bracket(open, tok) = Append(open, o)
  BY <1>1, <1>2 DEF Bracket, Brackets
<1>5. ASSUME NEW pre \in Seq(Tokens), Open(pre) \in Seq(Nat)
      PROVE  Open(pre \o (s \o <<tok>>)) = Open(pre) \o Append(b, o)
  <2> DEFINE front == pre \o s
             open  == Open(pre) \o b
  <2>1. front \in Seq(Tokens) /\ pre \o (s \o <<tok>>) = front \o <<tok>>
    BY <1>2, <1>3, TokenLast, Zenon
  <2>2. Open(front) = open
    BY <1>3, <1>5 DEF Leaves
  <2>3. Open(pre) \o Append(b, o) = Append(open, o)
    BY <1>1, <1>3, <1>5, ConcatAppend, Zenon
  <2> HIDE DEF front, open
  <2>4. Open(front \o <<tok>>) = Append(open, o)
    BY <1>2, <1>4, <2>1, <2>2, OpenAppend
  <2> QED
    BY <2>1, <2>3, <2>4
<1>6. Leaves(s \o <<tok>>, Append(b, o))
  BY <1>3, <1>5 DEF Leaves
<1> QED
  BY <1>6 DEF tok

LEMMA LeavesClose ==
  ASSUME NEW s, NEW b \in Seq(Nat), NEW o \in Opening, Leaves(s, Append(b, o))
  PROVE  Leaves(s \o <<append_token(Closing(o))>>, b)
<1> DEFINE tok == append_token(Closing(o))
<1>1. o \in Nat /\ Closing(o) \in Brackets /\ Closing(o) \in Nat
  BY DEF Opening, Closing, Brackets, STARTLIST, STARTNAME, ENDLIST, ENDNAME
<1>2. tok \in Tokens /\ tok.kind = "token" /\ tok.arg[1] = Closing(o)
  BY <1>1, TokenTypes, BracketToken
<1> HIDE DEF tok
<1>3. s \in Seq(Tokens) /\ s \o <<tok>> \in Seq(Tokens)
  BY <1>2 DEF Leaves
<1>4. ASSUME NEW open \in Seq(Nat) PROVE Bracket(Append(open, o), tok) = open
  <2> DEFINE more == Append(open, o)
  <2>1. more # <<>> /\ Last(more) = o /\ Front(more) = open
    BY <1>1, SMTT(30) DEF Last, Front
  <2> HIDE DEF more
  <2>2. Bracket(more, tok) = Front(more)
    BY <1>1, <1>2, <2>1 DEF Bracket, Brackets
  <2> QED
    BY <2>1, <2>2 DEF more
<1>5. ASSUME NEW pre \in Seq(Tokens), Open(pre) \in Seq(Nat)
      PROVE  Open(pre \o (s \o <<tok>>)) = Open(pre) \o b
  <2> DEFINE front == pre \o s
             open  == Open(pre) \o b
  <2>1. front \in Seq(Tokens) /\ pre \o (s \o <<tok>>) = front \o <<tok>>
    BY <1>2, <1>3, TokenLast, Zenon
  <2>2. Open(front) = Open(pre) \o Append(b, o)
    BY <1>5 DEF Leaves
  <2>3. Open(pre) \o Append(b, o) = Append(open, o) /\ open \in Seq(Nat)
    BY <1>1, <1>5
  <2> HIDE DEF front, open
  <2>4. Open(front \o <<tok>>) = open
    BY <1>2, <1>4, <2>1, <2>2, <2>3, OpenAppend
  <2> QED
    BY <2>1, <2>4 DEF open
<1>6. Leaves(s \o <<tok>>, b)
  BY <1>3, <1>5 DEF Leaves
<1> QED
  BY <1>6 DEF tok

LEMMA NeutralArgs ==
  /\ \A v \in 0 .. 63 : Neutral(<<append_u8(v)>>)
  /\ \A v \in Nat : Neutral(<<append_u32(v)>>)
  /\ \A u \in Uids : Neutral(<<append_uid(u)>>)
  /\ \A n \in Nat : Neutral(<<append_pin(n)>>)
  /\ \A t \in {CALL, ENDOFDATA, EOSESSION} : Neutral(<<append_token(t)>>)
<1>1. \A v : append_u8(v).kind = "u8" /\ append_u32(v).kind = "u32"
             /\ append_uid(v).kind = "uid" /\ append_pin(v).kind = "pin"
  BY DEF append_u8, append_u32, append_uid, append_pin, Token
<1>2. \A t \in {CALL, ENDOFDATA, EOSESSION} : t \in Nat /\ t \notin Brackets
  BY DEF Brackets, CALL, ENDOFDATA, EOSESSION, STARTLIST, STARTNAME, ENDLIST, ENDNAME
<1> QED
  BY <1>1, <1>2, TokenTypes, NeutralToken, BracketToken

(* The lists and names of the builder. *)
LEMMA Bracketing ==
  /\ STARTLIST \in Opening /\ Closing(STARTLIST) = ENDLIST
  /\ STARTNAME \in Opening /\ Closing(STARTNAME) = ENDNAME
  /\ <<>> \in Seq(Nat)
  /\ \A o \in Opening : Append(<<>>, o) = <<o>>
BY DEF Opening, Closing, STARTLIST, STARTNAME

LEMMA OpenedFirst == ASSUME NEW o \in Opening PROVE Leaves(<<append_token(o)>>, Append(<<>>, o))
<1>1. append_token(o) \in Tokens
  <2>1. o \in Nat
    BY DEF Opening, STARTLIST, STARTNAME
  <2> QED
    BY <2>1, TokenTypes, Zenon
<1>2. <<>> \o <<append_token(o)>> = <<append_token(o)>>
  BY <1>1
<1>3. Leaves(<<>> \o <<append_token(o)>>, Append(<<>>, o))
  BY NeutralNothing, LeavesOpen DEF Neutral
<1> QED
  BY <1>2, <1>3

LEMMA NeutralListed == ASSUME NEW toks, Neutral(toks) PROVE Neutral(Listed(toks))
<1>1. Leaves(<<append_token(STARTLIST)>>, Append(<<>>, STARTLIST))
  BY Bracketing, OpenedFirst
<1>2. Leaves(<<append_token(STARTLIST)>> \o toks, Append(<<>>, STARTLIST))
  BY <1>1, LeavesMore
<1> QED
  BY <1>2, Bracketing, LeavesClose DEF Listed, Neutral

LEMMA NeutralNamed ==
  ASSUME NEW name \in 0 .. 63, NEW toks, Neutral(toks) PROVE Neutral(Named(name, toks))
<1> DEFINE open == <<append_token(STARTNAME)>> \o <<append_u8(name)>>
<1>1. Named(name, toks) = (open \o toks) \o <<append_token(ENDNAME)>>
  BY DEF Named
<1>2. Leaves(<<append_token(STARTNAME)>>, Append(<<>>, STARTNAME))
  BY Bracketing, OpenedFirst
<1>3. Leaves(open, Append(<<>>, STARTNAME))
  BY <1>2, NeutralArgs, LeavesMore
<1> HIDE DEF open
<1>4. Leaves(open \o toks, Append(<<>>, STARTNAME))
  BY <1>3, LeavesMore
<1>5. Leaves((open \o toks) \o <<append_token(ENDNAME)>>, <<>>)
  BY <1>4, Bracketing, LeavesClose
<1> QED
  BY <1>1, <1>5 DEF Neutral

LEMMA NeutralEod == Neutral(append_eod)
<1> DEFINE zero == <<append_u8(0)>>
           w2 == <<append_token(ENDOFDATA)>> \o <<append_token(STARTLIST)>>
           w3 == w2 \o zero
           w4 == w3 \o zero
           w5 == w4 \o zero
           open == Append(<<>>, STARTLIST)
<1>1. append_eod = w5 \o <<append_token(ENDLIST)>>
  BY DEF append_eod
<1>2. Neutral(<<append_token(ENDOFDATA)>>) /\ Neutral(zero)
  BY NeutralArgs
<1>3. Leaves(w2, open)
  BY <1>2, Bracketing, LeavesOpen DEF Neutral
<1> HIDE DEF w2, zero
<1>4. Leaves(w3, open)
  BY <1>2, <1>3, LeavesMore
<1> HIDE DEF w3
<1>5. Leaves(w4, open)
  BY <1>2, <1>4, LeavesMore
<1> HIDE DEF w4
<1>6. Leaves(w5, open)
  BY <1>2, <1>5, LeavesMore
<1> HIDE DEF w5
<1>7. Leaves(w5 \o <<append_token(ENDLIST)>>, <<>>)
  BY <1>6, Bracketing, LeavesClose
<1> QED
  BY <1>1, <1>7 DEF Neutral

LEMMA NeutralCall ==
  ASSUME NEW u \in Uids, NEW m \in Uids, NEW args, Neutral(args)
  PROVE  Neutral(MethodCall(u, m, args))
<1> DEFINE w2 == <<append_token(CALL)>> \o <<append_uid(u)>>
           w3 == w2 \o <<append_uid(m)>>
           head == w3 \o <<append_token(STARTLIST)>>
           open == Append(<<>>, STARTLIST)
<1>1. append_call_header(u, m) = head
  BY DEF append_call_header
<1>2. MethodCall(u, m, args) = ((head \o args) \o <<append_token(ENDLIST)>>) \o append_eod
  BY <1>1, Zenon DEF MethodCall
<1>3. Neutral(w2)
  BY NeutralArgs, LeavesMore DEF Neutral
<1> HIDE DEF w2
<1>4. Neutral(w3)
  BY <1>3, NeutralArgs, LeavesMore DEF Neutral
<1> HIDE DEF w3
<1>5. Leaves(head, open)
  BY <1>4, Bracketing, LeavesOpen DEF Neutral
<1> HIDE DEF head
<1>6. Leaves(head \o args, open)
  BY <1>5, LeavesMore
<1>7. Neutral((head \o args) \o <<append_token(ENDLIST)>>)
  BY <1>6, Bracketing, LeavesClose DEF Neutral
<1>8. Neutral(((head \o args) \o <<append_token(ENDLIST)>>) \o append_eod)
  BY <1>7, NeutralEod, LeavesMore DEF Neutral
<1> QED
  BY <1>2, <1>8

(* The commands leave no bracket open. *)
LEMMA NeutralSetRow ==
  ASSUME NEW u \in Uids, NEW columns, Neutral(columns) PROVE Neutral(SetRow(u, columns))
<1>1. Neutral(Named(1, Listed(columns)))
  BY NeutralListed, NeutralNamed
<1> QED
  BY <1>1, UidConstants, NeutralCall DEF SetRow

LEMMA NeutralStartSession ==
  ASSUME NEW sp \in Uids, NEW auth \in Uids, NEW n \in Nat
  PROVE  Neutral(StartSession(sp, auth, n))
<1> DEFINE args == <<append_u32(HostSessionId), append_uid(sp), append_u8(1)>>
           w2 == <<append_u32(HostSessionId)>> \o <<append_uid(sp)>>
<1>1. args = w2 \o <<append_u8(1)>>
  BY SessionArgs, Zenon
<1>2. Neutral(w2)
  BY NeutralArgs, LeavesMore DEF HostSessionId, Neutral
<1>3. Neutral(<<append_u8(1)>>)
  BY NeutralArgs
<1> HIDE DEF w2
<1>4. Neutral(args)
  BY <1>1, <1>2, <1>3, LeavesMore DEF Neutral
<1>5. Neutral(HostCredential(auth, n))
  <2>1. Neutral(Named(0, <<append_pin(n)>>)) /\ Neutral(Named(3, <<append_uid(auth)>>))
    BY NeutralArgs, NeutralNamed
  <2>2. Neutral(Named(0, <<append_pin(n)>>) \o Named(3, <<append_uid(auth)>>))
    BY <2>1, LeavesMore DEF Neutral
  <2> QED
    BY <2>2, NeutralNothing DEF HostCredential
<1> HIDE DEF args
<1>6. Neutral(args \o HostCredential(auth, n))
  BY <1>4, <1>5, LeavesMore DEF Neutral
<1>7. Neutral(MethodCall(UID_SMUID, UID_STARTSESSION, args \o HostCredential(auth, n)))
  BY <1>6, UidConstants, NeutralCall
<1> QED
  BY <1>7 DEF StartSession, args

-----------------------------------------------------------------------------
(* What a reader finds in a packet. *)

(* The UIDs toks mentions. *)
UidSet(toks) == {toks[i].arg : i \in {j \in DOMAIN toks : toks[j].kind = "uid"}}
Mentions(toks, us) == toks \in Seq(Tokens) /\ UidSet(toks) = us

LEMMA MentionsNothing == Mentions(<<>>, {})
BY DEF Mentions, UidSet

LEMMA MentionsToken ==
  ASSUME NEW tok \in Tokens
  PROVE  Mentions(<<tok>>, IF tok.kind = "uid" THEN {tok.arg} ELSE {})
<1> DEFINE s == <<tok>>
<1>1. s \in Seq(Tokens) /\ DOMAIN s = {1} /\ s[1] = tok
  OBVIOUS
<1> HIDE DEF s
<1>2. UidSet(s) = IF tok.kind = "uid" THEN {tok.arg} ELSE {}
  BY <1>1 DEF UidSet
<1> QED
  BY <1>1, <1>2 DEF Mentions, s

LEMMA MentionsConcat ==
  ASSUME NEW s, NEW us, Mentions(s, us), NEW t, NEW ut, Mentions(t, ut)
  PROVE  Mentions(s \o t, us \cup ut)
<1> DEFINE st == s \o t
<1>1. s \in Seq(Tokens) /\ t \in Seq(Tokens)
  BY DEF Mentions
<1>2. /\ st \in Seq(Tokens) /\ Len(st) = Len(s) + Len(t)
      /\ \A i \in 1 .. Len(s) + Len(t) : st[i] = IF i <= Len(s) THEN s[i] ELSE t[i - Len(s)]
  BY <1>1, ConcatProperties
<1>3. /\ DOMAIN s = 1 .. Len(s) /\ DOMAIN t = 1 .. Len(t) /\ Len(s) \in Nat /\ Len(t) \in Nat
      /\ DOMAIN st = 1 .. Len(s) + Len(t)
  BY <1>1, <1>2
<1> HIDE DEF st
<1>4. ASSUME NEW x \in UidSet(st) PROVE x \in us \cup ut
  <2>1. PICK i \in 1 .. Len(s) + Len(t) : st[i].kind = "uid" /\ x = st[i].arg
    BY <1>3, <1>4 DEF UidSet
  <2>2. CASE i <= Len(s)
    <3>1. i \in DOMAIN s /\ st[i] = s[i]
      BY <1>2, <1>3, <2>1, <2>2
    <3> QED
      BY <2>1, <3>1 DEF Mentions, UidSet
  <2>3. CASE ~(i <= Len(s))
    <3>1. i - Len(s) \in DOMAIN t /\ st[i] = t[i - Len(s)]
      BY <1>2, <1>3, <2>1, <2>3
    <3> QED
      BY <2>1, <3>1 DEF Mentions, UidSet
  <2> QED
    BY <2>2, <2>3
<1>5. ASSUME NEW x \in us PROVE x \in UidSet(st)
  <2>1. PICK i \in DOMAIN s : s[i].kind = "uid" /\ x = s[i].arg
    BY <1>5 DEF Mentions, UidSet
  <2>2. i \in DOMAIN st /\ st[i] = s[i]
    BY <1>2, <1>3, <2>1
  <2> QED
    BY <2>1, <2>2 DEF UidSet
<1>6. ASSUME NEW x \in ut PROVE x \in UidSet(st)
  <2>1. PICK i \in DOMAIN t : t[i].kind = "uid" /\ x = t[i].arg
    BY <1>6 DEF Mentions, UidSet
  <2>2. i + Len(s) \in 1 .. Len(s) + Len(t) /\ ~(i + Len(s) <= Len(s))
        /\ (i + Len(s)) - Len(s) = i
    BY <1>3, <2>1
  <2>3. i + Len(s) \in DOMAIN st /\ st[i + Len(s)] = t[i]
    BY <1>2, <1>3, <2>2
  <2> QED
    BY <2>1, <2>3 DEF UidSet
<1>7. UidSet(st) = us \cup ut
  BY <1>4, <1>5, <1>6
<1> QED
  BY <1>2, <1>7 DEF Mentions, st

(* The same two, for more of what mentions nothing and for one UID. *)
LEMMA MentionsMore ==
  ASSUME NEW s, NEW us, Mentions(s, us), NEW t, Mentions(t, {}) PROVE Mentions(s \o t, us)
<1>1. Mentions(s \o t, us \cup {})
  BY MentionsConcat
<1>2. us \cup {} = us
  OBVIOUS
<1> QED
  BY <1>1, <1>2

LEMMA MentionsUid ==
  ASSUME NEW s, NEW us, Mentions(s, us), NEW u, Mentions(<<append_uid(u)>>, {u})
  PROVE  Mentions(s \o <<append_uid(u)>>, us \cup {u})
BY MentionsConcat

LEMMA MentionsArgs ==
  /\ \A v \in 0 .. 63 : Mentions(<<append_u8(v)>>, {})
  /\ \A v \in Nat : Mentions(<<append_u32(v)>>, {})
  /\ \A u \in Uids : Mentions(<<append_uid(u)>>, {u})
  /\ \A n \in Nat : Mentions(<<append_pin(n)>>, {})
  /\ \A t \in TheTokens : Mentions(<<append_token(t)>>, {})
<1>1. \A v : append_u8(v).kind = "u8" /\ append_u32(v).kind = "u32"
             /\ append_uid(v).kind = "uid" /\ append_uid(v).arg = v
             /\ append_pin(v).kind = "pin" /\ append_token(v).kind = "token"
  BY DEF append_u8, append_u32, append_uid, append_pin, append_token, Token
<1>2. TheTokens \subseteq Nat
  BY DEF TheTokens, STARTLIST, ENDLIST, STARTNAME, ENDNAME, CALL, ENDOFDATA, EOSESSION
<1>3. ASSUME NEW tok \in Tokens, tok.kind # "uid" PROVE Mentions(<<tok>>, {})
  BY <1>3, MentionsToken
<1>4. ASSUME NEW tok \in Tokens, tok.kind = "uid" PROVE Mentions(<<tok>>, {tok.arg})
  BY <1>4, MentionsToken
<1> QED
  BY <1>1, <1>2, <1>3, <1>4, TokenTypes

LEMMA MentionsNamed ==
  ASSUME NEW name \in 0 .. 63, NEW toks, NEW us, Mentions(toks, us)
  PROVE  Mentions(Named(name, toks), us)
<1> DEFINE open == <<append_token(STARTNAME)>> \o <<append_u8(name)>>
<1>1. Named(name, toks) = (open \o toks) \o <<append_token(ENDNAME)>>
  BY DEF Named
<1>2. Mentions(open, {})
  BY MentionsArgs, MentionsMore DEF TheTokens
<1> HIDE DEF open
<1>3. Mentions(open \o toks, {} \cup us)
  BY <1>2, MentionsConcat
<1>4. Mentions(open \o toks, us)
  <2>1. {} \cup us = us
    OBVIOUS
  <2> QED
    BY <1>3, <2>1
<1>5. Mentions((open \o toks) \o <<append_token(ENDNAME)>>, us)
  BY <1>4, MentionsArgs, MentionsMore DEF TheTokens
<1> QED
  BY <1>1, <1>5

LEMMA MentionsEod == Mentions(append_eod, {})
<1> DEFINE w2 == <<append_token(ENDOFDATA)>> \o <<append_token(STARTLIST)>>
           w3 == w2 \o <<append_u8(0)>>
           w4 == w3 \o <<append_u8(0)>>
           w5 == w4 \o <<append_u8(0)>>
<1>1. append_eod = w5 \o <<append_token(ENDLIST)>>
  BY DEF append_eod
<1>2. Mentions(<<append_u8(0)>>, {})
  BY MentionsArgs
<1>3. Mentions(w2, {})
  BY MentionsArgs, MentionsMore DEF TheTokens
<1> HIDE DEF w2
<1>4. Mentions(w3, {})
  BY <1>2, <1>3, MentionsMore
<1> HIDE DEF w3
<1>5. Mentions(w4, {})
  BY <1>2, <1>4, MentionsMore
<1> HIDE DEF w4
<1>6. Mentions(w5, {})
  BY <1>2, <1>5, MentionsMore
<1> HIDE DEF w5
<1>7. Mentions(w5 \o <<append_token(ENDLIST)>>, {})
  BY <1>6, MentionsArgs, MentionsMore DEF TheTokens
<1> QED
  BY <1>1, <1>7

LEMMA MentionsCall ==
  ASSUME NEW u \in Uids, NEW m \in Uids, NEW args, NEW us, Mentions(args, us)
  PROVE  Mentions(MethodCall(u, m, args), {u, m} \cup us)
<1> DEFINE w2 == <<append_token(CALL)>> \o <<append_uid(u)>>
           w3 == w2 \o <<append_uid(m)>>
           head == w3 \o <<append_token(STARTLIST)>>
<1>1. MethodCall(u, m, args) = ((head \o args) \o <<append_token(ENDLIST)>>) \o append_eod
  <2>1. append_call_header(u, m) = head
    BY DEF append_call_header
  <2> QED
    BY <2>1, Zenon DEF MethodCall
<1>2. Mentions(<<append_uid(u)>>, {u}) /\ Mentions(<<append_uid(m)>>, {m})
  BY MentionsArgs
<1>3. Mentions(w2, {} \cup {u})
  BY <1>2, MentionsArgs, MentionsUid DEF TheTokens
<1> HIDE DEF w2
<1>4. Mentions(w3, ({} \cup {u}) \cup {m})
  BY <1>2, <1>3, MentionsUid
<1>5. ({} \cup {u}) \cup {m} = {u, m}
  OBVIOUS
<1> HIDE DEF w3
<1>6. Mentions(head, {u, m})
  BY <1>4, <1>5, MentionsArgs, MentionsMore DEF TheTokens
<1> HIDE DEF head
<1>7. Mentions(head \o args, {u, m} \cup us)
  BY <1>6, MentionsConcat
<1>8. Mentions((head \o args) \o <<append_token(ENDLIST)>>, {u, m} \cup us)
  BY <1>7, MentionsArgs, MentionsMore DEF TheTokens
<1>9. Mentions(((head \o args) \o <<append_token(ENDLIST)>>) \o append_eod, {u, m} \cup us)
  BY <1>8, MentionsEod, MentionsMore
<1> QED
  BY <1>1, <1>9

(* A StartSession names its SP, and its authority if it has a credential. *)
LEMMA MentionsStartSession ==
  ASSUME NEW sp \in Uids, NEW auth \in Uids, NEW n \in Nat
  PROVE  Mentions(StartSession(sp, auth, n),
                  {UID_SMUID, UID_STARTSESSION, sp} \cup IF n = 0 THEN {} ELSE {auth})
<1> DEFINE args == <<append_u32(HostSessionId), append_uid(sp), append_u8(1)>>
           w2   == <<append_u32(HostSessionId)>> \o <<append_uid(sp)>>
           cred == HostCredential(auth, n)
           who  == IF n = 0 THEN {} ELSE {auth}
<1>1. args = w2 \o <<append_u8(1)>>
  BY SessionArgs, Zenon
<1>2. Mentions(w2, {} \cup {sp})
  BY MentionsArgs, MentionsUid DEF HostSessionId
<1>3. Mentions(<<append_u8(1)>>, {})
  BY MentionsArgs
<1> HIDE DEF w2
<1>4. Mentions(args, {} \cup {sp})
  BY <1>1, <1>2, <1>3, MentionsMore
<1>5. Mentions(cred, who)
  <2>1. CASE n = 0
    BY <2>1, MentionsNothing DEF HostCredential
  <2>2. CASE n # 0
    <3>1. Mentions(Named(0, <<append_pin(n)>>), {})
      BY MentionsArgs, MentionsNamed
    <3>2. Mentions(Named(3, <<append_uid(auth)>>), {auth})
      BY MentionsArgs, MentionsNamed
    <3>3. Mentions(Named(0, <<append_pin(n)>>) \o Named(3, <<append_uid(auth)>>),
                   {} \cup {auth})
      BY <3>1, <3>2, MentionsConcat
    <3>4. {} \cup {auth} = who
      BY <2>2
    <3> QED
      BY <2>2, <3>3, <3>4 DEF HostCredential
  <2> QED
    BY <2>1, <2>2
<1> HIDE DEF args, cred, who
<1>6. Mentions(args \o cred, ({} \cup {sp}) \cup who)
  BY <1>4, <1>5, MentionsConcat
<1>7. Mentions(MethodCall(UID_SMUID, UID_STARTSESSION, args \o cred),
               {UID_SMUID, UID_STARTSESSION} \cup (({} \cup {sp}) \cup who))
  BY <1>6, UidConstants, MentionsCall
<1>8. {UID_SMUID, UID_STARTSESSION} \cup (({} \cup {sp}) \cup who)
        = {UID_SMUID, UID_STARTSESSION, sp} \cup who
  OBVIOUS
<1> QED
  BY <1>7, <1>8, Zenon DEF StartSession, args, cred, who

(* The first tokens of a method call. *)
LEMMA HeadKept ==
  ASSUME NEW a \in Seq(Tokens), NEW b \in Seq(Tokens), Len(a) >= 4
  PROVE  /\ a \o b \in Seq(Tokens) /\ Len(a \o b) >= 4
         /\ (a \o b)[2] = a[2] /\ (a \o b)[3] = a[3]
<1>1. /\ a \o b \in Seq(Tokens) /\ Len(a \o b) = Len(a) + Len(b)
      /\ \A i \in 1 .. Len(a) + Len(b) : (a \o b)[i] = IF i <= Len(a) THEN a[i]
                                                     ELSE b[i - Len(a)]
  BY ConcatProperties
<1>2. Len(a) \in Nat /\ Len(b) \in Nat
  OBVIOUS
<1> QED
  BY <1>1, <1>2

LEMMA CallRead ==
  ASSUME NEW u \in Uids, NEW m \in Uids, NEW args \in Seq(Tokens), NEW p,
         p.toks = MethodCall(u, m, args)
  PROVE  InvokingUid(p) = u /\ MethodUid(p) = m /\ p.toks # <<>> /\ p.toks # EndOfSession
<1> DEFINE head == append_call_header(u, m)
           rest == <<append_token(ENDLIST)>>
           toks == MethodCall(u, m, args)
<1>1. head \in Seq(Tokens) /\ Len(head) = 4
      /\ head[2] = append_uid(u) /\ head[3] = append_uid(m)
  <2>1. {append_token(CALL), append_uid(u), append_uid(m), append_token(STARTLIST)}
          \subseteq Tokens
    <3>1. CALL \in Nat /\ STARTLIST \in Nat
      BY DEF CALL, STARTLIST
    <3> QED
      BY <3>1, TokenTypes
  <2> QED
    BY <2>1 DEF append_call_header
<1>2. rest \in Seq(Tokens) /\ append_eod \in Seq(Tokens)
  BY MentionsArgs, MentionsEod DEF Mentions, TheTokens
<1>3. toks = ((head \o args) \o rest) \o append_eod
  BY Zenon DEF MethodCall
<1> HIDE DEF head, rest, toks
<1> DEFINE h1 == head \o args
           h2 == h1 \o rest
<1>4. h1 \in Seq(Tokens) /\ Len(h1) >= 4 /\ h1[2] = head[2] /\ h1[3] = head[3]
  <2>1. Len(head) >= 4
    BY <1>1
  <2> QED
    BY <1>1, <2>1, HeadKept, Zenon
<1> HIDE DEF h1
<1>5. h2 \in Seq(Tokens) /\ Len(h2) >= 4 /\ h2[2] = h1[2] /\ h2[3] = h1[3]
  BY <1>2, <1>4, HeadKept
<1> HIDE DEF h2
<1>6. toks = h2 \o append_eod
  BY <1>3 DEF h1, h2
<1>7. Len(toks) >= 4 /\ toks[2] = h2[2] /\ toks[3] = h2[3]
  BY <1>2, <1>5, <1>6, HeadKept
<1>8. append_uid(u).arg = u /\ append_uid(m).arg = m
  BY DEF append_uid, Token
<1>9. Len(<<>>) = 0 /\ Len(EndOfSession) = 1
  BY DEF EndOfSession
<1>10. p.toks = toks
  BY DEF toks
<1> QED
  BY <1>1, <1>4, <1>5, <1>7, <1>8, <1>9, <1>10 DEF InvokingUid, MethodUid
=============================================================================
