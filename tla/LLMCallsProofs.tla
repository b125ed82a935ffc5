--------------------------- MODULE LLMCallsProofs ---------------------------
(***************************************************************************)
(* LLMCalls: types, that an answer is faithful to the reply, and how many  *)
(* calls a minute may see.                                                 *)
(***************************************************************************)
EXTENDS LLMCalls, IndexLemmas

---------------------------------------------------------------------------
(* The inductive invariant.                                                *)

RateOK == rpm \in Int /\ (Limited => rpm <= Minute /\ Minute % rpm = 0)

\* A reservation is one token, and it is paid when the call is made.
Drawn == IF step = "wait" THEN Interval ELSE 0

CreditOK ==
    /\ credit \in Int
    /\ ~Limited => credit = 0 /\ step # "wait" /\ recent = <<>>
    /\ Limited => credit <= Interval /\ credit + Drawn >= 0

\* What calls later than call i were paid from: the credit that was there when
\* it was made, the ticks since then, and a full bucket for each restart.
Accounted ==
    Limited => \A i \in DOMAIN recent:
        (Len(recent) - i) * Interval + credit + Drawn
            <= recent[i] + Interval + restarts * Interval

AnswerOK ==
    /\ reply \in Replies \cup {None}
    /\ answer \in {None, Failed} \cup [severity: Severities]
    /\ step = "answered" => reply \in Replies /\ answer = Diagnose(provider, reply)

CallsInv ==
    /\ provider \in Providers
    /\ step \in {"idle", "wait", "call", "answered"}
    /\ recent \in Seq(0 .. Minute - 1)
    /\ restarts \in 0 .. MaxRestarts
    /\ RateOK
    /\ CreditOK
    /\ Accounted
    /\ AnswerOK

---------------------------------------------------------------------------
(* A minute holds LLM_RPM intervals.                                       *)

LEMMA IntervalOfRate ==
    ASSUME RateOK, Limited
    PROVE  Interval \in Nat \ {0} /\ Interval <= Minute /\ Minute = rpm * Interval
<1>1. rpm \in Nat \ {0} /\ Minute \in Nat \ {0} /\ rpm <= Minute /\ Minute % rpm = 0
  BY RateAssumption DEF RateOK, Limited
<1>2. Interval \in Int /\ Minute = rpm * Interval
  BY <1>1 DEF Interval
<1>3. Interval > 0
  BY <1>1, <1>2
<1>4. Interval <= rpm * Interval
  BY <1>1, <1>2, <1>3
<1> QED
  BY <1>2, <1>3, <1>4

\* A tick drops the calls that are a minute old, and the others get older.
LEMMA Aged ==
    ASSUME CallsInv, Tick
    PROVE  /\ recent' \in Seq(0 .. Minute - 1)
           /\ \E d \in 0 .. Len(recent):
                /\ Len(recent') = Len(recent) - d
                /\ \A i \in 1 .. Len(recent'): recent'[i] = recent[i + d] + 1
<1> DEFINE n == Len(recent)
           I == {i \in 1 .. n: recent[i] + 1 >= Minute}
           d == IF I # {} THEN Max(I) ELSE 0
           kept == SubSeq(recent, d + 1, n)
<1>1. /\ n \in Nat
      /\ Minute \in Nat \ {0}
      /\ \A i \in 1 .. n: recent[i] \in 0 .. Minute - 1
  BY RateAssumption DEF CallsInv
<1>2. recent' = [i \in DOMAIN kept |-> kept[i] + 1]
  BY DEF Tick, SelectLastInSeq
<1>3. d \in 0 .. n /\ \A i \in d + 1 .. n: recent[i] + 1 < Minute
  <2>1. I \in SUBSET (1 .. n)
    OBVIOUS
  <2>2. d \in 0 .. n /\ \A i \in d + 1 .. n: i \notin I
    <3> HIDE DEF I, n
    <3> QED
      BY <1>1, <2>1, LastIndex
  <2> HIDE DEF d
  <2> QED
    BY <1>1, <2>2
<1> HIDE DEF d, n
<1>4. /\ kept \in Seq(0 .. Minute - 1)
      /\ Len(kept) = n - d
      /\ \A i \in 1 .. n - d: kept[i] = recent[i + d]
  <2>1. \A i \in d + 1 .. n: recent[i] \in 0 .. Minute - 1
    BY <1>1, <1>3
  <2> QED
    BY <1>1, <1>3, <2>1, SubSeqProperties
<1> HIDE DEF kept
<1>5. DOMAIN kept = 1 .. n - d
  BY <1>4
<1>6. \A i \in 1 .. n - d: kept[i] + 1 \in 0 .. Minute - 1
  <2> TAKE i \in 1 .. n - d
  <2>1. i + d \in d + 1 .. n /\ i + d \in 1 .. n /\ kept[i] = recent[i + d]
    BY <1>1, <1>3, <1>4
  <2>2. recent[i + d] + 1 < Minute /\ recent[i + d] \in 0 .. Minute - 1
    BY <1>1, <1>3, <2>1
  <2> QED
    BY <1>1, <2>1, <2>2
<1>7. recent' \in Seq(0 .. Minute - 1) /\ Len(recent') = n - d
  BY <1>1, <1>2, <1>3, <1>5, <1>6
<1> QED
  BY <1>1, <1>2, <1>3, <1>4, <1>5, <1>7 DEF n

---------------------------------------------------------------------------
(* What ParseDiagnosisJSON makes of a text.                                *)

\* Braced is the text from its first opening to its last closing brace.
LEMMA BracedText ==
    ASSUME NEW t \in Seq(STRING)
    PROVE  \/ /\ Braced(t) = <<>>
              /\ \A k \in 1 .. Len(t): t[k] \notin Opening
           \/ \E i \in 1 .. Len(t), j \in 0 .. Len(t):
                /\ Braced(t) = SubSeq(t, i, j)
                /\ t[i] \in Opening /\ \A k \in 1 .. i - 1: t[k] \notin Opening
                /\ j # 0 => t[j] \in Closing
                /\ \A k \in j + 1 .. Len(t): t[k] \notin Closing
<1> DEFINE n == Len(t)
           I == {k \in 1 .. n: t[k] \in Opening}
           J == {k \in 1 .. n: t[k] \in Closing}
           i == IF I # {} THEN Min(I) ELSE 0
           j == IF J # {} THEN Max(J) ELSE 0
<1>1. n \in Nat
  OBVIOUS
<1>2. Braced(t) = IF i = 0 THEN <<>> ELSE SubSeq(t, i, j)
  BY DEF Braced, SelectInSeq, SelectLastInSeq
<1>3. I \in SUBSET (1 .. n) /\ J \in SUBSET (1 .. n)
  OBVIOUS
<1>4. /\ i \in 0 .. n
      /\ i = 0 => I = {}
      /\ i # 0 => i \in I /\ \A k \in 1 .. i - 1: k \notin I
  <2> HIDE DEF I, n
  <2> QED
    BY <1>1, <1>3, FirstIndex
<1>5. /\ j \in 0 .. n
      /\ j # 0 => j \in J
      /\ \A k \in j + 1 .. n: k \notin J
  <2> HIDE DEF J, n
  <2> QED
    BY <1>1, <1>3, LastIndex
<1> HIDE DEF i, j
<1>6. CASE i = 0
  BY <1>2, <1>4, <1>6
<1>7. CASE i # 0
  <2>1. i \in 1 .. n /\ t[i] \in Opening /\ \A k \in 1 .. i - 1: t[k] \notin Opening
    BY <1>1, <1>4, <1>7
  <2>2. j # 0 => t[j] \in Closing
    BY <1>5
  <2>3. \A k \in j + 1 .. n: t[k] \notin Closing
    BY <1>1, <1>5
  <2>4. Braced(t) = SubSeq(t, i, j)
    BY <1>2, <1>7
  <2> QED
    BY <1>5, <2>1, <2>2, <2>3, <2>4
<1> QED
  BY <1>6, <1>7

\* The ends of an object that is part of a text.
LEMMA ObjectEnds ==
    ASSUME NEW t \in Seq(STRING), NEW i \in 1 .. Len(t), NEW j \in 0 .. Len(t),
           IsObject(SubSeq(t, i, j))
    PROVE  i < j /\ t[i] = "{" /\ t[j] = "}"
<1> DEFINE s == SubSeq(t, i, j)
<1>1. Len(t) \in Nat /\ \A k \in i .. j: t[k] \in STRING
  BY LenProperties
<1>2. /\ Len(s) = IF i <= j THEN j - i + 1 ELSE 0
      /\ \A k \in 1 .. j - i + 1: s[k] = t[i + k - 1]
  BY <1>1, LenProperties, SubSeqProperties
<1>3. Len(s) >= 2 /\ s[1] = "{" /\ s[Len(s)] = "}"
  BY DEF IsObject
<1> HIDE DEF s
<1>4. i < j /\ Len(s) = j - i + 1
  <2> DEFINE n == Len(s)
  <2>1. i \in Int /\ j \in Int
    BY <1>1
  <2>2. n >= 2 /\ n = IF i <= j THEN j - i + 1 ELSE 0
    BY <1>2, <1>3
  <2> HIDE DEF n
  <2>3. i < j /\ n = j - i + 1
    BY <2>1, <2>2
  <2> QED
    BY <2>3 DEF n
<1>5. s[1] = t[i] /\ s[Len(s)] = t[j]
  BY <1>1, <1>2, <1>4
<1> QED
  BY <1>3, <1>4, <1>5

\* An object with no opening brace before and no closing brace after it is what
\* Braced finds.
LEMMA OutermostIsBraced ==
    ASSUME NEW t \in Seq(STRING), NEW o \in Outermost(t)
    PROVE  o = Braced(t) /\ IsObject(o)
<1>1. PICK q \in (DOMAIN t) \X (DOMAIN t):
        /\ o = SubSeq(t, q[1], q[2])
        /\ IsObject(o)
        /\ \A k \in 1 .. q[1] - 1: t[k] \notin Opening
        /\ \A k \in q[2] + 1 .. Len(t): t[k] \notin Closing
  BY DEF Outermost
<1> DEFINE a == q[1]
           b == q[2]
<1>2. a \in 1 .. Len(t) /\ b \in 1 .. Len(t) /\ Len(t) \in Nat
  BY LenProperties
<1>6. /\ o = SubSeq(t, a, b) /\ IsObject(SubSeq(t, a, b))
      /\ \A k \in 1 .. a - 1: t[k] \notin Opening
      /\ \A k \in b + 1 .. Len(t): t[k] \notin Closing
  BY <1>1
<1> HIDE DEF a, b
<1>3. a < b /\ t[a] = "{" /\ t[b] = "}"
  <2>1. b \in 0 .. Len(t)
    BY <1>2
  <2> QED
    BY <1>2, <1>6, <2>1, ObjectEnds
<1>4. PICK i \in 1 .. Len(t), j \in 0 .. Len(t):
        /\ Braced(t) = SubSeq(t, i, j)
        /\ t[i] \in Opening /\ \A k \in 1 .. i - 1: t[k] \notin Opening
        /\ j # 0 => t[j] \in Closing
        /\ \A k \in j + 1 .. Len(t): t[k] \notin Closing
  BY <1>2, <1>3, BracedText DEF Opening
<1>7. i = a
  <2>1. t[a] \in Opening
    BY <1>3 DEF Opening
  <2>2. ~(a < i) /\ ~(i < a)
    BY <1>2, <1>4, <1>6, <2>1
  <2> QED
    BY <1>2, <2>2
<1>8. j = b
  <2>1. t[b] \in Closing
    BY <1>3 DEF Closing
  <2>2. ~(j < b)
    BY <1>2, <1>4, <2>1
  <2>3. ~(b < j)
    BY <1>2, <1>4, <1>6
  <2> QED
    BY <1>2, <2>2, <2>3
<1> QED
  BY <1>4, <1>6, <1>7, <1>8

\* Braced finds no other object.
LEMMA BracedIsOutermost ==
    ASSUME NEW t \in Seq(STRING), IsObject(Braced(t))
    PROVE  Braced(t) \in Outermost(t)
<1>1. Braced(t) # <<>>
  <2>1. Len(Braced(t)) >= 2
    BY DEF IsObject
  <2> QED
    BY <2>1
<1>2. PICK i \in 1 .. Len(t), j \in 0 .. Len(t):
        /\ Braced(t) = SubSeq(t, i, j)
        /\ t[i] \in Opening /\ \A k \in 1 .. i - 1: t[k] \notin Opening
        /\ j # 0 => t[j] \in Closing
        /\ \A k \in j + 1 .. Len(t): t[k] \notin Closing
  BY <1>1, BracedText
<1>3. i < j
  BY <1>2, ObjectEnds
<1>4. i \in DOMAIN t /\ j \in DOMAIN t
  BY <1>3, LenProperties
<1>5. <<i, j>> \in (DOMAIN t) \X (DOMAIN t)
  BY <1>4
<1> QED
  <2> DEFINE q == <<i, j>>
  <2>1. q[1] = i /\ q[2] = j /\ IsObject(SubSeq(t, i, j))
    BY <1>2
  <2>2. /\ q \in (DOMAIN t) \X (DOMAIN t)
        /\ IsObject(SubSeq(t, q[1], q[2]))
        /\ \A k \in 1 .. q[1] - 1: t[k] \notin Opening
        /\ \A k \in q[2] + 1 .. Len(t): t[k] \notin Closing
        /\ Braced(t) = SubSeq(t, q[1], q[2])
    BY <1>2, <1>5, <2>1
  <2> HIDE DEF q
  <2> QED
    BY <2>2 DEF Outermost

\* Neither is a text that is an object as a whole anything else.
LEMMA ObjectIsOutermost ==
    ASSUME NEW t \in Seq(STRING), IsObject(t)
    PROVE  t \in Outermost(t)
<1>1. Len(t) \in Nat /\ Len(t) >= 2 /\ t = SubSeq(t, 1, Len(t))
  BY LenProperties, SubSeqFull DEF IsObject
<1>2. <<1, Len(t)>> \in (DOMAIN t) \X (DOMAIN t)
  BY <1>1, LenProperties
<1> DEFINE n == Len(t)
<1>3. n \in Nat /\ IsObject(SubSeq(t, 1, n))
  BY <1>1
<1> QED
  BY <1>1, <1>2, <1>3 DEF Outermost

\* Braced finds no null.
LEMMA BracedIsNoNull ==
    ASSUME NEW t \in Seq(STRING)
    PROVE  Braced(t) # <<"null">>
<1> SUFFICES ASSUME Braced(t) = <<"null">>
             PROVE  FALSE
  OBVIOUS
<1>1. Len(t) \in Nat /\ Len(<<"null">>) = 1 /\ <<"null">>[1] = "null"
  OBVIOUS
<1>2. Braced(t) # <<>>
  BY <1>1
<1>3. PICK i \in 1 .. Len(t), j \in 0 .. Len(t):
        Braced(t) = SubSeq(t, i, j) /\ t[i] \in Opening
  BY <1>2, BracedText
<1> DEFINE s == SubSeq(t, i, j)
<1>4. /\ Len(s) = IF i <= j THEN j - i + 1 ELSE 0
      /\ \A k \in 1 .. j - i + 1: s[k] = t[i + k - 1]
  <2>1. \A k \in i .. j: t[k] \in STRING
    BY LenProperties
  <2> QED
    BY <1>1, <2>1, SubSeqProperties
<1>5. Len(s) = 1 /\ s[1] = "null"
  BY <1>1, <1>3
<1> HIDE DEF s
<1>6. i <= j
  <2> DEFINE n == Len(s)
  <2>1. i \in Int /\ j \in Int
    BY <1>1
  <2>2. n = 1 /\ n = IF i <= j THEN j - i + 1 ELSE 0
    BY <1>4, <1>5
  <2> HIDE DEF n
  <2> QED
    BY <2>1, <2>2
<1>7. t[i] = "null"
  BY <1>1, <1>4, <1>5, <1>6
<1> QED
  BY <1>3, <1>7 DEF Opening

\* What ParseDiagnosisJSON returns, for every text.
LEMMA ParsedText ==
    ASSUME NEW t \in Seq(STRING)
    PROVE  IF t = <<"null">> THEN ParseDiagnosisJSON(t) = [severity |-> "medium"]
           ELSE IF Outermost(t) = {} THEN ParseDiagnosisJSON(t) = Failed
           ELSE \E o \in Outermost(t): ParseDiagnosisJSON(t) = Diagnosed(o)
<1>1. CASE t = <<"null">>
  <2> DEFINE I == {i \in 1 .. Len(t): t[i] \in {"high", "odd"}}
  <2>1. I = {}
    BY <1>1
  <2>2. Diagnosed(t) = [severity |-> Normalize("")]
    BY <2>1 DEF Diagnosed, SelectLastInSeq
  <2> QED
    BY <1>1, <2>2 DEF ParseDiagnosisJSON, Unmarshals, Normalize
<1>2. CASE t # <<"null">> /\ Outermost(t) = {}
  <2>1. ~IsObject(t) /\ ~IsObject(Braced(t))
    BY <1>2, ObjectIsOutermost, BracedIsOutermost
  <2> QED
    BY <1>2, <2>1, BracedIsNoNull DEF ParseDiagnosisJSON, Unmarshals
<1>3. CASE t # <<"null">> /\ Outermost(t) # {}
  <2>1. PICK o \in Outermost(t): o = Braced(t) /\ IsObject(o)
    BY <1>3, OutermostIsBraced
  <2>2. CASE IsObject(t)
    BY <1>3, <2>2, ObjectIsOutermost DEF ParseDiagnosisJSON, Unmarshals
  <2>3. CASE ~IsObject(t)
    BY <1>3, <2>1, <2>3 DEF ParseDiagnosisJSON, Unmarshals
  <2> QED
    BY <2>2, <2>3
<1> QED
  BY <1>1, <1>2, <1>3

---------------------------------------------------------------------------
(* Types of the answers.                                                   *)

LEMMA DiagnosedType ==
    ASSUME NEW t
    PROVE  Diagnosed(t) \in [severity: Severities]
BY DEF Diagnosed, Normalize, Severities

LEMMA ParsedType ==
    ASSUME NEW t
    PROVE  ParseDiagnosisJSON(t) \in {Failed} \cup [severity: Severities]
BY DiagnosedType DEF ParseDiagnosisJSON

LEMMA ReplyTexts ==
    ASSUME NEW r \in Replies
    PROVE  r.text \in Seq(STRING) /\ r.kind \in Kinds /\ (r.kind # "text" => r.text = <<>>)
<1>1. <<>> \in Seq(STRING)
  BY EmptySeq
<1>2. CASE r \in [kind: {"text"}, text: Texts]
  BY <1>2, TextsAssumption DEF Kinds
<1>3. CASE r \in [kind: Kinds \ {"text"}, text: {<<>>}]
  BY <1>1, <1>3
<1> QED
  BY <1>2, <1>3 DEF Replies

LEMMA NoTextFails == ParseDiagnosisJSON(<<>>) = Failed
<1>1. <<>> \in Seq(STRING) /\ Len(<<>>) = 0 /\ <<>> # <<"null">>
  BY EmptySeq
<1>2. Outermost(<<>>) = {}
  <2>1. ~IsObject(Braced(<<>>))
    <3>1. \A i \in 1 .. 0: FALSE
      OBVIOUS
    <3>2. Braced(<<>>) = <<>>
      BY <1>1, <3>1, BracedText
    <3>3. Len(Braced(<<>>)) = 0
      BY <1>1, <3>2
    <3>4. IsObject(Braced(<<>>)) => Len(Braced(<<>>)) >= 2
      BY DEF IsObject
    <3> QED
      BY <3>3, <3>4
  <2> QED
    BY <1>1, <2>1, OutermostIsBraced
<1> QED
  BY <1>1, <1>2, ParsedText

\* Every provider parses the text of a reply that has one, and fails on the others.
LEMMA ProvidersAgree ==
    ASSUME NEW pr \in Providers, NEW r \in Replies
    PROVE  Diagnose(pr, r) = ParseDiagnosisJSON(r.text)
BY ReplyTexts, NoTextFails, ProvidersAssumption
   DEF Diagnose, OpenAI, AzureOpenAI, Ollama, Bedrock, Vertex, Kinds

---------------------------------------------------------------------------
(* CallsInv is inductive.                                                  *)

LEMMA CallsStart == Init => CallsInv
<1> SUFFICES ASSUME Init
             PROVE  CallsInv
  OBVIOUS
<1>1. RateOK
  BY RateAssumption DEF Init, RPM, RateOK, Limited
<1>2. CreditOK
  BY <1>1, IntervalOfRate DEF Init, CreditOK, Burst, Drawn
<1>3. recent \in Seq(0 .. Minute - 1) /\ Accounted
  BY DEF Init, Accounted
<1> QED
  BY <1>1, <1>2, <1>3, RestartsAssumption DEF Init, CallsInv, AnswerOK

LEMMA ReserveStep ==
    ASSUME CallsInv, Reserve
    PROVE  CallsInv'
<1>1. RateOK' /\ AnswerOK'
  BY DEF CallsInv, Reserve, RateOK, Limited, AnswerOK
<1>2. Interval \in Nat \ {0} /\ Interval' = Interval /\ (Limited' <=> Limited)
  BY IntervalOfRate DEF CallsInv, Reserve, Interval, Limited
<1>3. credit \in Int /\ credit' = credit - Interval /\ Drawn = 0 /\ Drawn' = Interval
  BY <1>2 DEF CallsInv, CreditOK, Reserve, Drawn
<1>4. CreditOK'
  BY <1>2, <1>3 DEF CallsInv, CreditOK, Reserve
<1>5. Accounted'
  BY <1>2, <1>3 DEF CallsInv, Accounted, Reserve
<1> QED
  BY <1>1, <1>4, <1>5 DEF CallsInv, Reserve

LEMMA SendStep ==
    ASSUME CallsInv, Send
    PROVE  CallsInv'
<1>1. RateOK' /\ AnswerOK'
  BY DEF CallsInv, Send, RateOK, Limited, AnswerOK
<1>2. Interval' = Interval /\ (Limited' <=> Limited)
  BY DEF Send, Interval, Limited
<1>3. CASE ~Limited
  BY <1>1, <1>2, <1>3 DEF CallsInv, Send, Sent, CreditOK, Accounted
<1>4. CASE Limited
  <2>1. /\ Interval \in Nat \ {0}
        /\ Minute \in Nat \ {0}
    BY <1>4, IntervalOfRate, RateAssumption DEF CallsInv
  <2>2. /\ step = "wait" /\ step' = "call"
        /\ credit \in 0 .. Interval /\ credit' = credit
        /\ Drawn = Interval /\ Drawn' = 0
    BY <1>2, <1>4, <2>1 DEF CallsInv, CreditOK, Send, Drawn
  <2>3. /\ recent' = Append(recent, 0)
        /\ recent' \in Seq(0 .. Minute - 1)
        /\ Len(recent) \in Nat
        /\ Len(recent') = Len(recent) + 1
    BY <1>4, <2>1 DEF CallsInv, Send, Sent
  <2>4. CreditOK'
    BY <1>2, <1>4, <2>1, <2>2 DEF CreditOK
  <2>5. Accounted'
    <3> DEFINE n == Len(recent)
    <3>1. ASSUME NEW i \in 1 .. n + 1
          PROVE  (n + 1 - i) * Interval + credit <= recent'[i] + Interval + restarts * Interval
      <4>1. CASE i \in 1 .. n
        <5>1. (n - i) * Interval + credit + Interval <= recent[i] + Interval + restarts * Interval
          BY <1>4, <2>2, <4>1 DEF CallsInv, Accounted
        <5>2. (n + 1 - i) * Interval = (n - i) * Interval + Interval
          BY <2>1, <2>3
        <5>3. recent'[i] = recent[i] /\ recent[i] \in Int
          BY <2>1, <2>3, <4>1 DEF CallsInv
        <5>4. (n - i) * Interval \in Int /\ restarts * Interval \in Int
          BY <2>1, <2>3 DEF CallsInv
        <5> QED
          BY <2>1, <2>2, <5>1, <5>2, <5>3, <5>4
      <4>2. CASE i = n + 1
        <5>1. recent'[i] = 0 /\ n + 1 - i = 0
          BY <2>3, <4>2 DEF CallsInv
        <5>2. restarts * Interval \in Nat
          BY <2>1, RestartsAssumption DEF CallsInv
        <5> QED
          BY <2>1, <2>2, <5>1, <5>2
      <4> QED
        BY <2>3, <4>1, <4>2
    <3>2. DOMAIN recent' = 1 .. n + 1 /\ restarts' = restarts
      BY <2>3 DEF Send
    <3>3. ASSUME NEW i \in DOMAIN recent'
          PROVE  (Len(recent') - i) * Interval' + credit' + Drawn'
                   <= recent'[i] + Interval' + restarts' * Interval'
      <4>1. i \in 1 .. n + 1 /\ Len(recent') = n + 1
        BY <2>3, <3>2
      <4>2. (n + 1 - i) * Interval \in Int
        BY <2>1, <2>3, <4>1
      <4>3. (n + 1 - i) * Interval + credit' + Drawn' = (n + 1 - i) * Interval + credit
        BY <2>1, <2>2, <4>2
      <4> QED
        BY <1>2, <3>1, <3>2, <4>1, <4>3
    <3> QED
      BY <3>3 DEF Accounted
  <2> QED
    BY <1>1, <2>2, <2>3, <2>4, <2>5 DEF CallsInv, Send
<1> QED
  BY <1>3, <1>4

LEMMA ReceiveStep ==
    ASSUME CallsInv, Receive
    PROVE  CallsInv'
<1>1. RateOK' /\ CreditOK' /\ Accounted'
  BY DEF CallsInv, Receive, RateOK, CreditOK, Accounted, Limited, Drawn, Interval
<1>2. AnswerOK'
  BY ProvidersAgree, ParsedType DEF CallsInv, Receive, AnswerOK
<1> QED
  BY <1>1, <1>2 DEF CallsInv, Receive

LEMMA ReturnStep ==
    ASSUME CallsInv, Return
    PROVE  CallsInv'
<1>1. RateOK' /\ CreditOK' /\ Accounted'
  BY DEF CallsInv, Return, RateOK, CreditOK, Accounted, Limited, Drawn, Interval
<1> QED
  BY <1>1 DEF CallsInv, Return, AnswerOK

LEMMA TickStep ==
    ASSUME CallsInv, Tick
    PROVE  CallsInv'
<1>1. RateOK' /\ AnswerOK'
  BY DEF CallsInv, Tick, RateOK, Limited, AnswerOK
<1>2. /\ Interval' = Interval /\ (Limited' <=> Limited) /\ Drawn' = Drawn
      /\ step' = step /\ restarts' = restarts
  BY DEF Tick, Interval, Limited, Drawn
<1>3. recent' \in Seq(0 .. Minute - 1)
  BY Aged
<1>4. PICK d \in 0 .. Len(recent):
        /\ Len(recent') = Len(recent) - d
        /\ \A i \in 1 .. Len(recent'): recent'[i] = recent[i + d] + 1
  BY Aged
<1>5. CASE ~Limited
  <2>1. credit' = 0
    BY <1>5 DEF CallsInv, CreditOK, Tick, Burst
  <2>2. recent = <<>> /\ Len(recent) = 0
    BY <1>5 DEF CallsInv, CreditOK
  <2>3. recent' = <<>>
    BY <1>3, <1>4, <2>2, EmptySeq
  <2> QED
    BY <1>1, <1>2, <1>3, <1>5, <2>1, <2>3 DEF CallsInv, CreditOK, Accounted, Tick
<1>6. CASE Limited
  <2>1. Interval \in Nat \ {0} /\ Drawn \in Nat
    BY <1>6, IntervalOfRate DEF CallsInv, Drawn
  <2>2. /\ credit \in Int /\ credit' \in {credit, credit + 1}
        /\ credit' <= Interval /\ credit <= Interval /\ credit + Drawn >= 0
        /\ credit' \in Int /\ credit' <= credit + 1 /\ credit' + Drawn >= 0
    BY <1>6, <2>1 DEF CallsInv, CreditOK, Tick, Burst
  <2>3. CreditOK'
    BY <1>2, <1>6, <2>1, <2>2 DEF CreditOK
  <2>4. Accounted'
    <3> DEFINE n == Len(recent)
               m == Len(recent')
    <3>1. n \in Nat /\ m \in Nat /\ m = n - d /\ DOMAIN recent' = 1 .. m
      BY <1>3, <1>4 DEF CallsInv
    <3>2. ASSUME NEW i \in 1 .. m
          PROVE  (m - i) * Interval + credit' + Drawn
                   <= recent'[i] + Interval + restarts * Interval
      <4>1. i + d \in 1 .. n /\ n - (i + d) = m - i
        BY <3>1
      <4>2. (n - (i + d)) * Interval + credit + Drawn
              <= recent[i + d] + Interval + restarts * Interval
        BY <1>6, <4>1 DEF CallsInv, Accounted
      <4>3. recent'[i] = recent[i + d] + 1 /\ recent[i + d] \in Int
        BY <1>4, <4>1, RateAssumption DEF CallsInv
      <4>4. (m - i) * Interval \in Int /\ restarts * Interval \in Int
        BY <2>1, <3>1 DEF CallsInv
      <4>5. (m - i) * Interval + credit + Drawn <= recent[i + d] + Interval + restarts * Interval
        BY <4>1, <4>2
      <4>6. (m - i) * Interval + credit' + Drawn
              <= (recent[i + d] + 1) + Interval + restarts * Interval
        <5>1. PICK spent \in Int: spent = (m - i) * Interval
          BY <4>4
        <5>2. PICK refilled \in Int: refilled = restarts * Interval
          BY <4>4
        <5>3. PICK age \in Int: age = recent[i + d]
          BY <4>3
        <5>4. PICK c \in Int: c = credit
          BY <2>2
        <5>5. PICK e \in Int: e = credit'
          BY <2>2
        <5>6. PICK full \in Int: full = Interval
          BY <2>1
        <5>7. PICK drawn \in Int: drawn = Drawn
          BY <2>1
        <5>8. e <= c + 1 /\ spent + c + drawn <= age + full + refilled
          BY <2>2, <4>5, <5>1, <5>2, <5>3, <5>4, <5>5, <5>6, <5>7
        <5>9. spent + e + drawn <= (age + 1) + full + refilled
          BY <5>8
        <5> QED
          BY <5>1, <5>2, <5>3, <5>5, <5>6, <5>7, <5>9
      <4> QED
        BY <4>3, <4>6
    <3> QED
      BY <1>2, <3>1, <3>2 DEF Accounted
  <2> QED
    BY <1>1, <1>2, <1>3, <2>3, <2>4 DEF CallsInv, Tick
<1> QED
  BY <1>5, <1>6

LEMMA RestartStep ==
    ASSUME CallsInv, Restart
    PROVE  CallsInv'
<1>1. RateOK'
  BY DEF CallsInv, Restart, RateOK, Limited
<1>2. Interval' = Interval /\ (Limited' <=> Limited) /\ Drawn' = 0
  BY DEF Restart, Interval, Limited, Drawn
<1>3. restarts' = restarts + 1 /\ restarts \in Nat /\ restarts' \in 0 .. MaxRestarts
  BY RestartsAssumption DEF CallsInv, Restart
<1>4. CASE ~Limited
  BY <1>1, <1>2, <1>3, <1>4 DEF CallsInv, Restart, CreditOK, Accounted, AnswerOK, Burst
<1>5. CASE Limited
  <2>1. Interval \in Nat \ {0} /\ credit' = Interval
    BY <1>5, IntervalOfRate DEF CallsInv, Restart, Burst
  <2>2. CreditOK'
    BY <1>2, <1>5, <2>1 DEF CreditOK
  <2>3. Accounted'
    <3> DEFINE n == Len(recent)
    <3>1. ASSUME NEW i \in 1 .. n
          PROVE  (n - i) * Interval + Interval
                   <= recent[i] + Interval + (restarts + 1) * Interval
      <4>1. (n - i) * Interval + credit + Drawn <= recent[i] + Interval + restarts * Interval
        BY <1>5 DEF CallsInv, Accounted
      <4>2. credit + Drawn >= 0 /\ credit \in Int /\ Drawn \in Int
        BY <1>5, <2>1 DEF CallsInv, CreditOK, Drawn
      <4>3. (restarts + 1) * Interval = restarts * Interval + Interval
        BY <1>3, <2>1
      <4>4. (n - i) * Interval \in Int /\ restarts * Interval \in Int /\ recent[i] \in Int
        BY <1>3, <2>1, RateAssumption DEF CallsInv
      <4> QED
        BY <2>1, <4>1, <4>2, <4>3, <4>4
    <3>2. recent' = recent /\ DOMAIN recent = 1 .. n
      BY DEF CallsInv, Restart
    <3>3. ASSUME NEW i \in DOMAIN recent'
          PROVE  (Len(recent') - i) * Interval' + credit' + Drawn'
                   <= recent'[i] + Interval' + restarts' * Interval'
      <4>1. i \in 1 .. n /\ Len(recent') = n /\ n \in Nat
        BY <3>2 DEF CallsInv
      <4>2. (n - i) * Interval \in Int
        BY <2>1, <4>1
      <4>3. (n - i) * Interval + credit' + Drawn' = (n - i) * Interval + Interval
        BY <1>2, <2>1, <4>2
      <4> QED
        BY <1>2, <1>3, <3>1, <3>2, <4>1, <4>3
    <3> QED
      BY <3>3 DEF Accounted
  <2> QED
    BY <1>1, <1>3, <2>2, <2>3 DEF CallsInv, Restart, AnswerOK
<1> QED
  BY <1>4, <1>5

LEMMA CallsStep == CallsInv /\ [Next]_vars => CallsInv'
<1> SUFFICES ASSUME CallsInv, [Next]_vars
             PROVE  CallsInv'
  OBVIOUS
<1>1. CASE UNCHANGED vars
  BY <1>1 DEF vars, CallsInv, RateOK, CreditOK, Accounted, AnswerOK, Limited, Drawn, Interval
<1> QED
  BY <1>1, ReserveStep, SendStep, ReceiveStep, ReturnStep, TickStep, RestartStep DEF Next

LEMMA CallsInvariant == Spec => []CallsInv
BY CallsStart, CallsStep, PTL DEF Spec

---------------------------------------------------------------------------
(* The properties.                                                         *)

\* Every variable of LLMCalls keeps its type: the bucket never owes more than the
\* one token that is waited for, and an answer is an error or has a severity.
THEOREM CallsTypeCorrect == Spec => []TypeOK
<1>1. CallsInv => TypeOK
  <2> SUFFICES ASSUME CallsInv
               PROVE  TypeOK
    OBVIOUS
  <2>1. credit \in -Minute .. Minute
    BY IntervalOfRate, RateAssumption DEF CallsInv, CreditOK, Drawn
  <2> QED
    BY <2>1 DEF TypeOK, CallsInv, RateOK, AnswerOK
<1> QED
  BY <1>1, CallsInvariant, PTL

\* For every provider and whatever the LLM writes, the answer is the diagnosis in
\* the outermost object of the text, or an error.
THEOREM AnswersAreFaithful == Spec => []FaithfulAnswer
<1>1. CallsInv => FaithfulAnswer
  <2> SUFFICES ASSUME CallsInv, step = "answered"
               PROVE  FaithfulAnswer
    BY DEF FaithfulAnswer
  <2>1. reply \in Replies /\ answer = ParseDiagnosisJSON(reply.text)
    BY ProvidersAgree DEF CallsInv, AnswerOK
  <2> QED
    BY <2>1, ReplyTexts, ParsedText DEF FaithfulAnswer
<1> QED
  BY <1>1, CallsInvariant, PTL

\* For every LLM_RPM that divides the minute, the calls of a minute are at most
\* LLM_RPM, one that was waited for, and one for each restart.
THEOREM CallsStayBelowTheCeiling == Spec => []Ceiling
<1>1. CallsInv => Ceiling
  <2> SUFFICES ASSUME CallsInv, Limited
               PROVE  Len(recent) <= rpm + 1 + restarts
    BY DEF Ceiling
  <2> DEFINE n == Len(recent)
             k == n - 1
             b == rpm + 1 + restarts
  <2>1. /\ Interval \in Nat \ {0} /\ Minute = rpm * Interval
        /\ rpm \in Nat /\ restarts \in Nat /\ n \in Nat
    BY IntervalOfRate, RestartsAssumption DEF CallsInv, RateOK, Limited
  <2>2. CASE n = 0
    BY <2>1, <2>2
  <2>3. CASE n # 0
    <3>1. 1 \in DOMAIN recent /\ recent[1] \in 0 .. Minute - 1
      BY <2>1, <2>3 DEF CallsInv
    <3>2. k * Interval + credit + Drawn <= recent[1] + Interval + restarts * Interval
      BY <3>1 DEF CallsInv, Accounted
    <3>3. credit + Drawn >= 0 /\ credit \in Int /\ Drawn \in Int
      BY <2>1 DEF CallsInv, CreditOK, Drawn
    <3>4. k * Interval \in Int /\ restarts * Interval \in Int /\ rpm * Interval \in Int
      BY <2>1
    <3>5. k * Interval < rpm * Interval + Interval + restarts * Interval
      BY <2>1, <3>1, <3>2, <3>3, <3>4
    <3>6. b * Interval = rpm * Interval + Interval + restarts * Interval
      BY <2>1
    <3>7. k < b
      <4> SUFFICES ASSUME b <= k
                   PROVE  FALSE
        BY <2>1
      <4>1. b * Interval <= k * Interval
        BY <2>1
      <4> QED
        BY <2>1, <3>4, <3>5, <3>6, <4>1
    <3> QED
      BY <2>1, <3>7
  <2> QED
    BY <2>2, <2>3
<1> QED
  BY <1>1, CallsInvariant, PTL

=============================================================================
