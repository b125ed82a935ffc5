------------------------------ MODULE LLMCalls ------------------------------
(***************************************************************************)
(* internal/llm: the Provider that one manager process calls.  A token     *)
(* bucket of LLM_RPM calls a minute lets its worker through, the LLM       *)
(* replies, and the provider turns the reply into a diagnosis or an error. *)
(* A text is a sequence of tokens, of which only the braces matter to the  *)
(* parser: "'{" and "'}" are braces inside a JSON string, "high" and "odd" *)
(* are severities, or words when they stand outside an object.             *)
(***************************************************************************)
EXTENDS Integers, Sequences, SequencesExt

CONSTANTS
    Providers,    \* LLM_PROVIDER
    Settings,     \* values of LLM_RPM
    Unset,        \* LLM_RPM is not there
    NotANumber,   \* LLM_RPM does not parse
    DefaultRPM,   \* 120
    Minute,       \* ticks of a minute
    Texts,        \* what the LLM may write
    None,         \* no reply, no answer
    Failed,       \* an error is returned
    MaxRestarts   \* bound: restarts of the process

ASSUME RateAssumption ==
    /\ Minute \in Nat \ {0}
    /\ DefaultRPM \notin {Unset, NotANumber}
    /\ \A n \in (Settings \cup {DefaultRPM}) \ {Unset, NotANumber}:
         n \in Int /\ (n > 0 => n <= Minute /\ Minute % n = 0)

\* Others are refused at the start.
ASSUME ProvidersAssumption ==
    Providers \subseteq {"openai", "azure-openai", "ollama", "bedrock", "vertex"}

ASSUME TextsAssumption == Texts \subseteq Seq(STRING)

ASSUME RestartsAssumption == MaxRestarts \in Nat

Opening == {"{", "'{"}
Closing == {"}", "'}"}
Severities == {"high", "medium"}

---------------------------------------------------------------------------
(* ParseDiagnosisJSON.                                                     *)

\* json.Unmarshal into the flat Diagnosis: braces within strings are content.
\* A null leaves the Diagnosis empty.
IsObject(t) ==
    /\ Len(t) >= 2
    /\ t[1] = "{"
    /\ t[Len(t)] = "}"
    /\ \A i \in 2 .. Len(t) - 1: t[i] \notin {"{", "}"}

Unmarshals(t) == IsObject(t) \/ t = <<"null">>

\* Mutant: the severity is what the LLM says.
Normalized(s) == s

Normalize(s) == IF s = "high" THEN s ELSE "medium"

\* Of a key that comes twice, the last one counts.
Diagnosed(t) ==
    LET Says(w) == w \in {"high", "odd"}
        i == SelectLastInSeq(t, Says)
    IN  [severity |-> Normalize(IF i = 0 THEN "" ELSE t[i])]

\* Mutant: up to the first closing brace.
FirstToFirst(t) ==
    LET Opens(w) == w \in Opening
        Closes(w) == w \in Closing
        i == SelectInSeq(t, Opens)
    IN  IF i = 0 THEN <<>> ELSE SubSeq(t, i, SelectInSeq(t, Closes))

\* From the first opening to the last closing brace; empty when that is nothing.
Braced(t) ==
    LET Opens(w) == w \in Opening
        Closes(w) == w \in Closing
        i == SelectInSeq(t, Opens)
    IN  IF i = 0 THEN <<>> ELSE SubSeq(t, i, SelectLastInSeq(t, Closes))

ParseDiagnosisJSON(t) ==
    IF Unmarshals(t) THEN Diagnosed(t)
    ELSE IF Unmarshals(Braced(t)) THEN Diagnosed(Braced(t))
    ELSE Failed

---------------------------------------------------------------------------
(* Diagnose of each provider.                                              *)

\* No reply, a status other than 2xx, a body that is not JSON, an error object,
\* nothing to read in it, or a text.
Kinds == {"refused", "status", "garbage", "apiError", "noText", "text"}
Replies == [kind: {"text"}, text: Texts] \cup [kind: Kinds \ {"text"}, text: {<<>>}]

OpenAI(r) == IF r.kind # "text" THEN Failed ELSE ParseDiagnosisJSON(r.text)

AzureOpenAI(r) == IF r.kind # "text" THEN Failed ELSE ParseDiagnosisJSON(r.text)

\* The body is not looked at for an error: it has no message, and the text is empty.
Ollama(r) ==
    IF r.kind \in {"refused", "status", "garbage"} THEN Failed ELSE ParseDiagnosisJSON(r.text)

\* The SDK reports what is wrong with a reply, but for one without text blocks.
Bedrock(r) ==
    IF r.kind \in Kinds \ {"noText", "text"} THEN Failed
    ELSE IF r.kind = "noText" THEN Failed
    ELSE ParseDiagnosisJSON(r.text)

\* The text of a reply without candidates is empty.
Vertex(r) ==
    IF r.kind \in Kinds \ {"noText", "text"} THEN Failed ELSE ParseDiagnosisJSON(r.text)

Diagnose(provider, r) ==
    CASE provider = "openai" -> OpenAI(r)
      [] provider = "azure-openai" -> AzureOpenAI(r)
      [] provider = "ollama" -> Ollama(r)
      [] provider = "bedrock" -> Bedrock(r)
      [] provider = "vertex" -> Vertex(r)

---------------------------------------------------------------------------
VARIABLES
    provider,
    rpm,       \* calls a minute; limiting is off unless it is positive
    credit,    \* content of the bucket in ticks, negative for a reservation
    step,      \* what the worker is doing
    reply,     \* the reply that is being read
    answer,    \* what Diagnose returns
    recent,    \* history: ages of the calls of the last minute, oldest first
    restarts   \* history: how often the process was restarted

vars == <<provider, rpm, credit, step, reply, answer, recent, restarts>>

RPM(setting) == IF setting \in {Unset, NotANumber} THEN DefaultRPM ELSE setting

Limited == rpm > 0
Interval == Minute \div rpm

\* Mutant: a whole minute's calls may come at once.
MinuteBurst == IF Limited THEN rpm * Interval ELSE 0

Burst == IF Limited THEN Interval ELSE 0

Init ==
    /\ provider \in Providers
    /\ \E s \in Settings: rpm = RPM(s)
    /\ credit = Burst
    /\ step = "idle"
    /\ reply = None
    /\ answer = None
    /\ recent = <<>>
    /\ restarts = 0

Sent == recent' = IF Limited THEN Append(recent, 0) ELSE recent

\* Wait takes a token at once, and waits for it to be there.
Reserve ==
    /\ step = "idle"
    /\ Limited
    /\ credit' = credit - Interval
    /\ step' = "wait"
    /\ UNCHANGED <<provider, rpm, reply, answer, recent, restarts>>

Send ==
    /\ \/ step = "wait" /\ credit >= 0
       \/ step = "idle" /\ ~Limited
    /\ step' = "call"
    /\ Sent
    /\ UNCHANGED <<provider, rpm, credit, reply, answer, restarts>>

Receive ==
    /\ step = "call"
    /\ reply' \in Replies
    /\ answer' = Diagnose(provider, reply')
    /\ step' = "answered"
    /\ UNCHANGED <<provider, rpm, credit, recent, restarts>>

Return ==
    /\ step = "answered"
    /\ step' = "idle"
    /\ reply' = None
    /\ answer' = None
    /\ UNCHANGED <<provider, rpm, credit, recent, restarts>>

Tick ==
    /\ credit' = IF credit < Burst THEN credit + 1 ELSE credit
    /\ LET Old(age) == age + 1 >= Minute
           kept == SubSeq(recent, SelectLastInSeq(recent, Old) + 1, Len(recent))
       IN  recent' = [i \in DOMAIN kept |-> kept[i] + 1]
    /\ UNCHANGED <<provider, rpm, step, reply, answer, restarts>>

Restart ==
    /\ restarts < MaxRestarts
    /\ restarts' = restarts + 1
    /\ credit' = Burst
    /\ step' = "idle"
    /\ reply' = None
    /\ answer' = None
    /\ UNCHANGED <<provider, rpm, recent>>

Next == Reserve \/ Send \/ Receive \/ Return \/ Tick \/ Restart

Spec == Init /\ [][Next]_vars

---------------------------------------------------------------------------
\* What Diagnose returns is an error or a diagnosis with one of the severities
\* that the prompt asks for, whatever the LLM writes.
TypeOK ==
    /\ provider \in Providers
    /\ rpm \in Int
    /\ credit \in -Minute .. Minute
    /\ step \in {"idle", "wait", "call", "answered"}
    /\ reply \in Replies \cup {None}
    /\ answer \in {None, Failed} \cup [severity: Severities]
    /\ recent \in Seq(0 .. Minute - 1)
    /\ restarts \in 0 .. MaxRestarts

\* The objects of a text with no opening brace before and no closing brace after.
Outermost(t) ==
    {SubSeq(t, p[1], p[2]): p \in
       {q \in (DOMAIN t) \X (DOMAIN t):
          /\ IsObject(SubSeq(t, q[1], q[2]))
          /\ \A k \in 1 .. q[1] - 1: t[k] \notin Opening
          /\ \A k \in q[2] + 1 .. Len(t): t[k] \notin Closing}}

\* All providers agree: a diagnosis is returned for a text with one object in
\* prose that has no opening brace before it and no closing brace after it, and it
\* is that object's; a text of null is an empty diagnosis; everything else, an
\* object that was cut off among it, is an error and never a diagnosis (Diagnose
\* and ParseDiagnosisJSON).
FaithfulAnswer ==
    step = "answered" =>
        IF reply.text = <<"null">> THEN answer = [severity |-> "medium"]
        ELSE IF Outermost(reply.text) = {} THEN answer = Failed
        ELSE \E o \in Outermost(reply.text): answer = Diagnosed(o)

\* In no minute does the process start more than LLM_RPM calls, and one for a
\* call that its token had been waiting for, and one for each restart, since the
\* new process starts with a full bucket.
Ceiling == Limited => Len(recent) <= rpm + 1 + restarts

=============================================================================
