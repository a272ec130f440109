----------------------- MODULE CommandControllerProofs -----------------------
(***************************************************************************)
(* Proofs about CommandController, for any command definitions, any texts  *)
(* and any number of commands at one another's prompts.                    *)
(*                                                                         *)
(* The invariant says of each command that waits how far its form has been *)
(* filled in, and of a command that ended that and why.  An answer has the *)
(* command processed from its beginning, so that this is what a field      *)
(* leaves to the next, and a round of the form to the next, is shown by    *)
(* induction over the fields and over the rounds.                          *)
(***************************************************************************)
EXTENDS CommandController, SequenceTheorems, WellFoundedInduction, TLAPS
-----------------------------------------------------------------------------
(* Numbers.  The library's theorems on induction take the formula to be    *)
(* proved as a parameter, which none of the provers instantiates; here it  *)
(* is the set of the numbers that satisfy it, a value like any other.      *)

\* A set of numbers that is not empty has a least one.
LEMMA LeastNumber ==
  ASSUME NEW T \in SUBSET Nat, T # {}
  PROVE  \E n \in T : \A m \in T : n <= m
<1>1. PICK n \in T : \A m \in T : ~ (<<m, n>> \in OpToRel(<, Nat))
  BY WFMin, NatLessThanWellFounded, Zenon
<1>2. ASSUME NEW m \in T PROVE n <= m
  <2>1. m \in Nat /\ n \in Nat /\ <<m, n>> \in Nat \X Nat /\ <<m, n>>[1] = m /\ <<m, n>>[2] = n
    OBVIOUS
  <2>2. m < n => <<m, n>> \in OpToRel(<, Nat)
    BY <2>1, Zenon DEF OpToRel
  <2>3. ~ (m < n)
    BY <1>1, <2>2, Zenon
  <2> QED BY <2>1, <2>3
<1> QED BY <1>2

\* Induction: a set of numbers that has 0, and with each number the next, has
\* them all.
LEMMA SetInduction ==
  ASSUME NEW T \in SUBSET Nat, 0 \in T, \A n \in T : n + 1 \in T
  PROVE  T = Nat
<1>1. SUFFICES ASSUME Nat \ T # {} PROVE FALSE
  OBVIOUS
<1>2. PICK n \in Nat \ T : \A m \in Nat \ T : n <= m
  <2>1. Nat \ T \in SUBSET Nat
    OBVIOUS
  <2> QED BY <1>1, <2>1, LeastNumber, Zenon
<1>3. n # 0 /\ n - 1 \in Nat
  BY <1>2
<1>4. n - 1 \in T
  BY <1>2, <1>3
<1>5. n \in T
  <2>1. (n - 1) + 1 = n
    BY <1>3
  <2> QED BY <1>4, <2>1
<1> QED BY <1>5
-----------------------------------------------------------------------------
(* What is true of the commands.                                           *)

\* The fields whose absence is always prompted for.
Asked(f) == f.prompt \in {"syntax", "always"}

\* What is kept of a command: its types.
IsState(s) ==
  /\ DOMAIN s = {"command", "args", "extra", "model", "field_retry", "form_retry",
                 "force_prompt", "at", "prompts"}
  /\ s.command \in Commands
  /\ s.args \in Seq(Texts)
  /\ DOMAIN s.extra \subseteq Fields(s)
  /\ s.form_retry \in 0..s.command.maxRetry
  /\ s.force_prompt \in BOOLEAN
  /\ s.prompts \in [Fields(s) -> Nat]

\* The fields below k are in the model, with values that are valid and a place
\* of their own.
FilledTo(s, k) ==
  /\ DOMAIN s.model = 1..k - 1
  /\ \A j \in 1..k - 1 : /\ s.model[j] \in s.command.fields[j].valid
                         /\ isArg(s, j) => j \in DOMAIN s.args

\* No field was prompted for too often, those above k not at all, and k itself
\* as often as it was retried, and once more if its value was missing.
PromptedTo(s, k) ==
  /\ \A j \in Fields(s) : s.prompts[j] <= 1 + s.command.fields[j].maxRetry
  /\ \A j \in Fields(s) : j > k => s.prompts[j] = 0
  /\ s.field_retry \in Nat
  /\ k \in Fields(s) => /\ s.field_retry <= s.command.fields[k].maxRetry
                        /\ s.field_retry <= s.prompts[k]
                        /\ s.prompts[k] <= 1 + s.field_retry
                        /\ s.force_prompt \/ k \notin Slots(s, k) => s.prompts[k] = 0
  /\ k \notin Fields(s) => s.field_retry = 0

\* When the form was begun again, the fields below k were asked for since, and
\* k is to be, or was.
AskedTo(s, k) ==
  s.form_retry > 0 =>
    /\ \A j \in 1..k - 1 : Asked(s.command.fields[j]) => s.prompts[j] > 0
    /\ k \in Fields(s) /\ Asked(s.command.fields[k]) =>
         s.force_prompt \/ s.prompts[k] > 0

\* A command on its way through the form, k being the first field that is not in
\* the model.
Processed(s, k) ==
  /\ IsState(s) /\ k \in 1..Len(s.command.fields) + 1
  /\ FilledTo(s, k) /\ PromptedTo(s, k) /\ AskedTo(s, k)

\* One that waits for input: it has a place to go to.
Pending(s) == /\ s.at \in Fields(s) /\ s.at \in Slots(s, s.at) /\ ~s.force_prompt
              /\ Processed(s, s.at)

\* A command that ends at a field that is always prompted for has used up its
\* retries (RetriesAreTheFieldsOwn).
RetriesUsed(s) ==
  \A i \in Fields(s) \ DOMAIN s.model :
    LET f == s.command.fields[i]
    IN  DOMAIN s.model = 1..i - 1 /\ f.prompt = "always" => s.prompts[i] >= f.maxRetry

\* A command that dies of an error is at an argument that was not given
\* (PromptsFollowTheForm).
NoPlace(s) ==
  \E i \in Fields(s) :
    /\ DOMAIN s.model = 1..(i - 1) /\ isArg(s, i)
    /\ s.command.fields[i].prompt \in {"validate", "never"}
    /\ ~s.command.fields[i].required

\* What may become of state s at its i-th field.
FieldResult(s, i, r) ==
  /\ DOMAIN r = {"state", "out"} /\ r.out \in {"go", "prompt", "fail", "error"}
  /\ r.state.command = s.command /\ r.state.form_retry = s.form_retry
  /\ r.out = "go" =>
       \E k \in i + 1..Len(s.command.fields) + 1 : Processed(r.state, k)
  /\ r.out = "prompt" => Pending(r.state)
  /\ r.out = "fail" => RetriesUsed(r.state)
  /\ r.out = "error" => NoPlace(r.state)
-----------------------------------------------------------------------------
(* One field.                                                              *)

\* What the definition of a command says of its fields.
LEMMA FieldTypes ==
  ASSUME NEW s, IsState(s)
  PROVE  /\ Len(s.command.fields) \in Nat /\ Fields(s) = 1..Len(s.command.fields)
         /\ s.command.nargs \in 0..Len(s.command.fields) /\ s.command.maxRetry \in Nat
         /\ \A i \in Fields(s) : /\ s.command.fields[i].prompt \in Settings
                                 /\ s.command.fields[i].maxRetry \in Nat
                                 /\ s.command.fields[i].required \in BOOLEAN
                                 /\ s.command.fields[i].default \in Texts
BY CommandsAreCommands DEF IsState, IsCommand, IsField, Fields, Texts

\* A value is stored in the place that there is, or in the extra fields.
LEMMA StoreIsSound ==
  ASSUME NEW s, NEW k \in Fields(s), Processed(s, k), NEW v \in Texts,
         isArg(s, k) => k \in Slots(s, k)
  PROVE  LET u == Store(s, k, v)
         IN  /\ Processed(u, k) /\ k \in Slots(u, k)
             /\ u.command = s.command /\ u.form_retry = s.form_retry
             /\ u.force_prompt = s.force_prompt /\ u.at = s.at /\ u.model = s.model
<1> DEFINE u == Store(s, k, v)
<1>1. IsState(s)
  BY DEF Processed
<1>2. /\ DOMAIN u = DOMAIN s /\ u.command = s.command /\ u.model = s.model
      /\ u.field_retry = s.field_retry /\ u.form_retry = s.form_retry
      /\ u.force_prompt = s.force_prompt /\ u.at = s.at /\ u.prompts = s.prompts
      /\ u.args \in Seq(Texts) /\ DOMAIN u.args = DOMAIN s.args
      /\ DOMAIN u.extra \subseteq Fields(s) /\ k \in Slots(u, k)
  <2>1. CASE isArg(s, k)
    <3>1. u = [s EXCEPT !.args[k] = v] /\ k \in DOMAIN s.args
      BY <2>1 DEF Store, Slots
    <3> HIDE DEF u
    <3>2. /\ DOMAIN u = DOMAIN s /\ u.command = s.command /\ u.model = s.model
          /\ u.field_retry = s.field_retry /\ u.form_retry = s.form_retry
          /\ u.force_prompt = s.force_prompt /\ u.at = s.at /\ u.prompts = s.prompts
          /\ u.extra = s.extra /\ u.args = [s.args EXCEPT ![k] = v]
      BY <1>1, <3>1 DEF IsState
    <3>3. u.args \in Seq(Texts) /\ DOMAIN u.args = DOMAIN s.args
      BY <1>1, <3>1, <3>2 DEF IsState
    <3> QED BY <1>1, <2>1, <3>1, <3>2, <3>3 DEF IsState, Slots, isArg
  <2>2. CASE ~isArg(s, k)
    <3>1. u = [s EXCEPT !.extra = With(@, k, v)]
      BY <2>2 DEF Store
    <3> HIDE DEF u
    <3>2. /\ DOMAIN u = DOMAIN s /\ u.command = s.command /\ u.model = s.model
          /\ u.field_retry = s.field_retry /\ u.form_retry = s.form_retry
          /\ u.force_prompt = s.force_prompt /\ u.at = s.at /\ u.prompts = s.prompts
          /\ u.args = s.args /\ u.extra = With(s.extra, k, v)
      BY <1>1, <3>1 DEF IsState
    <3>3. DOMAIN u.extra = DOMAIN s.extra \cup {k}
      BY <3>2 DEF With
    <3> QED BY <1>1, <2>2, <3>2, <3>3 DEF IsState, Slots, isArg
  <2> QED BY <2>1, <2>2
<1> HIDE DEF u
<1>3. IsState(u) /\ Fields(u) = Fields(s)
  BY <1>1, <1>2 DEF IsState, Fields
<1>4. FilledTo(u, k)
  BY <1>2 DEF Processed, FilledTo, isArg
<1>5. PromptedTo(u, k)
  BY <1>2, <1>3 DEF Processed, PromptedTo
<1>6. AskedTo(u, k)
  BY <1>2, <1>3 DEF Processed, AskedTo
<1>7. Processed(u, k)
  BY <1>2, <1>3, <1>4, <1>5, <1>6 DEF Processed
<1> QED BY <1>2, <1>7 DEF u

\* process_field() of a field that has a value.
LEMMA ProcessingAField ==
  ASSUME NEW s, NEW k \in Fields(s), Processed(s, k), k \in Slots(s, k), ~s.force_prompt
  PROVE  FieldResult(s, k, process_field(s, k))
<1> DEFINE f == s.command.fields[k]
           v == Value(s, k)
           prompted == v \notin f.parses \/ f.prompt \in {"validate", "always"}
           r == process_field(s, k)
           n == Len(s.command.fields)
<1>1. IsState(s)
  BY DEF Processed
<1>2. n \in Nat /\ Fields(s) = 1..n /\ f.maxRetry \in Nat /\ k \in 1..n
  BY <1>1, FieldTypes
<1>3. CASE v \in f.valid
  <2> DEFINE u == Passed(s, k)
  <2>1. r = Result(u, "go")
    BY <1>3 DEF process_field
  <2>2. /\ DOMAIN u = DOMAIN s /\ u.command = s.command /\ u.args = s.args
        /\ u.extra = s.extra /\ u.form_retry = s.form_retry /\ u.at = s.at
        /\ u.prompts = s.prompts /\ u.field_retry = 0
        /\ u.force_prompt = (s.force_prompt \/ s.form_retry > 0)
        /\ u.model = With(s.model, k, v)
    BY <1>1 DEF Passed, IsState
  <2> HIDE DEF u, v, f
  <2>3. /\ DOMAIN u.model = 1..k /\ u.model[k] = v
        /\ \A j \in 1..k - 1 : u.model[j] = s.model[j]
    <3>1. DOMAIN s.model = 1..k - 1
      BY DEF Processed, FilledTo
    <3> QED BY <1>2, <2>2, <3>1 DEF With
  <2>4. IsState(u) /\ Fields(u) = Fields(s)
    BY <1>1, <2>2 DEF IsState, Fields
  <2>5. FilledTo(u, k + 1)
    <3>1. (k + 1) - 1 = k /\ \A j \in 1..k : j \in 1..k - 1 \/ j = k
      BY <1>2
    <3>2. isArg(u, k) => k \in DOMAIN u.args
      BY <2>2 DEF Slots, isArg
    <3> QED BY <1>3, <2>2, <2>3, <3>1, <3>2 DEF Processed, FilledTo, isArg, f
  <2>6. PromptedTo(u, k + 1)
    <3>1. \A j \in Fields(s) : j > k => s.prompts[j] = 0
      BY DEF Processed, PromptedTo
    <3>2. \A j \in Fields(s) : s.prompts[j] <= 1 + s.command.fields[j].maxRetry
      BY DEF Processed, PromptedTo
    <3>3. \A j \in Fields(s) : s.command.fields[j].maxRetry \in Nat
      BY <1>1, FieldTypes
    <3> QED BY <1>2, <2>2, <2>4, <3>1, <3>2, <3>3 DEF PromptedTo
  <2>7. AskedTo(u, k + 1)
    <3>1. (k + 1) - 1 = k /\ \A j \in 1..k : j \in 1..k - 1 \/ j = k
      BY <1>2
    <3>2. s.form_retry > 0 => \A j \in 1..k : Asked(s.command.fields[j]) => s.prompts[j] > 0
      BY <3>1 DEF Processed, AskedTo
    <3> QED BY <2>2, <3>1, <3>2 DEF AskedTo
  <2>8. Processed(u, k + 1) /\ k + 1 \in k + 1..n + 1
    BY <1>2, <2>2, <2>4, <2>5, <2>6, <2>7 DEF Processed
  <2> QED BY <2>1, <2>2, <2>8 DEF FieldResult, Result
<1>4. CASE v \notin f.valid /\ prompted /\ may_retry(s, f)
  <2> DEFINE q == Retried(s)
             u == [q EXCEPT !.at = k, !.prompts[k] = @ + 1]
  <2>1. /\ DOMAIN q = DOMAIN s /\ q.command = s.command /\ q.args = s.args
        /\ q.extra = s.extra /\ q.model = s.model /\ q.form_retry = s.form_retry
        /\ q.force_prompt = s.force_prompt /\ q.prompts = s.prompts
        /\ q.field_retry = s.field_retry + 1
    BY <1>1 DEF Retried, IsState
  <2>2. r = Result(u, "prompt")
    <3>1. r = field_prompt(q, k)
      BY <1>4 DEF process_field
    <3>2. k \in Slots(q, k)
      BY <2>1 DEF Slots, isArg
    <3> QED BY <3>1, <3>2 DEF field_prompt
  <2> HIDE DEF q
  <2>3. /\ DOMAIN u = DOMAIN s /\ u.command = s.command /\ u.args = s.args
        /\ u.extra = s.extra /\ u.model = s.model /\ u.form_retry = s.form_retry
        /\ u.force_prompt = s.force_prompt /\ u.field_retry = s.field_retry + 1
        /\ u.at = k /\ u.prompts = [s.prompts EXCEPT ![k] = @ + 1]
    BY <1>1, <2>1 DEF IsState
  <2> HIDE DEF u, v, f
  <2>4. /\ u.prompts \in [Fields(s) -> Nat] /\ u.prompts[k] = s.prompts[k] + 1
        /\ \A j \in Fields(s) : j # k => u.prompts[j] = s.prompts[j]
    BY <1>1, <2>3 DEF IsState
  <2>5. IsState(u) /\ Fields(u) = Fields(s)
    BY <1>1, <2>3, <2>4 DEF IsState, Fields
  <2>6. FilledTo(u, k)
    BY <2>3 DEF Processed, FilledTo, isArg
  <2>7. PromptedTo(u, k)
    <3>1. s.field_retry \in Nat /\ s.field_retry < f.maxRetry
          /\ s.prompts[k] \in Nat /\ s.field_retry <= s.prompts[k]
          /\ s.prompts[k] <= 1 + s.field_retry
      BY <1>1, <1>4 DEF Processed, PromptedTo, may_retry, IsState
    <3>2. /\ \A j \in Fields(s) : s.prompts[j] <= 1 + s.command.fields[j].maxRetry
          /\ \A j \in Fields(s) : j > k => s.prompts[j] = 0
      BY DEF Processed, PromptedTo
    <3>3. k \in Slots(u, k)
      BY <2>3 DEF Slots, isArg
    <3>4. \A j \in Fields(u) : u.prompts[j] <= 1 + u.command.fields[j].maxRetry
      BY <1>2, <2>3, <2>4, <2>5, <3>1, <3>2 DEF f
    <3>5. \A j \in Fields(u) : j > k => u.prompts[j] = 0
      BY <1>2, <2>4, <2>5, <3>2
    <3> QED BY <1>2, <2>3, <2>4, <2>5, <3>1, <3>3, <3>4, <3>5 DEF PromptedTo, f
  <2>8. AskedTo(u, k)
    <3>1. \A j \in 1..k - 1 : j # k /\ j \in Fields(s)
      BY <1>2
    <3>2. u.prompts[k] > 0
      BY <1>1, <2>4 DEF IsState
    <3> QED BY <2>3, <2>4, <3>1, <3>2 DEF Processed, AskedTo
  <2>9. Pending(u)
    <3>1. k \in Slots(u, k)
      BY <2>3 DEF Slots, isArg
    <3> QED BY <1>2, <2>3, <2>5, <2>6, <2>7, <2>8, <3>1 DEF Pending, Processed
  <2> QED BY <2>2, <2>3, <2>9 DEF FieldResult, Result
<1>5. CASE v \notin f.valid /\ ~ (prompted /\ may_retry(s, f))
  <2>1. r = Result(s, "fail")
    BY <1>5 DEF process_field
  <2>2. RetriesUsed(s)
    <3> SUFFICES ASSUME NEW i \in Fields(s), DOMAIN s.model = 1..i - 1,
                        s.command.fields[i].prompt = "always"
                 PROVE  s.prompts[i] >= s.command.fields[i].maxRetry
      BY DEF RetriesUsed
    <3>1. i = k
      <4>1. 1..i - 1 = 1..k - 1 /\ i \in 1..n
        BY <1>2 DEF Processed, FilledTo
      <4>2. i \notin 1..i - 1 /\ k \notin 1..k - 1
        BY <1>2
      <4>3. ~ (i < k) /\ ~ (k < i)
        <5>1. i < k => i \in 1..k - 1
          BY <1>2, <4>1
        <5>2. k < i => k \in 1..i - 1
          BY <1>2, <4>1
        <5> QED BY <4>1, <4>2, <5>1, <5>2
      <4> QED BY <1>2, <4>1, <4>3
    <3>2. /\ s.field_retry >= f.maxRetry /\ s.field_retry <= s.prompts[k]
          /\ s.field_retry \in Nat /\ s.prompts[k] \in Nat
      BY <1>1, <1>2, <1>5, <3>1 DEF may_retry, Processed, PromptedTo, IsState
    <3> QED BY <1>2, <3>1, <3>2
  <2> QED BY <2>1, <2>2 DEF FieldResult, Result
<1> QED BY <1>3, <1>4, <1>5

\* missing(): a field without a value, or one that is to be given again.
LEMMA MissingAField ==
  ASSUME NEW s, NEW k \in Fields(s), Processed(s, k),
         k \notin Slots(s, k) \/ s.force_prompt
  PROVE  FieldResult(s, k, missing(s, k))
<1> DEFINE f == s.command.fields[k]
           u == [s EXCEPT !.force_prompt = FALSE]
           r == missing(s, k)
           n == Len(s.command.fields)
<1>1. IsState(s)
  BY DEF Processed
<1>2. /\ n \in Nat /\ Fields(s) = 1..n /\ k \in 1..n
      /\ f.maxRetry \in Nat /\ f.default \in Texts /\ f.prompt \in Settings
  BY <1>1, FieldTypes
<1>3. /\ DOMAIN u = DOMAIN s /\ u.command = s.command /\ u.args = s.args
      /\ u.extra = s.extra /\ u.model = s.model /\ u.form_retry = s.form_retry
      /\ u.prompts = s.prompts /\ u.field_retry = s.field_retry /\ u.at = s.at
      /\ u.force_prompt = FALSE
  BY <1>1 DEF IsState
<1>4. s.prompts[k] = 0 /\ s.field_retry = 0
  BY <1>1 DEF Processed, PromptedTo, IsState
<1>5. CASE Asked(f)
  <2> DEFINE a == Added(u, k)
             p == [a EXCEPT !.at = k, !.prompts[k] = @ + 1]
  <2>1. /\ DOMAIN a = DOMAIN s /\ a.command = s.command /\ a.model = s.model
        /\ a.form_retry = s.form_retry /\ a.prompts = s.prompts
        /\ a.field_retry = s.field_retry /\ a.force_prompt = FALSE
        /\ a.args \in Seq(Texts) /\ DOMAIN s.args \subseteq DOMAIN a.args
        /\ DOMAIN a.extra \subseteq Fields(s) /\ k \in Slots(a, k)
    <3>1. CASE isArg(s, k)
      <4>1. a = [u EXCEPT !.args = Append(@, f.default)]
        BY <1>3, <3>1 DEF Added, isArg
      <4> HIDE DEF a, u, f
      <4>2. /\ DOMAIN a = DOMAIN s /\ a.command = s.command /\ a.model = s.model
            /\ a.form_retry = s.form_retry /\ a.prompts = s.prompts
            /\ a.field_retry = s.field_retry /\ a.force_prompt = FALSE
            /\ a.args = Append(s.args, f.default) /\ a.extra = s.extra
        BY <1>1, <1>3, <4>1 DEF IsState
      <4>3. s.args \in Seq(Texts) /\ f.default \in Texts /\ Len(s.args) \in Nat
        BY <1>1, <1>2 DEF IsState
      <4>4. /\ a.args \in Seq(Texts) /\ DOMAIN s.args = 1..Len(s.args)
            /\ DOMAIN a.args = 1..Len(s.args) + 1
        BY <4>2, <4>3
      <4>5. k <= Len(s.args) + 1
        <5>1. CASE k = 1
          BY <4>3, <5>1
        <5>2. CASE k # 1
          <6>1. k - 1 \in 1..k - 1 /\ isArg(s, k - 1)
            BY <1>1, <1>2, <3>1, <5>2, FieldTypes DEF isArg
          <6>2. k - 1 \in DOMAIN s.args
            BY <6>1 DEF Processed, FilledTo
          <6> QED BY <1>2, <4>3, <4>4, <6>2
        <5> QED BY <5>1, <5>2
      <4>6. k \in DOMAIN a.args
        BY <1>2, <4>3, <4>4, <4>5
      <4> QED BY <1>1, <3>1, <4>2, <4>3, <4>4, <4>6 DEF IsState, Slots, isArg
    <3>2. CASE ~isArg(s, k)
      <4>1. a = [u EXCEPT !.extra = With(@, k, f.default)]
        BY <1>3, <3>2 DEF Added, Store, isArg
      <4> HIDE DEF a, u, f
      <4>2. /\ DOMAIN a = DOMAIN s /\ a.command = s.command /\ a.model = s.model
            /\ a.form_retry = s.form_retry /\ a.prompts = s.prompts
            /\ a.field_retry = s.field_retry /\ a.force_prompt = FALSE
            /\ a.args = s.args /\ a.extra = With(s.extra, k, f.default)
        BY <1>1, <1>3, <4>1 DEF IsState
      <4>3. DOMAIN a.extra = DOMAIN s.extra \cup {k}
        BY <4>2 DEF With
      <4> QED BY <1>1, <3>2, <4>2, <4>3 DEF IsState, Slots, isArg
    <3> QED BY <3>1, <3>2
  <2>2. r = Result(p, "prompt")
    <3>1. r = field_prompt(a, k)
      BY <1>5 DEF missing, Asked
    <3> HIDE DEF a
    <3> QED BY <2>1, <3>1 DEF field_prompt
  <2> HIDE DEF a, u
  <2>3. /\ DOMAIN p = DOMAIN s /\ p.command = s.command /\ p.model = s.model
        /\ p.form_retry = s.form_retry /\ p.args = a.args /\ p.extra = a.extra
        /\ p.force_prompt = FALSE /\ p.field_retry = s.field_retry /\ p.at = k
        /\ p.prompts = [s.prompts EXCEPT ![k] = @ + 1]
    BY <1>1, <2>1 DEF IsState
  <2> HIDE DEF p, f
  <2>4. /\ p.prompts \in [Fields(s) -> Nat] /\ p.prompts[k] = 1
        /\ \A j \in Fields(s) : j # k => p.prompts[j] = s.prompts[j]
    BY <1>1, <1>4, <2>3 DEF IsState
  <2>5. IsState(p) /\ Fields(p) = Fields(s)
    BY <1>1, <2>1, <2>3, <2>4 DEF IsState, Fields
  <2>6. FilledTo(p, k)
    BY <2>1, <2>3 DEF Processed, FilledTo, isArg
  <2>7. k \in Slots(p, k)
    BY <2>1, <2>3 DEF Slots, isArg
  <2>8. PromptedTo(p, k)
    <3>1. /\ \A j \in Fields(s) : s.prompts[j] <= 1 + s.command.fields[j].maxRetry
          /\ \A j \in Fields(s) : j > k => s.prompts[j] = 0
      BY DEF Processed, PromptedTo
    <3>2. \A j \in Fields(p) : p.prompts[j] <= 1 + p.command.fields[j].maxRetry
      BY <1>2, <2>3, <2>4, <2>5, <3>1 DEF f
    <3>3. \A j \in Fields(p) : j > k => p.prompts[j] = 0
      BY <1>2, <2>4, <2>5, <3>1
    <3> QED BY <1>2, <1>4, <2>3, <2>4, <2>5, <2>7, <3>2, <3>3 DEF PromptedTo, f
  <2>9. AskedTo(p, k)
    <3>1. \A j \in 1..k - 1 : j # k /\ j \in Fields(s)
      BY <1>2
    <3> QED BY <2>3, <2>4, <3>1 DEF Processed, AskedTo
  <2>10. Pending(p)
    BY <1>2, <2>3, <2>5, <2>6, <2>7, <2>8, <2>9 DEF Pending, Processed
  <2> QED BY <2>2, <2>3, <2>10 DEF FieldResult, Result
<1>6. CASE ~Asked(f) /\ f.required
  <2>1. r = Result(u, "fail")
    BY <1>6 DEF missing, Asked
  <2> HIDE DEF u
  <2>2. RetriesUsed(u)
    <3> SUFFICES ASSUME NEW i \in Fields(s), DOMAIN s.model = 1..i - 1,
                        s.command.fields[i].prompt = "always"
                 PROVE  FALSE
      BY <1>3 DEF RetriesUsed, Fields
    <3>1. i \in 1..n /\ 1..i - 1 = 1..k - 1
      BY <1>2 DEF Processed, FilledTo
    <3>2. i < k => i \in 1..k - 1
      BY <1>2, <3>1
    <3>3. k < i => k \in 1..i - 1
      BY <1>2, <3>1
    <3>4. i = k
      BY <1>2, <3>1, <3>2, <3>3
    <3> QED BY <1>6, <3>4 DEF Asked
  <2> QED BY <1>3, <2>1, <2>2 DEF FieldResult, Result
<1>7. CASE ~Asked(f) /\ ~f.required /\ isArg(s, k) /\ k \notin Slots(s, k)
  <2>1. r = Result(u, "error")
    BY <1>7 DEF missing, Asked
  <2> HIDE DEF u
  <2>2. NoPlace(u)
    <3>1. /\ DOMAIN u.model = 1..(k - 1) /\ isArg(u, k) /\ k \in Fields(u)
          /\ u.command.fields[k].prompt \in {"validate", "never"}
          /\ ~u.command.fields[k].required
      BY <1>2, <1>3, <1>7 DEF Processed, FilledTo, isArg, Fields, Asked, Settings
    <3> QED BY <3>1 DEF NoPlace
  <2> QED BY <1>3, <2>1, <2>2 DEF FieldResult, Result
<1>8. CASE ~Asked(f) /\ ~f.required /\ ~ (isArg(s, k) /\ k \notin Slots(s, k))
  <2> DEFINE w == Store(u, k, f.default)
  <2>1. r = process_field(w, k)
    BY <1>8 DEF missing, Asked
  <2> HIDE DEF u, f
  <2>2. IsState(u) /\ Fields(u) = Fields(s)
    BY <1>1, <1>3 DEF IsState, Fields
  <2>3. FilledTo(u, k)
    BY <1>3 DEF Processed, FilledTo, isArg
  <2>4. PromptedTo(u, k)
    BY <1>3, <1>4, <2>2 DEF Processed, PromptedTo
  <2>5. AskedTo(u, k)
    BY <1>3, <1>8 DEF Processed, AskedTo, f
  <2>6. Processed(u, k)
    BY <1>2, <1>3, <2>2, <2>3, <2>4, <2>5 DEF Processed
  <2>7. isArg(u, k) => k \in Slots(u, k)
    BY <1>3, <1>8 DEF isArg, Slots
  <2>8. /\ Processed(w, k) /\ k \in Slots(w, k)
        /\ w.command = u.command /\ w.form_retry = u.form_retry
        /\ w.force_prompt = u.force_prompt
    BY <1>2, <2>2, <2>6, <2>7, StoreIsSound
  <2> HIDE DEF w
  <2>9. k \in Fields(w)
    BY <1>3, <2>8 DEF Fields
  <2>10. FieldResult(w, k, r)
    BY <1>3, <2>1, <2>8, <2>9, ProcessingAField
  <2>11. w.command = s.command /\ w.form_retry = s.form_retry
    BY <1>3, <2>8
  <2> HIDE DEF r
  <2> QED BY <2>10, <2>11 DEF FieldResult, r
<1> QED BY <1>5, <1>6, <1>7, <1>8

\* The body of the loops.
LEMMA StepOfAField ==
  ASSUME NEW s, NEW k, Processed(s, k), NEW i \in Fields(s), i <= k
  PROVE  FieldResult(s, i, Step(s, i))
<1>1. IsState(s) /\ DOMAIN s.model = 1..k - 1
  BY DEF Processed, FilledTo
<1>2. /\ Len(s.command.fields) \in Nat /\ Fields(s) = 1..Len(s.command.fields)
      /\ k \in 1..Len(s.command.fields) + 1
  BY <1>1, FieldTypes DEF Processed
<1>3. CASE i < k
  <2>1. Step(s, i) = Result(s, "go")
    BY <1>1, <1>2, <1>3 DEF Step
  <2>2. k \in i + 1..Len(s.command.fields) + 1
    BY <1>2, <1>3
  <2> QED BY <2>1, <2>2 DEF FieldResult, Result
<1>4. CASE i = k
  <2>1. i \notin DOMAIN s.model
    BY <1>1, <1>2, <1>4
  <2>2. CASE i \in Slots(s, i) /\ ~s.force_prompt
    <3>1. Step(s, i) = process_field(s, i)
      BY <2>1, <2>2 DEF Step
    <3> QED BY <1>4, <2>2, <3>1, ProcessingAField
  <2>3. CASE ~ (i \in Slots(s, i) /\ ~s.force_prompt)
    <3>1. Step(s, i) = missing(s, i)
      BY <2>1, <2>3 DEF Step
    <3> QED BY <1>4, <2>3, <3>1, MissingAField
  <2> QED BY <2>2, <2>3
<1> QED BY <1>2, <1>3, <1>4
-----------------------------------------------------------------------------
(* All fields, one after the other.                                        *)

AfterField(results, i) == {IF r.out = "go" THEN Step(r.state, i) ELSE r : r \in results}

\* What Processing(s)[i] is defined as, g being Processing(s).
ProcessingAt(g, s, i) == IF i = 0 THEN {Result(s, "go")} ELSE AfterField(g[i - 1], i)

\* The recursion has an end: a command has finitely many fields.
LEMMA ProcessingIsDefined ==
  ASSUME NEW s, Len(s.command.fields) \in Nat
  PROVE  \A i \in 0..Len(s.command.fields) : Processing(s)[i] = ProcessingAt(Processing(s), s, i)
<1> DEFINE n == Len(s.command.fields)
           At(g, i) == ProcessingAt(g, s, i)
           T == {k \in Nat : \E g : \A i \in 0..n : i <= k => g[i] = At(g, i)}
<1>1. n \in Nat
  OBVIOUS
<1>2. ASSUME NEW g, NEW h, NEW i \in 0..n, i > 0 => g[i - 1] = h[i - 1]
      PROVE  At(g, i) = At(h, i)
  <2>1. CASE i = 0
    BY <2>1 DEF ProcessingAt
  <2>2. CASE i # 0
    <3>1. g[i - 1] = h[i - 1]
      BY <1>1, <1>2, <2>2
    <3> QED BY <2>2, <3>1, Zenon DEF ProcessingAt
  <2> QED BY <2>1, <2>2
<1> HIDE DEF n, At
<1>3. 0 \in T
  <2> DEFINE h == [i \in 0..n |-> At(0, i)]
  <2>1. ASSUME NEW i \in 0..n, i <= 0 PROVE h[i] = At(h, i)
    <3>1. At(0, i) = At(h, i)
      <4> HIDE DEF h
      <4> QED BY <1>2, <2>1
    <3> QED BY <3>1
  <2> HIDE DEF h
  <2> QED BY <2>1
<1>4. ASSUME NEW k \in T PROVE k + 1 \in T
  <2>1. PICK g : \A i \in 0..n : i <= k => g[i] = At(g, i)
    OBVIOUS
  <2> DEFINE h == [i \in 0..n |-> At(g, i)]
  <2>2. ASSUME NEW i \in 0..n, i <= k + 1 PROVE h[i] = At(h, i)
    <3>1. i > 0 => h[i - 1] = g[i - 1]
      <4> SUFFICES ASSUME i > 0 PROVE h[i - 1] = g[i - 1]
        OBVIOUS
      <4>1. i - 1 \in 0..n /\ i - 1 <= k
        BY <1>1, <2>2
      <4>2. g[i - 1] = At(g, i - 1)
        BY <2>1, <4>1
      <4> QED BY <4>1, <4>2
    <3>2. At(g, i) = At(h, i)
      <4> HIDE DEF h
      <4> QED BY <1>2, <3>1
    <3> QED BY <3>2
  <2>3. k + 1 \in Nat
    OBVIOUS
  <2> HIDE DEF h
  <2> QED BY <2>2, <2>3
<1>5. PICK g : \A i \in 0..n : g[i] = At(g, i)
  <2>1. T = Nat
    <3> HIDE DEF T
    <3>1. T \in SUBSET Nat
      BY DEF T
    <3> QED BY <1>3, <1>4, <3>1, SetInduction
  <2>2. n \in T
    BY <1>1, <2>1
  <2>3. PICK g : \A i \in 0..n : i <= n => g[i] = At(g, i)
    BY <2>2
  <2>4. \A i \in 0..n : i <= n
    BY <1>1
  <2> QED BY <2>3, <2>4
<1> DEFINE H == [i \in 0..n |-> g[i]]
<1>6. H = [i \in 0..n |-> At(H, i)]
  <2>1. ASSUME NEW i \in 0..n PROVE H[i] = At(H, i)
    <3>1. i > 0 => H[i - 1] = g[i - 1]
      BY <1>1
    <3>2. At(g, i) = At(H, i)
      <4> HIDE DEF H
      <4> QED BY <1>2, <3>1
    <3> QED BY <1>5, <3>2
  <2> QED BY <2>1
<1>7. Processing(s) = CHOOSE f : f = [i \in 0..n |-> At(f, i)]
  BY DEF Processing, ProcessingAt, AfterField, n, At
<1>8. Processing(s) = [i \in 0..n |-> At(Processing(s), i)]
  <2> HIDE DEF H
  <2> QED BY <1>6, <1>7, Zenon
<1>9. ASSUME NEW i \in 0..n PROVE Processing(s)[i] = At(Processing(s), i)
  BY <1>8, Zenon
<1> QED BY <1>9, Zenon DEF n, At

\* process_args() and process_extra(), wherever the form was left: they go on
\* with a complete form, or wait for input, or end.
LEMMA ProcessingIsSound ==
  ASSUME NEW s, NEW k, Processed(s, k), NEW r \in process_fields(s)
  PROVE  FieldResult(s, Len(s.command.fields), r)
<1> DEFINE n == Len(s.command.fields)
           P == Processing(s)
           T == {i \in Nat : i <= n => \A q \in P[i] : FieldResult(s, i, q)}
<1>1. n \in Nat /\ Fields(s) = 1..n
  BY FieldTypes DEF Processed
<1>2. \A i \in 0..n : P[i] = ProcessingAt(P, s, i)
  BY <1>1, ProcessingIsDefined
<1> HIDE DEF n, P
<1>3. 0 \in T
  <2>1. P[0] = {Result(s, "go")}
    BY <1>1, <1>2 DEF ProcessingAt
  <2>2. k \in 0 + 1..n + 1
    BY DEF Processed, n
  <2>3. FieldResult(s, 0, Result(s, "go"))
    BY <2>2 DEF FieldResult, Result, n
  <2> QED BY <2>1, <2>3
<1>4. ASSUME NEW i \in T PROVE i + 1 \in T
  <2>1. i + 1 \in Nat
    OBVIOUS
  <2> SUFFICES ASSUME i + 1 <= n, NEW q \in P[i + 1] PROVE FieldResult(s, i + 1, q)
    BY <2>1
  <2>2. /\ i \in Nat /\ i <= n /\ i + 1 \in 0..n /\ i + 1 \in 1..n
        /\ i + 1 # 0 /\ (i + 1) - 1 = i
    BY <1>1
  <2>3. P[i + 1] = AfterField(P[i], i + 1)
    <3>1. P[i + 1] = ProcessingAt(P, s, i + 1)
      BY <1>2, <2>2
    <3> QED BY <2>2, <3>1 DEF ProcessingAt
  <2>4. PICK p \in P[i] : q = IF p.out = "go" THEN Step(p.state, i + 1) ELSE p
    BY <2>3 DEF AfterField
  <2>5. FieldResult(s, i, p)
    BY <2>2
  <2>6. CASE p.out = "go"
    <3>1. PICK m \in i + 1..n + 1 : Processed(p.state, m)
      BY <2>5, <2>6 DEF FieldResult, n
    <3>2. p.state.command = s.command /\ p.state.form_retry = s.form_retry
      BY <2>5 DEF FieldResult
    <3>3. i + 1 \in Fields(p.state) /\ i + 1 <= m
      BY <1>1, <2>2, <3>1, <3>2 DEF Fields
    <3>4. FieldResult(p.state, i + 1, Step(p.state, i + 1))
      BY <3>1, <3>3, StepOfAField
    <3> QED BY <2>4, <2>6, <3>2, <3>4 DEF FieldResult
  <2>7. CASE p.out # "go"
    <3>1. q = p
      BY <2>4, <2>7
    <3> QED BY <2>5, <2>7, <3>1 DEF FieldResult
  <2> QED BY <2>6, <2>7
<1>5. T = Nat
  <2> HIDE DEF T
  <2>1. T \in SUBSET Nat
    BY DEF T
  <2> QED BY <1>3, <1>4, <2>1, SetInduction
<1>6. n \in T /\ n <= n
  BY <1>1, <1>5
<1>7. r \in P[n]
  BY DEF process_fields, P, n
<1> QED BY <1>6, <1>7 DEF n
-----------------------------------------------------------------------------
(* The form, again and again.                                              *)

\* What is executed is complete and valid (ExecutedIsValid), and if the form
\* was begun again every field was asked for since (RefusedIsAskedAgain).
Executed(s) ==
  /\ DOMAIN s.model = Fields(s)
  /\ \A i \in Fields(s) : s.model[i] \in s.command.fields[i].valid
  /\ form_valid(s)
  /\ s.form_retry > 0 =>
       \A i \in Fields(s) : Asked(s.command.fields[i]) => s.prompts[i] > 0

\* What may become of the command of state s.
RoundResult(s, r) ==
  /\ r.out \in {"again", "execute", "prompt", "fail", "error"}
  /\ r.state.command = s.command
  /\ r.out = "again" => Processed(r.state, 1)
  /\ r.out = "execute" => Executed(r.state)
  /\ r.out = "prompt" => Pending(r.state)
  /\ r.out = "fail" => RetriesUsed(r.state)
  /\ r.out = "error" => NoPlace(r.state)

\* do_validate() of a complete form.
LEMMA ValidatingIsSound ==
  ASSUME NEW s, Processed(s, Len(s.command.fields) + 1)
  PROVE  /\ RoundResult(s, do_validate(s))
         /\ do_validate(s).out = "again" => do_validate(s).state.form_retry = s.form_retry + 1
<1> DEFINE n == Len(s.command.fields)
           b == BegunAgain(s)
<1>1. IsState(s)
  BY DEF Processed
<1>2. n \in Nat /\ Fields(s) = 1..n /\ (n + 1) - 1 = n /\ n + 1 \notin Fields(s)
  BY <1>1, FieldTypes
<1>3. DOMAIN s.model = Fields(s)
  BY <1>2 DEF Processed, FilledTo
<1>4. CASE form_valid(s)
  <2>1. do_validate(s) = Result(s, "execute")
    BY <1>4 DEF do_validate
  <2>2. \A i \in 1..n : s.model[i] \in s.command.fields[i].valid
    BY <1>2 DEF Processed, FilledTo
  <2>3. s.form_retry > 0 =>
          \A i \in 1..n : Asked(s.command.fields[i]) => s.prompts[i] > 0
    BY <1>2 DEF Processed, AskedTo
  <2> QED BY <1>2, <1>3, <1>4, <2>1, <2>2, <2>3 DEF RoundResult, Executed, Result
<1>5. CASE ~form_valid(s) /\ s.form_retry < s.command.maxRetry
  <2>1. do_validate(s) = Result(b, "again")
    BY <1>5 DEF do_validate
  <2>2. /\ DOMAIN b = DOMAIN s /\ b.command = s.command /\ b.args = s.args
        /\ b.extra = s.extra /\ b.at = s.at /\ b.field_retry = s.field_retry
        /\ b.form_retry = s.form_retry + 1 /\ b.force_prompt = TRUE
        /\ DOMAIN b.model = {} /\ b.prompts = [i \in DOMAIN s.prompts |-> 0]
    BY <1>1 DEF BegunAgain, IsState
  <2> HIDE DEF b
  <2>3. /\ b.prompts \in [Fields(s) -> Nat]
        /\ \A i \in Fields(s) : b.prompts[i] = 0
    BY <1>1, <2>2 DEF IsState
  <2>4. IsState(b) /\ Fields(b) = Fields(s)
    <3>1. b.form_retry \in 0..s.command.maxRetry
      <4>1. s.command.maxRetry \in Nat /\ s.form_retry \in Nat
        BY <1>1, FieldTypes DEF IsState
      <4> QED BY <1>5, <2>2, <4>1
    <3>2. Fields(b) = Fields(s)
      BY <2>2 DEF Fields
    <3> QED BY <1>1, <2>2, <2>3, <3>1, <3>2 DEF IsState
  <2>5. FilledTo(b, 1)
    <3>1. 1..1 - 1 = {}
      OBVIOUS
    <3> QED BY <2>2, <3>1 DEF FilledTo
  <2>6. PromptedTo(b, 1)
    <3>1. s.field_retry = 0
      BY <1>2 DEF Processed, PromptedTo
    <3>2. \A j \in Fields(s) : s.command.fields[j].maxRetry \in Nat
      BY <1>1, FieldTypes
    <3> QED BY <2>2, <2>3, <2>4, <3>1, <3>2 DEF PromptedTo
  <2>7. AskedTo(b, 1)
    <3>1. 1..1 - 1 = {}
      OBVIOUS
    <3> QED BY <2>2, <3>1 DEF AskedTo
  <2>8. Processed(b, 1)
    <3>1. 1 \in 1..n + 1
      BY <1>2
    <3> QED BY <2>2, <2>4, <2>5, <2>6, <2>7, <3>1 DEF Processed
  <2> QED BY <2>1, <2>2, <2>8 DEF RoundResult, Result
<1>6. CASE ~form_valid(s) /\ ~ (s.form_retry < s.command.maxRetry)
  <2>1. do_validate(s) = Result(s, "fail")
    BY <1>6 DEF do_validate
  <2>2. RetriesUsed(s)
    BY <1>3 DEF RetriesUsed
  <2> QED BY <2>1, <2>2 DEF RoundResult, Result
<1> QED BY <1>4, <1>5, <1>6

\* One time through the form.
LEMMA RoundIsSound ==
  ASSUME NEW s, NEW k, Processed(s, k), NEW r \in Round(Result(s, "again"))
  PROVE  /\ RoundResult(s, r)
         /\ r.out = "again" => r.state.form_retry = s.form_retry + 1
<1>1. PICK p \in process_fields(s) : r = IF p.out = "go" THEN do_validate(p.state) ELSE p
  BY DEF Round, Result
<1>2. FieldResult(s, Len(s.command.fields), p)
  BY ProcessingIsSound
<1>3. CASE p.out = "go"
  <2>1. PICK m \in Len(s.command.fields) + 1..Len(s.command.fields) + 1 : Processed(p.state, m)
    BY <1>2, <1>3 DEF FieldResult
  <2>2. m = Len(s.command.fields) + 1
    BY FieldTypes DEF Processed
  <2>3. p.state.command = s.command /\ p.state.form_retry = s.form_retry
    BY <1>2 DEF FieldResult
  <2>4. /\ RoundResult(p.state, do_validate(p.state))
        /\ do_validate(p.state).out = "again"
             => do_validate(p.state).state.form_retry = p.state.form_retry + 1
    BY <2>1, <2>2, <2>3, ValidatingIsSound
  <2> QED BY <1>1, <1>3, <2>3, <2>4 DEF RoundResult
<1>4. CASE p.out # "go"
  BY <1>1, <1>2, <1>4 DEF FieldResult, RoundResult
<1> QED BY <1>3, <1>4

NextRound(results) == UNION {Round(r) : r \in results}

\* What Rounds(s)[i] is defined as, g being Rounds(s).
RoundsAt(g, s, i) == IF i = 0 THEN {Result(s, "again")} ELSE NextRound(g[i - 1])

\* The recursion has an end: a form is begun again finitely often.
LEMMA RoundsAreDefined ==
  ASSUME NEW s, s.command.maxRetry \in Nat
  PROVE  \A i \in 0..s.command.maxRetry + 1 : Rounds(s)[i] = RoundsAt(Rounds(s), s, i)
<1> DEFINE n == s.command.maxRetry + 1
           At(g, i) == RoundsAt(g, s, i)
           T == {k \in Nat : \E g : \A i \in 0..n : i <= k => g[i] = At(g, i)}
<1>1. n \in Nat
  OBVIOUS
<1>2. ASSUME NEW g, NEW h, NEW i \in 0..n, i > 0 => g[i - 1] = h[i - 1]
      PROVE  At(g, i) = At(h, i)
  <2>1. CASE i = 0
    BY <2>1 DEF RoundsAt
  <2>2. CASE i # 0
    <3>1. g[i - 1] = h[i - 1]
      BY <1>1, <1>2, <2>2
    <3> QED BY <2>2, <3>1, Zenon DEF RoundsAt
  <2> QED BY <2>1, <2>2
<1> HIDE DEF n, At
<1>3. 0 \in T
  <2> DEFINE h == [i \in 0..n |-> At(0, i)]
  <2>1. ASSUME NEW i \in 0..n, i <= 0 PROVE h[i] = At(h, i)
    <3>1. At(0, i) = At(h, i)
      <4> HIDE DEF h
      <4> QED BY <1>2, <2>1
    <3> QED BY <3>1
  <2> HIDE DEF h
  <2> QED BY <2>1
<1>4. ASSUME NEW k \in T PROVE k + 1 \in T
  <2>1. PICK g : \A i \in 0..n : i <= k => g[i] = At(g, i)
    OBVIOUS
  <2> DEFINE h == [i \in 0..n |-> At(g, i)]
  <2>2. ASSUME NEW i \in 0..n, i <= k + 1 PROVE h[i] = At(h, i)
    <3>1. i > 0 => h[i - 1] = g[i - 1]
      <4> SUFFICES ASSUME i > 0 PROVE h[i - 1] = g[i - 1]
        OBVIOUS
      <4>1. i - 1 \in 0..n /\ i - 1 <= k
        BY <1>1, <2>2
      <4>2. g[i - 1] = At(g, i - 1)
        BY <2>1, <4>1
      <4> QED BY <4>1, <4>2
    <3>2. At(g, i) = At(h, i)
      <4> HIDE DEF h
      <4> QED BY <1>2, <3>1
    <3> QED BY <3>2
  <2>3. k + 1 \in Nat
    OBVIOUS
  <2> HIDE DEF h
  <2> QED BY <2>2, <2>3
<1>5. PICK g : \A i \in 0..n : g[i] = At(g, i)
  <2>1. T = Nat
    <3> HIDE DEF T
    <3>1. T \in SUBSET Nat
      BY DEF T
    <3> QED BY <1>3, <1>4, <3>1, SetInduction
  <2>2. n \in T
    BY <1>1, <2>1
  <2>3. PICK g : \A i \in 0..n : i <= n => g[i] = At(g, i)
    BY <2>2
  <2>4. \A i \in 0..n : i <= n
    BY <1>1
  <2> QED BY <2>3, <2>4
<1> DEFINE H == [i \in 0..n |-> g[i]]
<1>6. H = [i \in 0..n |-> At(H, i)]
  <2>1. ASSUME NEW i \in 0..n PROVE H[i] = At(H, i)
    <3>1. i > 0 => H[i - 1] = g[i - 1]
      BY <1>1
    <3>2. At(g, i) = At(H, i)
      <4> HIDE DEF H
      <4> QED BY <1>2, <3>1
    <3> QED BY <1>5, <3>2
  <2> QED BY <2>1
<1>7. Rounds(s) = CHOOSE f : f = [i \in 0..n |-> At(f, i)]
  BY DEF Rounds, RoundsAt, NextRound, n, At
<1>8. Rounds(s) = [i \in 0..n |-> At(Rounds(s), i)]
  <2> HIDE DEF H
  <2> QED BY <1>6, <1>7, Zenon
<1>9. ASSUME NEW i \in 0..n PROVE Rounds(s)[i] = At(Rounds(s), i)
  BY <1>8, Zenon
<1> QED BY <1>9, Zenon DEF n, At

\* process_command(): the command is executed, waits for input, or has ended,
\* and never is to be begun once more.
LEMMA ProcessIsSound ==
  ASSUME NEW s, NEW k, Processed(s, k), NEW r \in process_command(s)
  PROVE  RoundResult(s, r) /\ r.out # "again"
<1> DEFINE n == s.command.maxRetry + 1
           R == Rounds(s)
           Good(q, i) == /\ RoundResult(s, q) \/ (i = 0 /\ q = Result(s, "again"))
                         /\ q.out = "again" => /\ \E m : Processed(q.state, m)
                                               /\ q.state.form_retry >= i
           T == {i \in Nat : i <= n => \A q \in R[i] : Good(q, i)}
<1>1. n \in Nat /\ n > 0 /\ s.command.maxRetry \in Nat /\ s.form_retry \in Nat
  BY FieldTypes DEF Processed, IsState
<1>2. \A i \in 0..n : R[i] = RoundsAt(R, s, i)
  BY <1>1, RoundsAreDefined
<1> HIDE DEF n, R
<1>3. 0 \in T
  <2>1. R[0] = {Result(s, "again")}
    BY <1>1, <1>2 DEF RoundsAt
  <2>2. Good(Result(s, "again"), 0)
    BY <1>1 DEF Result
  <2> HIDE DEF Good
  <2> QED BY <2>1, <2>2
<1>4. ASSUME NEW i \in T PROVE i + 1 \in T
  <2>1. i + 1 \in Nat
    OBVIOUS
  <2> SUFFICES ASSUME i + 1 <= n, NEW q \in R[i + 1] PROVE Good(q, i + 1)
    <3> HIDE DEF Good
    <3> QED BY <2>1
  <2>2. i \in Nat /\ i <= n /\ i + 1 \in 0..n /\ i + 1 # 0 /\ (i + 1) - 1 = i
    BY <1>1
  <2>3. R[i + 1] = NextRound(R[i])
    <3>1. R[i + 1] = RoundsAt(R, s, i + 1)
      BY <1>2, <2>2
    <3> QED BY <2>2, <3>1 DEF RoundsAt
  <2>4. PICK p \in R[i] : q \in Round(p)
    BY <2>3 DEF NextRound
  <2>5. Good(p, i)
    <3> HIDE DEF Good
    <3> QED BY <2>2
  <2>6. CASE p.out = "again"
    <3>1. PICK m : Processed(p.state, m)
      BY <2>5, <2>6
    <3>2. q \in Round(Result(p.state, "again"))
      BY <2>4, <2>6 DEF Round, Result
    <3>3. /\ RoundResult(p.state, q)
          /\ q.out = "again" => q.state.form_retry = p.state.form_retry + 1
      BY <3>1, <3>2, RoundIsSound
    <3>4. p.state.command = s.command
      BY <2>5 DEF RoundResult, Result
    <3>5. RoundResult(s, q)
      BY <3>3, <3>4 DEF RoundResult
    <3>6. q.out = "again" => Processed(q.state, 1)
      BY <3>3 DEF RoundResult
    <3>7. p.state.form_retry \in Nat /\ p.state.form_retry >= i
      BY <2>5, <2>6, <3>1, FieldTypes DEF Processed, IsState
    <3> QED BY <2>2, <3>3, <3>5, <3>6, <3>7
  <2>7. CASE p.out # "again"
    <3>1. q = p
      BY <2>4, <2>7 DEF Round
    <3>2. RoundResult(s, p)
      BY <2>5, <2>7 DEF Result
    <3> QED BY <2>7, <3>1, <3>2
  <2> QED BY <2>6, <2>7
<1>5. T = Nat
  <2> HIDE DEF T
  <2>1. T \in SUBSET Nat
    BY DEF T
  <2> QED BY <1>3, <1>4, <2>1, SetInduction
<1>6. Good(r, n)
  <2>1. n \in T /\ n <= n
    <3> HIDE DEF T
    <3> QED BY <1>1, <1>5
  <2>2. r \in R[n]
    BY DEF process_command, R, n
  <2> HIDE DEF Good
  <2> QED BY <2>1, <2>2
<1>7. RoundResult(s, r)
  BY <1>1, <1>6
<1>8. ASSUME r.out = "again" PROVE FALSE
  <2>1. PICK m : Processed(r.state, m)
    BY <1>6, <1>8
  <2>2. r.state.form_retry \in 0..r.state.command.maxRetry
    BY <2>1 DEF Processed, IsState
  <2>3. r.state.command = s.command
    BY <1>7 DEF RoundResult
  <2>4. r.state.form_retry >= n
    BY <1>6, <1>8
  <2> QED BY <1>1, <2>2, <2>3, <2>4 DEF n
<1> QED BY <1>7, <1>8
-----------------------------------------------------------------------------
(* Commands at one another's prompts.                                      *)

\* The commands that are open wait for input, and the one that ended last ended
\* the way its result says.
Inv ==
  /\ \E S : open \in Seq(S)
  /\ Len(open) <= MaxOpen
  /\ \A n \in DOMAIN open : Pending(open[n])
  /\ ended.out \in {"none", "execute", "fail", "error"}
  /\ ended.out = "execute" => Executed(ended.state)
  /\ ended.out = "fail" => RetriesUsed(ended.state)
  /\ ended.out = "error" => NoPlace(ended.state)

\* A command before its first field.
LEMMA BegunIsSound ==
  ASSUME NEW c \in Commands, NEW args \in SeqOf(Texts, c.maxArgs)
  PROVE  Processed(NewState(c, args), 1)
<1> DEFINE s == NewState(c, args)
           n == Len(c.fields)
<1>1. /\ DOMAIN s = {"command", "args", "extra", "model", "field_retry", "form_retry",
                     "force_prompt", "at", "prompts"}
      /\ s.command = c /\ s.args = args /\ DOMAIN s.extra = {} /\ DOMAIN s.model = {}
      /\ s.field_retry = 0 /\ s.form_retry = 0 /\ s.force_prompt = FALSE
      /\ s.prompts = [i \in DOMAIN c.fields |-> 0]
  BY DEF NewState
<1> HIDE DEF s
<1>2. args \in Seq(Texts)
  BY DEF SeqOf
<1>3. Fields(s) = DOMAIN c.fields
  BY <1>1 DEF Fields
<1>4. c.maxRetry \in Nat /\ n \in Nat /\ DOMAIN c.fields = 1..n
  BY CommandsAreCommands DEF IsCommand
<1>5. IsState(s)
  <2>1. s.prompts \in [Fields(s) -> Nat]
    BY <1>1, <1>3
  <2>2. s.form_retry \in 0..s.command.maxRetry
    BY <1>1, <1>4
  <2> QED BY <1>1, <1>2, <2>1, <2>2 DEF IsState
<1>6. FilledTo(s, 1)
  <2>1. 1..1 - 1 = {}
    OBVIOUS
  <2> QED BY <1>1, <2>1 DEF FilledTo
<1>7. PromptedTo(s, 1)
  <2>1. \A i \in Fields(s) : s.command.fields[i].maxRetry \in Nat
    BY <1>5, FieldTypes
  <2> QED BY <1>1, <1>3, <2>1 DEF PromptedTo
<1>8. AskedTo(s, 1)
  BY <1>1 DEF AskedTo
<1>9. 1 \in 1..Len(s.command.fields) + 1
  BY <1>1, <1>4
<1> QED BY <1>5, <1>6, <1>7, <1>8, <1>9 DEF Processed, s

\* What processing leaves.
LEMMA LeavingIsSound ==
  ASSUME NEW S, NEW rest \in Seq(S), Len(rest) + 1 <= MaxOpen,
         \A n \in DOMAIN rest : Pending(rest[n]),
         NEW s, NEW k, Processed(s, k), NEW r \in process_command(s), Leave(rest, r)
  PROVE  Inv'
<1>1. RoundResult(s, r) /\ r.out # "again"
  BY ProcessIsSound
<1>2. CASE r.out = "prompt"
  <2>1. open' = Append(rest, r.state) /\ ended' = NoEnd
    BY <1>2 DEF Leave
  <2>2. /\ Append(rest, r.state) \in Seq(S \cup {r.state})
        /\ Len(Append(rest, r.state)) = Len(rest) + 1
        /\ \A n \in DOMAIN Append(rest, r.state) :
             \/ n \in DOMAIN rest /\ Append(rest, r.state)[n] = rest[n]
             \/ Append(rest, r.state)[n] = r.state
    <3>1. rest \in Seq(S \cup {r.state})
      OBVIOUS
    <3> QED BY <3>1
  <2>3. Pending(r.state)
    BY <1>1, <1>2 DEF RoundResult
  <2>4. \A n \in DOMAIN open' : Pending(open'[n])
    BY <2>1, <2>2, <2>3
  <2>5. /\ \E U : open' \in Seq(U)
        /\ Len(open') <= MaxOpen
    BY <2>1, <2>2
  <2>6. ended'.out = "none"
    BY <2>1 DEF NoEnd
  <2> QED BY <2>4, <2>5, <2>6 DEF Inv
<1>3. CASE r.out # "prompt"
  <2>1. open' = rest /\ ended' = r
    BY <1>3 DEF Leave
  <2>2. Len(rest) <= MaxOpen
    BY BoundIsANumber
  <2>3. /\ r.out \in {"execute", "fail", "error"}
        /\ r.out = "execute" => Executed(r.state)
        /\ r.out = "fail" => RetriesUsed(r.state)
        /\ r.out = "error" => NoPlace(r.state)
    BY <1>1, <1>3 DEF RoundResult
  <2>4. \E U : open' \in Seq(U)
    BY <2>1
  <2>5. \A n \in DOMAIN open' : Pending(open'[n])
    BY <2>1
  <2> QED BY <2>1, <2>2, <2>3, <2>4, <2>5 DEF Inv
<1> QED BY <1>2, <1>3

\* A command is given, at a prompt or not.
LEMMA DoCommandIsSound ==
  ASSUME Inv, NEW c \in Commands, NEW args \in SeqOf(Texts, c.maxArgs), do_command(c, args)
  PROVE  Inv'
<1>1. PICK S : open \in Seq(S)
  BY DEF Inv
<1>2. PICK r \in process_command(NewState(c, args)) : Leave(open, r)
  BY DEF do_command
<1>3. Len(open) + 1 <= MaxOpen /\ \A n \in DOMAIN open : Pending(open[n])
  BY <1>1, BoundIsANumber DEF do_command, Inv
<1> QED BY <1>1, <1>2, <1>3, BegunIsSound, LeavingIsSound

\* The prompt on top is answered.
LEMMA FieldInputIsSound ==
  ASSUME Inv, NEW input \in Texts \cup {Blanks}, field_input(input)
  PROVE  Inv'
<1> DEFINE s == Last(open)
           entered == IF input = Empty THEN s ELSE Store(s, s.at, Trimmed(input))
<1>1. PICK S : open \in Seq(S)
  BY DEF Inv
<1>2. PICK r \in process_command(entered) : Leave(Front(open), r)
  BY Zenon DEF field_input
<1>3. Len(open) \in Nat /\ Len(open) > 0 /\ DOMAIN open = 1..Len(open)
  BY <1>1 DEF field_input
<1>4. s = open[Len(open)]
  BY DEF Last
<1>5. Pending(s)
  BY <1>3, <1>4 DEF Inv
<1>6. /\ Front(open) \in Seq(S) /\ Len(Front(open)) + 1 = Len(open)
      /\ \A n \in DOMAIN Front(open) : Pending(Front(open)[n])
  <2>1. Front(open) = SubSeq(open, 1, Len(open) - 1)
    BY DEF Front
  <2>2. /\ Front(open) \in Seq(S) /\ Len(Front(open)) = Len(open) - 1
        /\ \A n \in 1..Len(open) - 1 : Front(open)[n] = open[n]
    BY <1>1, <1>3, <2>1
  <2>3. DOMAIN Front(open) = 1..Len(open) - 1
    BY <2>2
  <2>4. \A n \in 1..Len(open) - 1 : n \in DOMAIN open
    BY <1>3
  <2>5. \A n \in DOMAIN open : Pending(open[n])
    BY DEF Inv
  <2> QED BY <1>3, <2>2, <2>3, <2>4, <2>5
<1> HIDE DEF s
<1>7. Trimmed(input) \in Texts
  BY DEF Trimmed, Texts
<1>8. Processed(entered, s.at)
  <2>1. CASE input = Empty
    BY <1>5, <2>1 DEF Pending
  <2>2. CASE input # Empty
    <3>1. entered = Store(s, s.at, Trimmed(input))
      BY <2>2
    <3>2. s.at \in Fields(s) /\ s.at \in Slots(s, s.at) /\ Processed(s, s.at)
      BY <1>5 DEF Pending
    <3> HIDE DEF entered
    <3> QED BY <1>7, <3>1, <3>2, StoreIsSound
  <2> QED BY <2>1, <2>2
<1>9. Len(Front(open)) + 1 <= MaxOpen
  BY <1>6 DEF Inv
<1> HIDE DEF entered
<1> QED BY <1>2, <1>6, <1>8, <1>9, LeavingIsSound

LEMMA InvHolds == Spec => []Inv
<1>1. Init => Inv
  <2> SUFFICES ASSUME Init PROVE Inv
    OBVIOUS
  <2>1. open \in Seq({}) /\ Len(open) = 0 /\ DOMAIN open = {} /\ ended.out = "none"
    BY DEF Init, NoEnd
  <2> QED BY <2>1, BoundIsANumber DEF Inv
<1>2. Inv /\ [Next]_vars => Inv'
  <2> SUFFICES ASSUME Inv, [Next]_vars PROVE Inv'
    OBVIOUS
  <2>1. CASE \E c \in Commands : \E args \in SeqOf(Texts, c.maxArgs) : do_command(c, args)
    BY <2>1, DoCommandIsSound
  <2>2. CASE \E input \in Texts \cup {Blanks} : field_input(input)
    BY <2>2, FieldInputIsSound
  <2>3. CASE UNCHANGED vars
    BY <2>3 DEF vars, Inv
  <2> QED BY <2>1, <2>2, <2>3 DEF Next
<1> QED BY <1>1, <1>2, PTL DEF Spec
-----------------------------------------------------------------------------
(* What follows.                                                           *)

\* The type invariant.
THEOREM TypeCorrect == Spec => []TypeOK
<1>1. Inv => TypeOK
  <2> SUFFICES ASSUME Inv PROVE TypeOK
    OBVIOUS
  <2>1. Len(open) <= MaxOpen /\ ended.out \in {"none", "execute", "fail", "error"}
    BY DEF Inv
  <2>2. ASSUME NEW n \in DOMAIN open
        PROVE  LET state == open[n]
               IN  /\ state.command \in Commands
                   /\ \A i \in DOMAIN state.args : state.args[i] \in Texts
                   /\ DOMAIN state.extra \subseteq Fields(state)
                   /\ DOMAIN state.model \subseteq Fields(state)
                   /\ state.form_retry \in 0..state.command.maxRetry
                   /\ state.at \in Fields(state)
                   /\ state.field_retry \in 0..state.command.fields[state.at].maxRetry
    <3> DEFINE s == open[n]
    <3>1. Pending(s)
      BY DEF Inv
    <3> HIDE DEF s
    <3>2. /\ IsState(s) /\ s.at \in Fields(s)
          /\ FilledTo(s, s.at) /\ PromptedTo(s, s.at)
      BY <3>1 DEF Pending, Processed
    <3>3. \A i \in DOMAIN s.args : s.args[i] \in Texts
      BY <3>2 DEF IsState
    <3>4. DOMAIN s.model \subseteq Fields(s)
      <4>1. Len(s.command.fields) \in Nat /\ Fields(s) = 1..Len(s.command.fields)
        BY <3>2, FieldTypes
      <4> QED BY <3>2, <4>1 DEF FilledTo
    <3>5. s.field_retry \in 0..s.command.fields[s.at].maxRetry
      BY <3>2, FieldTypes DEF PromptedTo
    <3> QED BY <3>2, <3>3, <3>4, <3>5 DEF IsState, s
  <2> QED BY <2>1, <2>2 DEF TypeOK
<1> QED BY <1>1, InvHolds, PTL

\* Only complete forms are executed, whose fields and whose form have passed
\* their validators (command_controller.c:105-119).
THEOREM ExecutedFormsAreValid == Spec => []ExecutedIsValid
<1>1. Inv => ExecutedIsValid
  BY DEF Inv, Executed, ExecutedIsValid
<1> QED BY <1>1, InvHolds, PTL

\* Nothing of a refused form is executed without having been asked for again.
THEOREM RefusedFormsAreAskedAgain == Spec => []RefusedIsAskedAgain
<1>1. Inv => RefusedIsAskedAgain
  BY DEF Inv, Executed, RefusedIsAskedAgain, Asked
<1> QED BY <1>1, InvHolds, PTL

\* No field is prompted for more often than its retries allow each time the
\* form is filled in.
THEOREM PromptsHaveABound == Spec => []PromptsAreBounded
<1>1. Inv => PromptsAreBounded
  BY DEF Inv, Pending, Processed, PromptedTo, PromptsAreBounded
<1> QED BY <1>1, InvHolds, PTL

\* A field does not lose its retries to those before it.
THEOREM RetriesAreNotShared == Spec => []RetriesAreTheFieldsOwn
<1>1. Inv => RetriesAreTheFieldsOwn
  BY DEF Inv, RetriesUsed, RetriesAreTheFieldsOwn
<1> QED BY <1>1, InvHolds, PTL

\* Prompts are for the first field that is missing, and only an argument that
\* is neither given nor prompted for has no place (command_controller.c:225).
THEOREM PromptsAreInOrder == Spec => []PromptsFollowTheForm
<1>1. Inv => PromptsFollowTheForm
  BY DEF Inv, Pending, Processed, FilledTo, NoPlace, PromptsFollowTheForm
<1> QED BY <1>1, InvHolds, PTL
=============================================================================
