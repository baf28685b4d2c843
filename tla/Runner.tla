------------------------------- MODULE Runner -------------------------------
(***************************************************************************)
(* The conformance runner (run_conformance.py): it runs a pack of fixtures *)
(* one after the other, those with a sequence step by step, and answers    *)
(* for a claim with its exit code and its report.  A file of the pack is   *)
(*   fixture             FALSE when it has no id or no input               *)
(*   id, status, feature, required                                         *)
(*   sequence            its steps [operation, message_id, expected], or   *)
(*                       Absent when it is about one operation             *)
(*   holder, marked      is a key of the TCT's subject known, does the TCT *)
(*                       have a grant that asks for a proof                *)
(*   supported, minted   can its operation be run, and what comes of       *)
(*                       minting its input: "yes", "refused" or "crash"    *)
(*   verdict, fields     what the operation answers, and whether its       *)
(*                       result has the members expected of it             *)
(*   expected            [outcome, error_code, side_effects]               *)
(* Members that are not there are Absent.  The verifiers are in modules of *)
(* their own: what they answer is given here.                              *)
(***************************************************************************)
EXTENDS Verdicts, Integers, Sequences, FiniteSets

CONSTANTS
  Packs,     \* the packs that may be run: sequences of files
  Options,   \* what main is called with: [claim, only (the ids its pattern
             \* matches), report, min_passed]
  Supported  \* SUPPORTED_FEATURES

CORE_CLAIM == "AITP v0.3"
CLAIMS == [ c \in {CORE_CLAIM, "AITP v0.3 pinned-admission", "AITP v0.3 self-attestation"} |->
  CASE c = CORE_CLAIM                   -> Absent
    [] c = "AITP v0.3 pinned-admission" -> "aitp-pinned-admission"
    [] OTHER                            -> "aitp-self-attestation" ]

Tiers == {"core", "extension", "draft"}

StepOperations ==
  { "process_handshake_message", "issue_pop_challenge", "produce_pop_response",
    "verify_pop_response", "authorize_capability_invocation", "expect_pop_challenge_issued",
    "withhold_pop_response" }

\* What no member of a fixture says is told from what one does; "unknown"
\* stands for every operation that _run_step does not have, and "OK" and
\* "crash" are no error codes.
ASSUME PackAssumption ==
  /\ Absent \notin BOOLEAN
  /\ Absent \notin {"core", "aitp-pinned-admission", "aitp-self-attestation"}
  /\ Absent \notin {"0", "1", "2", "Traceback"}
  /\ \A p \in Packs : p \in Seq({p[i] : i \in DOMAIN p})
  /\ \A p \in Packs : \A i \in DOMAIN p :
       p[i].fixture =>
         /\ p[i].required \in BOOLEAN \cup {Absent}
         /\ p[i].minted \in {"yes", "refused", "crash"}
         /\ p[i].expected.error_code \notin {"OK", "crash"}
         /\ p[i].marked \in BOOLEAN
         /\ p[i].sequence # Absent =>
              /\ p[i].sequence \in Seq({p[i].sequence[k] : k \in DOMAIN p[i].sequence})
              /\ \A k \in DOMAIN p[i].sequence :
                   p[i].sequence[k].operation \in StepOperations \cup {"unknown"}
  /\ \A o \in Options : o.claim \in DOMAIN CLAIMS

VARIABLES
  pack, options,  \* what this run is about
  at,             \* the position of the file at hand
  step,           \* the step of its sequence, 0 outside one
  state,          \* the _SeqState of its sequence
  rows,           \* [status, id] of the fixtures that have been dealt with
  fixtures,       \* the fixture of an id
  violations,     \* the ids of what the claim forbids to skip
  report,         \* by claim, whether its gate passed
  exit            \* the exit code, Absent while the run goes on

vars == <<pack, options, at, step, state, rows, fixtures, violations, report, exit>>

-----------------------------------------------------------------------------
StatusOf(f) == IF f.status = Absent THEN "core" ELSE f.status

\* Mutant: a fixture that does not say whether it is required is not.
is_required_Explicit(f) == StatusOf(f) = "core" /\ f.required = TRUE

is_required(f) == StatusOf(f) = "core" /\ f.required \in {Absent, TRUE}

in_scope(f) == IF f.feature = Absent THEN StatusOf(f) = "core" ELSE f.feature \in Supported

gates(f, claim) == IF CLAIMS[claim] = Absent THEN is_required(f) ELSE f.feature = CLAIMS[claim]

\* What becomes of a fixture about one operation; "crash" stands for any
\* exception, which is caught here.
run_operation(f) ==
  LET exp == f.expected
      agrees ==
        /\ f.verdict # "crash"
        /\ exp.side_effects # Absent => exp.side_effects = (f.verdict = "OK")
        /\ IF exp.outcome = "success" THEN f.verdict = "OK" /\ f.fields
           ELSE f.verdict # "OK" /\ f.verdict = exp.error_code
  IN IF ~ f.supported \/ f.minted = "refused" THEN "SKIP"
     ELSE IF agrees THEN "PASS"
     ELSE "FAIL"

-----------------------------------------------------------------------------
NewState == [seen |-> {}, nonce |-> FALSE, response |-> FALSE, challenged |-> FALSE]

\* What a step does: its outcome, its code, the side effect it reports, the
\* state after it.  An assertion that fails is a "Traceback".
did(outcome, code, side, after) ==
  [outcome |-> outcome, code |-> code, side |-> side, after |-> after]

Crashed(s) == did("Traceback", Absent, Absent, s)

\* The nonce follows from the TCT, so a challenge issued again is the same.
run_step(s, st, f) ==
  LET op == st.operation
  IN CASE op = "process_handshake_message" ->
            IF st.message_id \in s.seen
            THEN did("failure", "REPLAY_DETECTED", Absent, s)
            ELSE did("success", Absent, Absent, [s EXCEPT !.seen = @ \cup {st.message_id}])
       [] op = "issue_pop_challenge" ->
            did("success", Absent, Absent, [s EXCEPT !.nonce = TRUE, !.challenged = TRUE])
       [] op = "produce_pop_response" ->
            IF s.nonce /\ f.holder
            THEN did("success", Absent, Absent, [s EXCEPT !.response = TRUE])
            ELSE Crashed(s)
       [] op = "verify_pop_response" ->
            IF s.nonce /\ s.response THEN did("success", Absent, Absent, s) ELSE Crashed(s)
       [] op = "authorize_capability_invocation" ->
            did("success", Absent, Absent, [s EXCEPT !.challenged = @ \/ f.marked])
       [] op = "expect_pop_challenge_issued" ->
            did("success", Absent, [pop_challenge_issued |-> s.challenged], s)
       [] op = "withhold_pop_response" ->
            did("failure", "POP_RESPONSE_INVALID", [capability_authorized |-> FALSE], s)
       [] OTHER -> did("unsupported", Absent, Absent, s)

\* A member of expected that is not there asks for nothing.
meets(result, exp) ==
  /\ exp.outcome = "success" => result.outcome = "success"
  /\ exp.outcome = "failure" => result.outcome = "failure" /\ result.code = exp.error_code
  /\ exp.side_effects # Absent => result.side = exp.side_effects

-----------------------------------------------------------------------------
File == pack[at]
Running == exit = Absent /\ at \in DOMAIN pack

\* Not a scenario fixture, or ignored by every runner, or not asked for.
Ignored(f) ==
  \/ ~ f.fixture
  \/ f.status = "reserved"
  \/ options.only # Absent /\ f.id \notin options.only

Init ==
  /\ pack \in Packs /\ options \in Options
  /\ at = 1 /\ step = 0 /\ state = NewState
  /\ rows = <<>> /\ fixtures = <<>> /\ violations = {}
  /\ report = Absent
  /\ exit = IF options.only # Absent /\ options.report THEN "2" ELSE Absent

Ignore ==
  /\ Running /\ step = 0 /\ Ignored(File)
  /\ at' = at + 1
  /\ UNCHANGED <<pack, options, step, state, rows, fixtures, violations, report, exit>>

\* The last file with an id is the one the report has its metadata from.
Record(f, status) ==
  /\ rows' = Append(rows, [status |-> status, id |-> f.id])
  /\ fixtures' = [id \in DOMAIN fixtures \cup {f.id} |-> IF id = f.id THEN f ELSE fixtures[id]]
  /\ violations' = violations \cup {id \in {f.id} : status = "SKIP" /\ gates(f, options.claim)}
  /\ at' = at + 1 /\ step' = 0
  /\ UNCHANGED <<pack, options, report, exit>>

Decline ==
  /\ Running /\ step = 0 /\ ~ Ignored(File) /\ ~ in_scope(File)
  /\ Record(File, "SKIP")
  /\ UNCHANGED state

RunOperation ==
  /\ Running /\ step = 0 /\ ~ Ignored(File) /\ in_scope(File)
  /\ File.sequence = Absent
  /\ UNCHANGED state
  /\ IF File.supported /\ File.minted = "crash"
     THEN /\ exit' = "Traceback"
          /\ UNCHANGED <<pack, options, at, step, rows, fixtures, violations, report>>
     ELSE Record(File, run_operation(File))

\* Mutant: the state of an earlier sequence is still there.
BeginSequence_KeepsState ==
  /\ Running /\ step = 0 /\ ~ Ignored(File) /\ in_scope(File)
  /\ File.sequence # Absent
  /\ step' = 1 /\ state' = state
  /\ UNCHANGED <<pack, options, at, rows, fixtures, violations, report, exit>>

BeginSequence ==
  /\ Running /\ step = 0 /\ ~ Ignored(File) /\ in_scope(File)
  /\ File.sequence # Absent
  /\ step' = 1 /\ state' = NewState
  /\ UNCHANGED <<pack, options, at, rows, fixtures, violations, report, exit>>

\* What _run_step raises here nobody catches.
RunStep ==
  /\ Running /\ step > 0 /\ step \in DOMAIN File.sequence
  /\ LET result == run_step(state, File.sequence[step], File)
     IN  /\ state' = result.after
         /\ CASE result.outcome = "Traceback" ->
                   /\ exit' = "Traceback"
                   /\ UNCHANGED <<pack, options, at, step, rows, fixtures, violations, report>>
              [] result.outcome = "unsupported" -> Record(File, "SKIP")
              [] result.outcome \in {"success", "failure"} ->
                   IF meets(result, File.sequence[step].expected)
                   THEN /\ step' = step + 1
                        /\ UNCHANGED <<pack, options, at, rows, fixtures, violations, report, exit>>
                   ELSE Record(File, "FAIL")

EndSequence ==
  /\ Running /\ step > 0 /\ step \notin DOMAIN File.sequence
  /\ Record(File, "PASS")
  /\ UNCHANGED state

-----------------------------------------------------------------------------
\* Mutant: a gate is blocked by what fails.
blocking_Fails(claim) ==
  {rows[i].id : i \in {j \in DOMAIN rows : gates(fixtures[rows[j].id], claim) /\ rows[j].status = "FAIL"}}

blocking(claim) ==
  {rows[i].id : i \in {j \in DOMAIN rows : gates(fixtures[rows[j].id], claim) /\ rows[j].status # "PASS"}}

covered(claim) ==
  CLAIMS[claim] = Absent \/ \E i \in DOMAIN rows : fixtures[rows[i].id].feature = CLAIMS[claim]

\* The gates of the claims whose feature is enabled.
build_report ==
  [ claim \in {c \in DOMAIN CLAIMS : CLAIMS[c] \in Supported \cup {Absent}} |->
      covered(claim) /\ blocking(claim) = {} ]

\* build_report needs the status that the gate can do without.
reportable == \A i \in DOMAIN rows : fixtures[rows[i].id].status \in Tiers

count(status) == Cardinality({i \in DOMAIN rows : rows[i].status = status})

exit_code ==
  IF options.only # Absent /\ rows = <<>> THEN "2"
  ELSE IF options.report /\ ~ reportable THEN "Traceback"
  ELSE IF \/ options.min_passed # Absent /\ count("PASS") < options.min_passed
          \/ count("FAIL") > 0
          \/ violations # {}
       THEN "1"
  ELSE "0"

Finish ==
  /\ exit = Absent /\ at \notin DOMAIN pack
  /\ exit' = exit_code
  /\ report' = IF options.report /\ reportable THEN build_report ELSE Absent
  /\ UNCHANGED <<pack, options, at, step, state, rows, fixtures, violations>>

Next ==
  \/ Ignore
  \/ Decline
  \/ RunOperation
  \/ BeginSequence
  \/ RunStep
  \/ EndSequence
  \/ Finish

Spec == Init /\ [][Next]_vars

-----------------------------------------------------------------------------
Earlier(f, i, operations) == {j \in 1 .. i - 1 : f.sequence[j].operation \in operations}

\* What the i-th step of a sequence has to come to, told by the steps before
\* it and not by a state: a message is a replay when it was there before, a
\* challenge is out when a step before it issued one.
Replayed(f, i) ==
  \E j \in Earlier(f, i, {"process_handshake_message"}) :
    f.sequence[j].message_id = f.sequence[i].message_id

Challenged(f, i) ==
  Earlier(f, i, {"issue_pop_challenge"} \cup
                {op \in {"authorize_capability_invocation"} : f.marked}) # {}

StepAgrees(f, i) ==
  LET op  == f.sequence[i].operation
      exp == f.sequence[i].expected
      code == CASE op = "process_handshake_message" /\ Replayed(f, i) -> "REPLAY_DETECTED"
                [] op = "withhold_pop_response"                       -> "POP_RESPONSE_INVALID"
                [] OTHER                                              -> "none"
      side == CASE op = "expect_pop_challenge_issued" -> [pop_challenge_issued |-> Challenged(f, i)]
                [] op = "withhold_pop_response"       -> [capability_authorized |-> FALSE]
                [] OTHER                              -> Absent
  IN  /\ op # "unknown"
      /\ op = "produce_pop_response" => f.holder /\ Earlier(f, i, {"issue_pop_challenge"}) # {}
      /\ op = "verify_pop_response" => Earlier(f, i, {"produce_pop_response"}) # {}
      /\ exp.outcome \in {"success", "failure"} =>
           exp.outcome = (IF code = "none" THEN "success" ELSE "failure")
      /\ exp.outcome = "failure" => code = exp.error_code
      /\ exp.side_effects # Absent => side = exp.side_effects

\* The implementation was run on the fixture and did what the fixture says.
Agrees(f) ==
  /\ in_scope(f)
  /\ IF f.sequence # Absent THEN \A i \in DOMAIN f.sequence : StepAgrees(f, i)
     ELSE /\ f.supported /\ f.minted = "yes"
          /\ f.verdict = IF f.expected.outcome = "success" THEN "OK" ELSE f.expected.error_code
          /\ f.verdict = "OK" => f.fields
          /\ f.expected.side_effects \in {Absent, f.verdict = "OK"}

\* Only what says that it is not required is not required.
Behind(f, claim) ==
  IF claim = CORE_CLAIM THEN f.status \in {Absent, "core"} /\ f.required # FALSE
  ELSE f.feature = CLAIMS[claim]

Scenarios == {pack[i] : i \in {j \in DOMAIN pack : pack[j].fixture /\ pack[j].status # "reserved"}}

DistinctIds ==
  \A f, g \in Scenarios : f.id = g.id => f = g

(***************************************************************************)
(* Exit code 0 of a run of the whole pack is a claim: every fixture behind *)
(* it was run and agreed, step by step; none was skipped because its       *)
(* metadata is missing, its feature is off, its operation is unknown or    *)
(* its input cannot be minted.                                             *)
(***************************************************************************)
GreenMeansAgreement ==
  exit = "0" /\ options.only = Absent =>
    \A f \in Scenarios : Behind(f, options.claim) => Agrees(f)

(***************************************************************************)
(* A pack whose fixtures all agree, those out of scope and not behind the  *)
(* claim aside, ends with exit code 0: no fixture fails because of another *)
(* that ran before it.                                                     *)
(***************************************************************************)
AgreementIsGreen ==
  /\ exit # Absent /\ options.only = Absent /\ options.min_passed = Absent
  /\ options.report => reportable
  /\ \A f \in Scenarios : Agrees(f) \/ (~ in_scope(f) /\ ~ Behind(f, options.claim))
  => exit = "0"

(***************************************************************************)
(* The report and the exit code are two judgements of one run: a gate of   *)
(* the report is passed exactly when its claim has fixtures and all of     *)
(* them agree, whichever claim the run itself is for.                      *)
(***************************************************************************)
ReportTellsTheSame ==
  report # Absent /\ DistinctIds =>
    \A claim \in DOMAIN report :
      report[claim] <=>
        /\ CLAIMS[claim] = Absent \/ \E f \in Scenarios : Behind(f, claim)
        /\ \A f \in Scenarios : Behind(f, claim) => Agrees(f)

=============================================================================
