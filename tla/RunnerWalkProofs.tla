-------------------------- MODULE RunnerWalkProofs --------------------------
(***************************************************************************)
(* The conformance runner (Runner) and the walks over JSON values and      *)
(* issuer keys (Walks).                                                    *)
(*                                                                         *)
(* The runner, for packs of any length, sequences of any length and any    *)
(* options: exit code 0 means that what the claim rests on was run and     *)
(* agreed, a pack that agrees ends with exit code 0, and the report says   *)
(* the same of each claim.  The first part compares one step of a sequence *)
(* with what the steps before it ask for.  The second says what the rows   *)
(* of a run are worth at every moment of it.                               *)
(*                                                                         *)
(* The walks, for every value, shared or holding itself, and all caps      *)
(* below the interpreter's limit: the issuer's keys are exactly those the  *)
(* value carries, canonicalization takes exactly the JSON values within    *)
(* its caps and has one text for each, and no walk ends in a               *)
(* RecursionError.  A call of a walk stands for all the calls below it     *)
(* (Unfold) and for the text they write (Texts); the invariant says that   *)
(* what is over and what the stack stands for make up the whole.  That the *)
(* text tells the value is then a fact about Texts, level by level.        *)
(***************************************************************************)
EXTENDS Runner, Walks, FiniteSetTheorems, SequenceTheorems, TLAPS, WellFoundedInduction

-----------------------------------------------------------------------------
(* One step of a sequence.                                                 *)

\* The operations that put a challenge out.
Challenging(f) ==
  {"issue_pop_challenge"} \cup {op \in {"authorize_capability_invocation"} : f.marked}

\* The state before the k-th step is what the steps before it amount to.
Tracks(s, f, k) ==
  /\ DOMAIN s = {"seen", "nonce", "response", "challenged"}
  /\ s.challenged \in BOOLEAN
  /\ \A mid : mid \in s.seen <=>
       \E j \in Earlier(f, k, {"process_handshake_message"}) : f.sequence[j].message_id = mid
  /\ s.nonce <=> Earlier(f, k, {"issue_pop_challenge"}) # {}
  /\ s.response <=> Earlier(f, k, {"produce_pop_response"}) # {}
  /\ s.challenged <=> Challenged(f, k)

LEMMA TracksNew == ASSUME NEW f PROVE Tracks(NewState, f, 1)
<1>1. \A ops : Earlier(f, 1, ops) = {}
  BY DEF Earlier
<1>2. QED
  BY <1>1 DEF Tracks, NewState, Challenged

LEMMA EarlierNext ==
  ASSUME NEW f, NEW k \in Nat \ {0}, NEW ops
  PROVE  Earlier(f, k + 1, ops) =
           Earlier(f, k, ops) \cup {j \in {k} : f.sequence[k].operation \in ops}
<1>1. 1 .. (k + 1) - 1 = (1 .. k - 1) \cup {k}
  OBVIOUS
<1>2. QED
  BY <1>1 DEF Earlier

\* The states that the operations leave.
Received(s, mid) == [s EXCEPT !.seen = @ \cup {mid}]
Issued(s) == [s EXCEPT !.nonce = TRUE, !.challenged = TRUE]
Responded(s) == [s EXCEPT !.response = TRUE]
Asked(s, f) == [s EXCEPT !.challenged = @ \/ f.marked]

\* What _run_step does, operation by operation.
LEMMA StepResult ==
  ASSUME NEW s, NEW st, NEW f, st.operation \in StepOperations \cup {"unknown"}
  PROVE  LET op     == st.operation
             result == run_step(s, st, f)
         IN  /\ op = "process_handshake_message" /\ st.message_id \in s.seen
                  => result = did("failure", "REPLAY_DETECTED", Absent, s)
             /\ op = "process_handshake_message" /\ st.message_id \notin s.seen
                  => result = did("success", Absent, Absent, Received(s, st.message_id))
             /\ op = "issue_pop_challenge"
                  => result = did("success", Absent, Absent, Issued(s))
             /\ op = "produce_pop_response" /\ s.nonce /\ f.holder
                  => result = did("success", Absent, Absent, Responded(s))
             /\ op = "produce_pop_response" /\ ~ (s.nonce /\ f.holder) => result = Crashed(s)
             /\ op = "verify_pop_response" /\ s.nonce /\ s.response
                  => result = did("success", Absent, Absent, s)
             /\ op = "verify_pop_response" /\ ~ (s.nonce /\ s.response) => result = Crashed(s)
             /\ op = "authorize_capability_invocation"
                  => result = did("success", Absent, Absent, Asked(s, f))
             /\ op = "expect_pop_challenge_issued"
                  => result = did("success", Absent,
                                  [pop_challenge_issued |-> s.challenged], s)
             /\ op = "withhold_pop_response"
                  => result = did("failure", "POP_RESPONSE_INVALID",
                                  [capability_authorized |-> FALSE], s)
             /\ op = "unknown" => result = did("unsupported", Absent, Absent, s)
<1> DEFINE op == st.operation
<1>1. op = "process_handshake_message" =>
        run_step(s, st, f) = IF st.message_id \in s.seen
                             THEN did("failure", "REPLAY_DETECTED", Absent, s)
                             ELSE did("success", Absent, Absent, Received(s, st.message_id))
  BY Zenon DEF run_step, Received, Issued, Responded, Asked
<1>2. op = "issue_pop_challenge" =>
        run_step(s, st, f) = did("success", Absent, Absent, Issued(s))
  BY Zenon DEF run_step, Received, Issued, Responded, Asked
<1>3. op = "produce_pop_response" =>
        run_step(s, st, f) = IF s.nonce /\ f.holder
                             THEN did("success", Absent, Absent, Responded(s))
                             ELSE Crashed(s)
  BY Zenon DEF run_step, Received, Issued, Responded, Asked
<1>4. op = "verify_pop_response" =>
        run_step(s, st, f) = IF s.nonce /\ s.response
                             THEN did("success", Absent, Absent, s) ELSE Crashed(s)
  BY Zenon DEF run_step, Received, Issued, Responded, Asked
<1>5. op = "authorize_capability_invocation" =>
        run_step(s, st, f) = did("success", Absent, Absent, Asked(s, f))
  BY Zenon DEF run_step, Received, Issued, Responded, Asked
<1>6. op = "expect_pop_challenge_issued" =>
        run_step(s, st, f) = did("success", Absent, [pop_challenge_issued |-> s.challenged], s)
  BY Zenon DEF run_step, Received, Issued, Responded, Asked
<1>7. op = "withhold_pop_response" =>
        run_step(s, st, f) = did("failure", "POP_RESPONSE_INVALID",
                                 [capability_authorized |-> FALSE], s)
  BY Zenon DEF run_step, Received, Issued, Responded, Asked
<1>8. op = "unknown" => run_step(s, st, f) = did("unsupported", Absent, Absent, s)
  BY Zenon DEF run_step, Received, Issued, Responded, Asked
<1>9. QED
  BY <1>1, <1>2, <1>3, <1>4, <1>5, <1>6, <1>7, <1>8

\* The state a step leaves is tracked when it has taken up what the step adds.
LEMMA TracksNext ==
  ASSUME NEW s, NEW t, NEW f, NEW k \in Nat \ {0}, Tracks(s, f, k),
         DOMAIN t = {"seen", "nonce", "response", "challenged"}, t.challenged \in BOOLEAN,
         LET st == f.sequence[k]
             op == st.operation
         IN  /\ \A mid : mid \in t.seen <=>
                  mid \in s.seen \/ (op = "process_handshake_message" /\ mid = st.message_id)
             /\ t.nonce <=> s.nonce \/ op = "issue_pop_challenge"
             /\ t.response <=> s.response \/ op = "produce_pop_response"
             /\ t.challenged <=> s.challenged \/ op \in Challenging(f)
  PROVE  Tracks(t, f, k + 1)
<1> DEFINE op == f.sequence[k].operation
<1>1. \A ops : Earlier(f, k + 1, ops) = Earlier(f, k, ops) \cup {j \in {k} : op \in ops}
  BY EarlierNext
<1>2. \A ops : Earlier(f, k + 1, ops) # {} <=> Earlier(f, k, ops) # {} \/ op \in ops
  BY <1>1
<1>3. Challenged(f, k + 1) <=> Challenged(f, k) \/ op \in Challenging(f)
  BY <1>2 DEF Challenged, Challenging
<1>4. \A mid : (\E j \in Earlier(f, k + 1, {"process_handshake_message"}) :
                  f.sequence[j].message_id = mid)
                 <=> \/ \E j \in Earlier(f, k, {"process_handshake_message"}) :
                          f.sequence[j].message_id = mid
                     \/ op = "process_handshake_message" /\ mid = f.sequence[k].message_id
  BY <1>1
<1>5. \A mid : mid \in t.seen <=>
        \E j \in Earlier(f, k + 1, {"process_handshake_message"}) : f.sequence[j].message_id = mid
  BY <1>4 DEF Tracks
<1>6. /\ t.nonce <=> Earlier(f, k + 1, {"issue_pop_challenge"}) # {}
      /\ t.response <=> Earlier(f, k + 1, {"produce_pop_response"}) # {}
  BY <1>2 DEF Tracks
<1>7. t.challenged <=> Challenged(f, k + 1)
  BY <1>3 DEF Tracks
<1>8. QED
  BY <1>5, <1>6, <1>7 DEF Tracks

(***************************************************************************)
(* The state is as good as the steps before: a step crashes or is unknown  *)
(* only when it does not agree, and otherwise is met exactly when it does. *)
(***************************************************************************)
LEMMA StepIsJudged ==
  ASSUME NEW s, NEW f, NEW k \in Nat \ {0}, Tracks(s, f, k), f.marked \in BOOLEAN,
         f.sequence[k].operation \in StepOperations \cup {"unknown"},
         \A j \in 1 .. k - 1 : StepAgrees(f, j)
  PROVE  LET result == run_step(s, f.sequence[k], f)
         IN  /\ result.outcome \in {"Traceback", "unsupported", "success", "failure"}
             /\ result.outcome \in {"Traceback", "unsupported"} => ~ StepAgrees(f, k)
             /\ result.outcome \in {"success", "failure"} =>
                  /\ meets(result, f.sequence[k].expected) <=> StepAgrees(f, k)
                  /\ Tracks(result.after, f, k + 1)
<1> DEFINE st == f.sequence[k]
           op == st.operation
           exp == st.expected
           result == run_step(s, st, f)
           code == CASE op = "process_handshake_message" /\ Replayed(f, k) -> "REPLAY_DETECTED"
                     [] op = "withhold_pop_response"                       -> "POP_RESPONSE_INVALID"
                     [] OTHER                                              -> "none"
           side == CASE op = "expect_pop_challenge_issued" -> [pop_challenge_issued |-> Challenged(f, k)]
                     [] op = "withhold_pop_response"       -> [capability_authorized |-> FALSE]
                     [] OTHER                              -> Absent
<1>1. /\ op = "process_handshake_message" /\ Replayed(f, k) => code = "REPLAY_DETECTED"
      /\ op = "withhold_pop_response" => code = "POP_RESPONSE_INVALID"
      /\ ~ (op = "process_handshake_message" /\ Replayed(f, k))
           /\ op # "withhold_pop_response" => code = "none"
  BY Zenon
<1>2. /\ op = "expect_pop_challenge_issued" => side = [pop_challenge_issued |-> Challenged(f, k)]
      /\ op = "withhold_pop_response" => side = [capability_authorized |-> FALSE]
      /\ op # "expect_pop_challenge_issued" /\ op # "withhold_pop_response" => side = Absent
  BY Zenon
<1>3. StepAgrees(f, k) <=>
        /\ op # "unknown"
        /\ op = "produce_pop_response"
             => f.holder /\ Earlier(f, k, {"issue_pop_challenge"}) # {}
        /\ op = "verify_pop_response" => Earlier(f, k, {"produce_pop_response"}) # {}
        /\ exp.outcome \in {"success", "failure"} =>
             exp.outcome = (IF code = "none" THEN "success" ELSE "failure")
        /\ exp.outcome = "failure" => code = exp.error_code
        /\ exp.side_effects # Absent => side = exp.side_effects
  BY Zenon DEF StepAgrees
<1> HIDE DEF code, side
<1>4. /\ s.nonce <=> Earlier(f, k, {"issue_pop_challenge"}) # {}
      /\ s.response <=> Earlier(f, k, {"produce_pop_response"}) # {}
      /\ st.message_id \in s.seen /\ op = "process_handshake_message" <=>
           op = "process_handshake_message" /\ Replayed(f, k)
      /\ s.challenged \in BOOLEAN /\ (s.challenged <=> Challenged(f, k))
      /\ DOMAIN s = {"seen", "nonce", "response", "challenged"}
  BY DEF Tracks, Replayed
<1>5. s.response => s.nonce
  <2> SUFFICES ASSUME s.response
               PROVE  s.nonce
    OBVIOUS
  <2>1. PICK j \in Earlier(f, k, {"produce_pop_response"}) : TRUE
    BY <1>4
  <2>2. j \in 1 .. k - 1 /\ f.sequence[j].operation = "produce_pop_response"
    BY <2>1 DEF Earlier
  <2>3. Earlier(f, j, {"issue_pop_challenge"}) # {}
    BY <2>2 DEF StepAgrees
  <2>4. PICK i \in 1 .. j - 1 : f.sequence[i].operation \in {"issue_pop_challenge"}
    BY <2>3 DEF Earlier
  <2>5. i \in Earlier(f, k, {"issue_pop_challenge"})
    BY <2>2, <2>4 DEF Earlier
  <2>6. QED
    BY <1>4, <2>5
<1>6. ASSUME NEW outcome, NEW c, NEW sd, NEW after, result = did(outcome, c, sd, after)
      PROVE  result.outcome = outcome /\ result.code = c /\ result.side = sd /\ result.after = after
  BY <1>6 DEF did
<1>r. /\ op = "process_handshake_message" /\ st.message_id \in s.seen
           => result = did("failure", "REPLAY_DETECTED", Absent, s)
      /\ op = "process_handshake_message" /\ st.message_id \notin s.seen
           => result = did("success", Absent, Absent, Received(s, st.message_id))
      /\ op = "issue_pop_challenge"
           => result = did("success", Absent, Absent, Issued(s))
      /\ op = "produce_pop_response" /\ s.nonce /\ f.holder
           => result = did("success", Absent, Absent, Responded(s))
      /\ op = "produce_pop_response" /\ ~ (s.nonce /\ f.holder) => result = Crashed(s)
      /\ op = "verify_pop_response" /\ s.nonce /\ s.response
           => result = did("success", Absent, Absent, s)
      /\ op = "verify_pop_response" /\ ~ (s.nonce /\ s.response) => result = Crashed(s)
      /\ op = "authorize_capability_invocation"
           => result = did("success", Absent, Absent, Asked(s, f))
      /\ op = "expect_pop_challenge_issued"
           => result = did("success", Absent, [pop_challenge_issued |-> s.challenged], s)
      /\ op = "withhold_pop_response"
           => result = did("failure", "POP_RESPONSE_INVALID", [capability_authorized |-> FALSE], s)
      /\ op = "unknown" => result = did("unsupported", Absent, Absent, s)
  BY StepResult
<1> HIDE DEF result
<1>7. CASE op = "process_handshake_message" /\ st.message_id \in s.seen
  <2>1. result = did("failure", "REPLAY_DETECTED", Absent, s)
    BY <1>7, <1>r
  <2>2. /\ result.outcome = "failure" /\ result.code = "REPLAY_DETECTED"
        /\ result.side = Absent /\ result.after = s
    BY <1>6, <2>1
  <2>3. Tracks(s, f, k + 1)
    BY <1>4, <1>7, TracksNext DEF Challenging
  <2>4. QED
    BY <1>1, <1>2, <1>3, <1>4, <1>7, <2>2, <2>3 DEF meets, result
<1>8. CASE op = "process_handshake_message" /\ st.message_id \notin s.seen
  <2> DEFINE t == Received(s, st.message_id)
  <2>1. result = did("success", Absent, Absent, t)
    BY <1>8, <1>r
  <2>2. /\ DOMAIN t = DOMAIN s /\ t.seen = s.seen \cup {st.message_id} /\ t.nonce = s.nonce
        /\ t.response = s.response /\ t.challenged = s.challenged
    BY <1>4 DEF Received
  <2> HIDE DEF t
  <2>3. /\ result.outcome = "success" /\ result.side = Absent /\ result.after = t
    BY <1>6, <2>1
  <2>4. Tracks(t, f, k + 1)
    BY <1>4, <1>8, <2>2, TracksNext DEF Challenging
  <2>5. QED
    BY <1>1, <1>2, <1>3, <1>4, <1>8, <2>3, <2>4 DEF meets, result
<1>9. CASE op = "issue_pop_challenge"
  <2> DEFINE t == Issued(s)
  <2>1. result = did("success", Absent, Absent, t)
    BY <1>9, <1>r
  <2>2. /\ DOMAIN t = DOMAIN s /\ t.seen = s.seen /\ t.nonce = TRUE
        /\ t.response = s.response /\ t.challenged = TRUE
    BY <1>4 DEF Issued
  <2> HIDE DEF t
  <2>3. /\ result.outcome = "success" /\ result.side = Absent /\ result.after = t
    BY <1>6, <2>1
  <2>4. Tracks(t, f, k + 1)
    BY <1>4, <1>9, <2>2, TracksNext DEF Challenging
  <2>5. QED
    BY <1>1, <1>2, <1>3, <1>9, <2>3, <2>4 DEF meets, result
<1>10. CASE op = "produce_pop_response" /\ s.nonce /\ f.holder
  <2> DEFINE t == Responded(s)
  <2>1. result = did("success", Absent, Absent, t)
    BY <1>10, <1>r
  <2>2. /\ DOMAIN t = DOMAIN s /\ t.seen = s.seen /\ t.nonce = s.nonce
        /\ t.response = TRUE /\ t.challenged = s.challenged
    BY <1>4 DEF Responded
  <2> HIDE DEF t
  <2>3. /\ result.outcome = "success" /\ result.side = Absent /\ result.after = t
    BY <1>6, <2>1
  <2>4. Tracks(t, f, k + 1)
    BY <1>4, <1>10, <2>2, TracksNext DEF Challenging
  <2>5. QED
    BY <1>1, <1>2, <1>3, <1>4, <1>10, <2>3, <2>4 DEF meets, result
<1>11. CASE op = "verify_pop_response" /\ s.nonce /\ s.response
  <2>1. result = did("success", Absent, Absent, s)
    BY <1>11, <1>r
  <2>2. /\ result.outcome = "success" /\ result.side = Absent /\ result.after = s
    BY <1>6, <2>1
  <2>3. Tracks(s, f, k + 1)
    BY <1>4, <1>11, TracksNext DEF Challenging
  <2>4. QED
    BY <1>1, <1>2, <1>3, <1>4, <1>11, <2>2, <2>3 DEF meets, result
<1>12. CASE \/ op = "produce_pop_response" /\ ~ (s.nonce /\ f.holder)
            \/ op = "verify_pop_response" /\ ~ (s.nonce /\ s.response)
  <2>1. result = did("Traceback", Absent, Absent, s)
    BY <1>12, <1>r DEF Crashed
  <2>2. result.outcome = "Traceback"
    BY <1>6, <2>1
  <2>3. ~ StepAgrees(f, k)
    BY <1>3, <1>4, <1>5, <1>12
  <2>4. QED
    BY <2>2, <2>3 DEF result
<1>13. CASE op = "authorize_capability_invocation"
  <2> DEFINE t == Asked(s, f)
  <2>1. result = did("success", Absent, Absent, t)
    BY <1>13, <1>r
  <2>2. /\ DOMAIN t = DOMAIN s /\ t.seen = s.seen /\ t.nonce = s.nonce
        /\ t.response = s.response
        /\ t.challenged \in BOOLEAN /\ (t.challenged <=> s.challenged \/ f.marked)
    BY <1>4 DEF Asked
  <2> HIDE DEF t
  <2>3. /\ result.outcome = "success" /\ result.side = Absent /\ result.after = t
    BY <1>6, <2>1
  <2>4. op \in Challenging(f) <=> f.marked
    BY <1>13 DEF Challenging
  <2>5. Tracks(t, f, k + 1)
    BY <1>4, <1>13, <2>2, <2>4, TracksNext
  <2>6. QED
    BY <1>1, <1>2, <1>3, <1>13, <2>3, <2>5 DEF meets, result
<1>14. CASE op = "expect_pop_challenge_issued"
  <2>1. result = did("success", Absent, [pop_challenge_issued |-> s.challenged], s)
    BY <1>14, <1>r
  <2>2. /\ result.outcome = "success" /\ result.after = s
        /\ result.side = [pop_challenge_issued |-> s.challenged]
    BY <1>6, <2>1
  <2>3. Tracks(s, f, k + 1)
    BY <1>4, <1>14, TracksNext DEF Challenging
  <2>4. [pop_challenge_issued |-> s.challenged] = [pop_challenge_issued |-> Challenged(f, k)]
    <3>1. s.challenged = Challenged(f, k)
      BY <1>4 DEF Challenged
    <3>2. QED
      BY <3>1
  <2>5. result.side = side
    BY <1>2, <1>14, <2>2, <2>4
  <2>6. QED
    BY <1>1, <1>3, <1>14, <2>2, <2>3, <2>5 DEF meets, result
<1>15. CASE op = "withhold_pop_response"
  <2>1. result = did("failure", "POP_RESPONSE_INVALID", [capability_authorized |-> FALSE], s)
    BY <1>15, <1>r
  <2>2. /\ result.outcome = "failure" /\ result.code = "POP_RESPONSE_INVALID"
        /\ result.side = [capability_authorized |-> FALSE] /\ result.after = s
    BY <1>6, <2>1
  <2>3. Tracks(s, f, k + 1)
    BY <1>4, <1>15, TracksNext DEF Challenging
  <2>4. QED
    BY <1>1, <1>2, <1>3, <1>15, <2>2, <2>3 DEF meets, result
<1>16. CASE op = "unknown"
  <2>1. result = did("unsupported", Absent, Absent, s)
    BY <1>16, <1>r
  <2>2. result.outcome = "unsupported"
    BY <1>6, <2>1
  <2>3. QED
    BY <1>3, <1>16, <2>2 DEF result
<1>17. QED
  BY <1>7, <1>8, <1>9, <1>10, <1>11, <1>12, <1>13, <1>14, <1>15, <1>16 DEF StepOperations

-----------------------------------------------------------------------------
(* A run.                                                                  *)

\* What a row says of its fixture, in a run for a claim with these violations.
RowOf(row, f, claim, found) ==
  /\ row.id = f.id
  /\ row.status \in {"PASS", "FAIL", "SKIP"}
  /\ row.status = "PASS" <=> Agrees(f)
  /\ ~ in_scope(f) => row.status = "SKIP"
  /\ row.status = "SKIP" /\ gates(f, claim) => f.id \in found

\* The files before the one at hand that the run is about.
Done(i) == i \in 1 .. at - 1 /\ ~ Ignored(pack[i])

ParametersOK ==
  /\ pack \in Packs /\ options \in Options
  /\ at \in 1 .. Len(pack) + 1 /\ step \in Nat

RowsOK ==
  /\ rows \in Seq([status : {"PASS", "FAIL", "SKIP"}, id : {pack[i].id : i \in DOMAIN pack}])
  /\ \A i : Done(i) =>
       \E r \in DOMAIN rows : RowOf(rows[r], pack[i], options.claim, violations)
  /\ \A r \in DOMAIN rows :
       \E i : Done(i) /\ RowOf(rows[r], pack[i], options.claim, violations)

ViolationsOK ==
  \A id \in violations :
    \E i : Done(i) /\ gates(pack[i], options.claim) /\ ~ Agrees(pack[i])

FixturesOK ==
  /\ \A r \in DOMAIN rows : rows[r].id \in DOMAIN fixtures
  /\ \A id \in DOMAIN fixtures : \E i : Done(i) /\ pack[i].id = id /\ fixtures[id] = pack[i]

\* In the middle of a sequence the steps so far agree.
SequenceOK ==
  exit = Absent /\ step > 0 =>
    /\ at \in DOMAIN pack /\ ~ Ignored(File) /\ in_scope(File) /\ File.sequence # Absent
    /\ step \in 1 .. Len(File.sequence) + 1
    /\ \A j \in 1 .. step - 1 : StepAgrees(File, j)
    /\ Tracks(state, File, step)

ExitOK ==
  /\ exit = Absent => options.only = Absent \/ ~ options.report
  /\ exit # Absent =>
       \/ exit = "2" /\ options.only # Absent
       \/ /\ exit = "Traceback"
          /\ \E i \in DOMAIN pack : ~ Ignored(pack[i]) /\ in_scope(pack[i]) /\ ~ Agrees(pack[i])
       \/ exit = exit_code /\ at \notin DOMAIN pack

ReportOK ==
  report # Absent =>
    /\ exit # Absent /\ options.only = Absent /\ at \notin DOMAIN pack
    /\ report = build_report

IInv ==
  ParametersOK /\ RowsOK /\ ViolationsOK /\ FixturesOK /\ SequenceOK /\ ExitOK /\ ReportOK

LEMMA PackIsSequence ==
  ASSUME NEW p \in Packs
  PROVE  DOMAIN p = 1 .. Len(p) /\ Len(p) \in Nat
BY PackAssumption

LEMMA SequenceIsSequence ==
  ASSUME NEW p \in Packs, NEW i \in DOMAIN p, p[i].fixture, p[i].sequence # Absent
  PROVE  DOMAIN p[i].sequence = 1 .. Len(p[i].sequence) /\ Len(p[i].sequence) \in Nat
BY PackAssumption

LEMMA InitInv == Init => IInv
<1> SUFFICES ASSUME Init
             PROVE  IInv
  OBVIOUS
<1>1. Len(pack) \in Nat
  BY PackIsSequence DEF Init
<1>2. ParametersOK
  BY <1>1 DEF Init, ParametersOK
<1>3. \A i : ~ Done(i)
  BY DEF Init, Done
<1>4. rows = <<>> /\ DOMAIN rows = {} /\ fixtures = <<>> /\ DOMAIN fixtures = {}
  BY DEF Init
<1>5. RowsOK
  BY <1>3, <1>4 DEF RowsOK
<1>6. ViolationsOK /\ FixturesOK
  BY <1>4 DEF Init, ViolationsOK, FixturesOK
<1>7. SequenceOK
  BY DEF Init, SequenceOK
<1>8. ExitOK /\ ReportOK
  BY PackAssumption DEF Init, ExitOK, ReportOK
<1>9. QED
  BY <1>2, <1>5, <1>6, <1>7, <1>8 DEF IInv

\* A fixture about one operation is judged by run_fixture as the fixture says.
LEMMA OperationIsJudged ==
  ASSUME NEW p \in Packs, NEW i \in DOMAIN p, p[i].fixture, p[i].sequence = Absent,
         in_scope(p[i]), ~ (p[i].supported /\ p[i].minted = "crash")
  PROVE  /\ run_operation(p[i]) \in {"PASS", "FAIL", "SKIP"}
         /\ run_operation(p[i]) = "PASS" <=> Agrees(p[i])
<1> DEFINE f == p[i]
           exp == f.expected
           agrees == /\ f.verdict # "crash"
                     /\ exp.side_effects # Absent => exp.side_effects = (f.verdict = "OK")
                     /\ IF exp.outcome = "success" THEN f.verdict = "OK" /\ f.fields
                        ELSE f.verdict # "OK" /\ f.verdict = exp.error_code
           runs == f.supported /\ f.minted # "refused"
<1>1. /\ ~ runs => run_operation(f) = "SKIP"
      /\ runs /\ agrees => run_operation(f) = "PASS"
      /\ runs /\ ~ agrees => run_operation(f) = "FAIL"
  BY Zenon DEF run_operation
<1>2. runs <=> f.supported /\ f.minted = "yes"
  BY PackAssumption
<1>3. exp.error_code \notin {"OK", "crash"}
  BY PackAssumption
<1>4. exp.side_effects \in {Absent, f.verdict = "OK"}
        <=> (exp.side_effects # Absent => exp.side_effects = (f.verdict = "OK"))
  BY Zenon
<1>5. Agrees(f) <=>
        /\ f.supported /\ f.minted = "yes"
        /\ f.verdict = IF exp.outcome = "success" THEN "OK" ELSE exp.error_code
        /\ f.verdict = "OK" => f.fields
        /\ exp.side_effects \in {Absent, f.verdict = "OK"}
  BY Zenon DEF Agrees
<1>6. agrees <=>
        /\ f.verdict = IF exp.outcome = "success" THEN "OK" ELSE exp.error_code
        /\ f.verdict = "OK" => f.fields
        /\ exp.side_effects \in {Absent, f.verdict = "OK"}
  BY <1>3, <1>4 DEF agrees
<1> HIDE DEF runs
<1>7. QED
  BY <1>1, <1>2, <1>5, <1>6

\* A row that is judged keeps the invariant.
LEMMA RecordInv ==
  ASSUME IInv, Running, ~ Ignored(File), NEW status \in {"PASS", "FAIL", "SKIP"},
         status = "PASS" <=> Agrees(File), ~ in_scope(File) => status = "SKIP",
         Record(File, status)
  PROVE  IInv'
<1> DEFINE row == [status |-> status, id |-> File.id]
           R == [status : {"PASS", "FAIL", "SKIP"}, id : {pack[i].id : i \in DOMAIN pack}]
<1>1. /\ rows' = Append(rows, row)
      /\ fixtures' = [id \in DOMAIN fixtures \cup {File.id} |->
                        IF id = File.id THEN File ELSE fixtures[id]]
      /\ violations' = violations \cup
           {id \in {File.id} : status = "SKIP" /\ gates(File, options.claim)}
      /\ at' = at + 1 /\ step' = 0
      /\ pack' = pack /\ options' = options /\ report' = report /\ exit' = exit
  BY DEF Record
<1>2. /\ exit = Absent /\ at \in DOMAIN pack /\ File = pack[at]
      /\ DOMAIN pack = 1 .. Len(pack) /\ Len(pack) \in Nat
  BY PackIsSequence DEF IInv, ParametersOK, Running, File
<1>3. ParametersOK'
  BY <1>1, <1>2 DEF IInv, ParametersOK
<1>4. \A f : Ignored(f)' <=> Ignored(f)
  BY <1>1 DEF Ignored
<1>5. \A i : Done(i)' <=> Done(i) \/ i = at
  BY <1>1, <1>2, <1>4 DEF Done
<1>6. \A i : pack'[i] = pack[i]
  BY <1>1
<1>7. /\ rows \in Seq(R) /\ row \in R
  BY <1>2 DEF IInv, RowsOK
<1>8. /\ rows' \in Seq(R) /\ DOMAIN rows' = 1 .. Len(rows) + 1
      /\ DOMAIN rows = 1 .. Len(rows) /\ Len(rows) \in Nat
      /\ rows'[Len(rows) + 1] = row
      /\ \A r \in DOMAIN rows : rows'[r] = rows[r]
  BY <1>1, <1>7
<1>9. \A x, f : RowOf(x, f, options.claim, violations) => RowOf(x, f, options.claim, violations')
  BY <1>1 DEF RowOf
<1>10. RowOf(row, File, options.claim, violations')
  BY <1>1 DEF RowOf
<1> HIDE DEF row
<1>11. RowsOK'
  <2>1. ASSUME NEW i, Done(i)'
        PROVE  \E r \in DOMAIN rows' : RowOf(rows'[r], pack[i], options.claim, violations')
    <3>1. CASE Done(i)
      <4>1. PICK r \in DOMAIN rows : RowOf(rows[r], pack[i], options.claim, violations)
        BY <3>1 DEF IInv, RowsOK
      <4>2. QED
        BY <1>8, <1>9, <4>1
    <3>2. CASE i = at
      BY <1>2, <1>8, <1>10, <3>2
    <3>3. QED
      BY <1>5, <2>1, <3>1, <3>2
  <2>2. ASSUME NEW r \in DOMAIN rows'
        PROVE  \E i : Done(i)' /\ RowOf(rows'[r], pack[i], options.claim, violations')
    <3>1. CASE r \in DOMAIN rows
      <4>1. PICK i : Done(i) /\ RowOf(rows[r], pack[i], options.claim, violations)
        BY <3>1 DEF IInv, RowsOK
      <4>2. QED
        BY <1>5, <1>8, <1>9, <3>1, <4>1
    <3>2. CASE r = Len(rows) + 1
      BY <1>2, <1>5, <1>8, <1>10, <3>2
    <3>3. QED
      BY <1>8, <3>1, <3>2
  <2>3. QED
    BY <1>1, <1>8, <2>1, <2>2 DEF RowsOK
<1>12. ViolationsOK'
  <2>1. ASSUME NEW id \in violations'
        PROVE  \E i : Done(i)' /\ gates(pack[i], options.claim) /\ ~ Agrees(pack[i])
    <3>1. CASE id \in violations
      BY <1>5, <3>1 DEF IInv, ViolationsOK
    <3>2. CASE status = "SKIP" /\ gates(File, options.claim)
      BY <1>2, <1>5, <3>2
    <3>3. QED
      BY <1>1, <2>1, <3>1, <3>2
  <2>2. QED
    BY <1>1, <2>1 DEF ViolationsOK
<1>13. FixturesOK'
  <2>1. \A r \in DOMAIN rows' : rows'[r].id \in DOMAIN fixtures'
    BY <1>1, <1>8 DEF IInv, FixturesOK, row
  <2>2. ASSUME NEW id \in DOMAIN fixtures'
        PROVE  \E i : Done(i)' /\ pack[i].id = id /\ fixtures'[id] = pack[i]
    <3>1. CASE id = File.id
      BY <1>1, <1>2, <1>5, <3>1
    <3>2. CASE id # File.id
      BY <1>1, <1>5, <2>2, <3>2 DEF IInv, FixturesOK
    <3>3. QED
      BY <3>1, <3>2
  <2>3. pack' = pack
    BY <1>1
  <2>4. QED
    BY <2>1, <2>2, <2>3 DEF FixturesOK
<1>14. SequenceOK' /\ ExitOK' /\ ReportOK'
  BY <1>1, <1>2 DEF IInv, SequenceOK, ExitOK, ReportOK
<1>15. QED
  BY <1>3, <1>11, <1>12, <1>13, <1>14 DEF IInv

\* A step that deals with no file leaves what is said of the rows.
LEMMA RowsStay ==
  ASSUME RowsOK, ViolationsOK, FixturesOK,
         UNCHANGED <<pack, options, rows, fixtures, violations>>,
         \A i : Done(i)' <=> Done(i)
  PROVE  RowsOK' /\ ViolationsOK' /\ FixturesOK'
<1>1. RowsOK'
  BY DEF RowsOK
<1>2. ViolationsOK'
  BY DEF ViolationsOK
<1>3. FixturesOK'
  BY DEF FixturesOK
<1>4. QED
  BY <1>1, <1>2, <1>3

LEMMA IgnoreInv == ASSUME IInv, Ignore PROVE IInv'
<1>1. /\ exit = Absent /\ at \in 1 .. Len(pack) /\ step = 0 /\ Ignored(pack[at])
      /\ pack \in Packs /\ Len(pack) \in Nat /\ at' = at + 1
      /\ UNCHANGED <<pack, options, step, state, rows, fixtures, violations, report, exit>>
  BY PackIsSequence DEF IInv, ParametersOK, Ignore, Running, File
<1>2. \A f : Ignored(f)' <=> Ignored(f)
  BY <1>1 DEF Ignored
<1>3. \A i : Done(i)' <=> Done(i)
  BY <1>1, <1>2 DEF Done
<1>4. RowsOK' /\ ViolationsOK' /\ FixturesOK'
  BY <1>1, <1>3, RowsStay DEF IInv
<1>5. ParametersOK' /\ SequenceOK' /\ ExitOK' /\ ReportOK'
  BY <1>1 DEF IInv, ParametersOK, SequenceOK, ExitOK, ReportOK
<1>6. QED
  BY <1>4, <1>5 DEF IInv

LEMMA DeclineInv == ASSUME IInv, Decline PROVE IInv'
<1>1. Running /\ ~ Ignored(File) /\ ~ in_scope(File) /\ Record(File, "SKIP")
  BY DEF Decline
<1>2. ~ Agrees(File)
  BY <1>1 DEF Agrees
<1>3. QED
  BY <1>1, <1>2, RecordInv

\* A traceback has the file at hand to answer for it.
LEMMA TracebackInv ==
  ASSUME IInv, Running, ~ Ignored(File), in_scope(File), ~ Agrees(File),
         exit' = "Traceback",
         UNCHANGED <<pack, options, at, step, rows, fixtures, violations, report>>
  PROVE  IInv'
<1>1. \A f : Ignored(f)' <=> Ignored(f)
  BY DEF Ignored
<1>2. \A i : Done(i)' <=> Done(i)
  BY <1>1 DEF Done
<1>3. RowsOK' /\ ViolationsOK' /\ FixturesOK'
  BY <1>2, RowsStay DEF IInv
<1>4. exit' # Absent /\ exit = Absent
  BY PackAssumption DEF Running
<1>5. ParametersOK' /\ SequenceOK' /\ ReportOK'
  BY <1>4 DEF IInv, ParametersOK, SequenceOK, ReportOK
<1>6. at \in DOMAIN pack /\ ~ Ignored(pack[at]) /\ in_scope(pack[at]) /\ ~ Agrees(pack[at])
  BY DEF Running, File
<1>7. \E i \in DOMAIN pack : ~ Ignored(pack[i]) /\ in_scope(pack[i]) /\ ~ Agrees(pack[i])
  BY <1>6
<1>8. (\E i \in DOMAIN pack : ~ Ignored(pack[i]) /\ in_scope(pack[i]) /\ ~ Agrees(pack[i]))'
  BY <1>1, <1>7
<1>9. ExitOK'
  BY <1>4, <1>8 DEF ExitOK
<1>10. QED
  BY <1>3, <1>5, <1>9 DEF IInv

\* What is known of the file at hand.
LEMMA FileAtHand ==
  ASSUME IInv, Running, ~ Ignored(File)
  PROVE  /\ pack \in Packs /\ at \in DOMAIN pack /\ File = pack[at] /\ pack[at].fixture
         /\ pack[at].status # "reserved"
BY DEF IInv, ParametersOK, Running, Ignored, File

LEMMA RunOperationInv == ASSUME IInv, RunOperation PROVE IInv'
<1>1. /\ Running /\ ~ Ignored(File) /\ in_scope(File) /\ File.sequence = Absent
      /\ pack \in Packs /\ at \in DOMAIN pack /\ File = pack[at] /\ pack[at].fixture
  BY FileAtHand DEF RunOperation
<1>2. CASE File.supported /\ File.minted = "crash"
  <2>1. ~ Agrees(File)
    BY <1>1, <1>2 DEF Agrees
  <2>2. /\ exit' = "Traceback"
        /\ UNCHANGED <<pack, options, at, step, rows, fixtures, violations, report>>
    BY <1>2 DEF RunOperation
  <2>3. QED
    BY <1>1, <2>1, <2>2, TracebackInv
<1>3. CASE ~ (File.supported /\ File.minted = "crash")
  <2>1. Record(File, run_operation(File))
    BY <1>3 DEF RunOperation
  <2>2. /\ run_operation(File) \in {"PASS", "FAIL", "SKIP"}
        /\ run_operation(File) = "PASS" <=> Agrees(File)
    BY <1>1, <1>3, OperationIsJudged
  <2>3. QED
    BY <1>1, <2>1, <2>2, RecordInv
<1>4. QED
  BY <1>2, <1>3

\* Between two files nothing but the sequence moves on.
LEMMA SequenceMoves ==
  ASSUME IInv, exit = Absent, SequenceOK', step' \in Nat,
         UNCHANGED <<pack, options, at, rows, fixtures, violations, report, exit>>
  PROVE  IInv'
<1>1. \A f : Ignored(f)' <=> Ignored(f)
  BY DEF Ignored
<1>2. \A i : Done(i)' <=> Done(i)
  BY <1>1 DEF Done
<1>3. RowsOK' /\ ViolationsOK' /\ FixturesOK'
  BY <1>2, RowsStay DEF IInv
<1>4. ParametersOK' /\ ExitOK' /\ ReportOK'
  BY DEF IInv, ParametersOK, ExitOK, ReportOK
<1>5. QED
  BY <1>3, <1>4 DEF IInv

LEMMA BeginSequenceInv == ASSUME IInv, BeginSequence PROVE IInv'
<1>1. /\ Running /\ ~ Ignored(File) /\ in_scope(File) /\ File.sequence # Absent
      /\ step' = 1 /\ state' = NewState
      /\ UNCHANGED <<pack, options, at, rows, fixtures, violations, report, exit>>
  BY DEF BeginSequence
<1>2. /\ pack \in Packs /\ at \in DOMAIN pack /\ File = pack[at] /\ pack[at].fixture
  BY <1>1, FileAtHand
<1>3. Len(pack[at].sequence) \in Nat
  BY <1>1, <1>2, SequenceIsSequence
<1>4. Ignored(pack[at])' <=> Ignored(pack[at])
  BY <1>1 DEF Ignored
<1>5. Tracks(NewState, pack[at], 1)
  BY TracksNew
<1>6. SequenceOK'
  BY <1>1, <1>2, <1>3, <1>4, <1>5 DEF SequenceOK, File
<1>7. exit = Absent
  BY <1>1 DEF Running
<1>8. QED
  BY <1>1, <1>6, <1>7, SequenceMoves

\* The four ways on from a step.
LEMMA RunStepCases ==
  ASSUME RunStep
  PROVE  LET result == run_step(state, File.sequence[step], File)
         IN  /\ state' = result.after
             /\ result.outcome = "Traceback" =>
                  /\ exit' = "Traceback"
                  /\ UNCHANGED <<pack, options, at, step, rows, fixtures, violations, report>>
             /\ result.outcome = "unsupported" => Record(File, "SKIP")
             /\ result.outcome \in {"success", "failure"} =>
                  IF meets(result, File.sequence[step].expected)
                  THEN /\ step' = step + 1
                       /\ UNCHANGED <<pack, options, at, rows, fixtures, violations, report, exit>>
                  ELSE Record(File, "FAIL")
<1> DEFINE result == run_step(state, File.sequence[step], File)
           crashes == /\ exit' = "Traceback"
                      /\ UNCHANGED <<pack, options, at, step, rows, fixtures, violations, report>>
           skips == Record(File, "SKIP")
           goesOn == IF meets(result, File.sequence[step].expected)
                     THEN /\ step' = step + 1
                          /\ UNCHANGED <<pack, options, at, rows, fixtures, violations, report, exit>>
                     ELSE Record(File, "FAIL")
<1>1. /\ state' = result.after
      /\ CASE result.outcome = "Traceback"              -> crashes
           [] result.outcome = "unsupported"            -> skips
           [] result.outcome \in {"success", "failure"} -> goesOn
  BY Zenon DEF RunStep
<1> HIDE DEF result, crashes, skips, goesOn
<1>2. result.outcome = "Traceback" => crashes
  BY <1>1, Zenon
<1>3. result.outcome = "unsupported" => skips
  BY <1>1, Zenon
<1>4. result.outcome \in {"success", "failure"} => goesOn
  BY <1>1, Zenon
<1>5. QED
  BY <1>1, <1>2, <1>3, <1>4 DEF result, crashes, skips, goesOn

LEMMA RunStepInv == ASSUME IInv, RunStep PROVE IInv'
<1> DEFINE f == pack[at]
           result == run_step(state, f.sequence[step], f)
<1>1. /\ Running /\ step > 0 /\ step \in DOMAIN File.sequence /\ exit = Absent
      /\ step \in Nat \ {0}
  BY DEF RunStep, Running, IInv, ParametersOK
<1>2. /\ ~ Ignored(File) /\ in_scope(File) /\ File.sequence # Absent
      /\ \A j \in 1 .. step - 1 : StepAgrees(File, j)
      /\ Tracks(state, File, step)
  BY <1>1 DEF IInv, SequenceOK
<1>3. /\ pack \in Packs /\ at \in DOMAIN pack /\ File = f /\ f.fixture
  BY <1>1, <1>2, FileAtHand
<1>4. /\ f.marked \in BOOLEAN
      /\ f.sequence[step].operation \in StepOperations \cup {"unknown"}
      /\ DOMAIN f.sequence = 1 .. Len(f.sequence) /\ Len(f.sequence) \in Nat
  BY <1>1, <1>2, <1>3, SequenceIsSequence, PackAssumption
<1>5. /\ result.outcome \in {"Traceback", "unsupported", "success", "failure"}
      /\ result.outcome \in {"Traceback", "unsupported"} => ~ StepAgrees(f, step)
      /\ result.outcome \in {"success", "failure"} =>
           /\ meets(result, f.sequence[step].expected) <=> StepAgrees(f, step)
           /\ Tracks(result.after, f, step + 1)
  BY <1>1, <1>2, <1>3, <1>4, StepIsJudged
<1>6. /\ state' = result.after
      /\ result.outcome = "Traceback" =>
           /\ exit' = "Traceback"
           /\ UNCHANGED <<pack, options, at, step, rows, fixtures, violations, report>>
      /\ result.outcome = "unsupported" => Record(File, "SKIP")
      /\ result.outcome \in {"success", "failure"} =>
           IF meets(result, f.sequence[step].expected)
           THEN /\ step' = step + 1
                /\ UNCHANGED <<pack, options, at, rows, fixtures, violations, report, exit>>
           ELSE Record(File, "FAIL")
  BY <1>3, RunStepCases
<1> HIDE DEF result
<1>7. ~ StepAgrees(f, step) => ~ Agrees(File)
  BY <1>1, <1>2, <1>3 DEF Agrees
<1>8. CASE result.outcome = "Traceback"
  BY <1>1, <1>2, <1>5, <1>6, <1>7, <1>8, TracebackInv
<1>9. CASE result.outcome = "unsupported"
  BY <1>1, <1>2, <1>5, <1>6, <1>7, <1>9, RecordInv
<1>10. CASE /\ result.outcome \in {"success", "failure"}
            /\ ~ meets(result, f.sequence[step].expected)
  BY <1>1, <1>2, <1>5, <1>6, <1>7, <1>10, RecordInv
<1>11. CASE /\ result.outcome \in {"success", "failure"}
            /\ meets(result, f.sequence[step].expected)
  <2>1. /\ step' = step + 1 /\ state' = result.after
        /\ UNCHANGED <<pack, options, at, rows, fixtures, violations, report, exit>>
    BY <1>6, <1>11
  <2>2. \A j \in 1 .. step : StepAgrees(f, j)
    BY <1>1, <1>2, <1>3, <1>5, <1>11
  <2>3. Tracks(state', f, step')
    BY <1>5, <1>11, <2>1
  <2>4. Ignored(f)' <=> Ignored(f)
    BY <2>1 DEF Ignored
  <2>5. File' = f /\ pack' = pack /\ at' = at
    BY <2>1 DEF File
  <2>6. /\ step' \in 1 .. Len(f.sequence) + 1
        /\ \A j \in 1 .. step' - 1 : StepAgrees(f, j)
    BY <1>1, <1>3, <1>4, <2>1, <2>2
  <2>7. /\ at' \in DOMAIN pack' /\ ~ Ignored(File)' /\ in_scope(File')
        /\ File'.sequence # Absent
    BY <1>2, <1>3, <2>4, <2>5
  <2>8. SequenceOK'
    BY <2>3, <2>5, <2>6, <2>7 DEF SequenceOK
  <2>9. QED
    BY <1>1, <2>1, <2>8, SequenceMoves
<1>12. QED
  BY <1>5, <1>8, <1>9, <1>10, <1>11

LEMMA EndSequenceInv == ASSUME IInv, EndSequence PROVE IInv'
<1>1. /\ Running /\ step > 0 /\ step \notin DOMAIN File.sequence /\ exit = Absent
      /\ Record(File, "PASS")
  BY DEF EndSequence, Running
<1>2. /\ ~ Ignored(File) /\ in_scope(File) /\ File.sequence # Absent
      /\ step \in 1 .. Len(File.sequence) + 1
      /\ \A j \in 1 .. step - 1 : StepAgrees(File, j)
  BY <1>1 DEF IInv, SequenceOK
<1>3. pack \in Packs /\ at \in DOMAIN pack /\ File = pack[at] /\ pack[at].fixture
  BY <1>1, <1>2, FileAtHand
<1>4. DOMAIN File.sequence = 1 .. Len(File.sequence) /\ Len(File.sequence) \in Nat
  BY <1>2, <1>3, SequenceIsSequence
<1>5. \A j \in DOMAIN File.sequence : StepAgrees(File, j)
  BY <1>1, <1>2, <1>4
<1>6. Agrees(File)
  BY <1>2, <1>5 DEF Agrees
<1>7. QED
  BY <1>1, <1>2, <1>6, RecordInv

LEMMA FinishInv == ASSUME IInv, Finish PROVE IInv'
<1>1. /\ exit = Absent /\ at \notin DOMAIN pack /\ exit' = exit_code
      /\ report' = IF options.report /\ reportable THEN build_report ELSE Absent
      /\ UNCHANGED <<pack, options, at, step, state, rows, fixtures, violations>>
  BY DEF Finish
<1>2. \A f : Ignored(f)' <=> Ignored(f)
  BY <1>1 DEF Ignored
<1>3. \A i : Done(i)' <=> Done(i)
  BY <1>1, <1>2 DEF Done
<1>4. RowsOK' /\ ViolationsOK' /\ FixturesOK'
  BY <1>1, <1>3, RowsStay DEF IInv
<1>5. exit' # Absent
  BY <1>1, PackAssumption DEF exit_code
<1>6. ParametersOK' /\ SequenceOK'
  BY <1>1, <1>5 DEF IInv, ParametersOK, SequenceOK
<1>7. exit_code' = exit_code
  BY <1>1 DEF exit_code, count, reportable
<1>8. ExitOK'
  BY <1>1, <1>5, <1>7 DEF ExitOK
<1>9. build_report' = build_report
  BY <1>1 DEF build_report, covered, blocking
<1>10. report # Absent => FALSE
  BY <1>1 DEF IInv, ReportOK
<1>11. report' # Absent => options.only = Absent /\ report' = build_report
  BY <1>1 DEF IInv, ExitOK
<1>12. ReportOK'
  BY <1>1, <1>5, <1>9, <1>11 DEF ReportOK
<1>13. QED
  BY <1>4, <1>6, <1>8, <1>12 DEF IInv

LEMMA StutterInv == ASSUME IInv, UNCHANGED vars PROVE IInv'
<1>1. UNCHANGED <<pack, options, at, step, state, rows, fixtures, violations, report, exit>>
  BY DEF vars
<1>2. \A f : Ignored(f)' <=> Ignored(f)
  BY <1>1 DEF Ignored
<1>3. \A i : Done(i)' <=> Done(i)
  BY <1>1, <1>2 DEF Done
<1>4. RowsOK' /\ ViolationsOK' /\ FixturesOK'
  BY <1>1, <1>3, RowsStay DEF IInv
<1>5. exit_code' = exit_code /\ build_report' = build_report
  BY <1>1 DEF exit_code, count, reportable, build_report, covered, blocking
<1>6. ParametersOK' /\ ReportOK'
  BY <1>1, <1>5 DEF IInv, ParametersOK, ReportOK
<1>7. ExitOK'
  BY <1>1, <1>2, <1>5 DEF IInv, ExitOK
<1>8. File' = File /\ (Ignored(File)' <=> Ignored(File))
  BY <1>1 DEF File, Ignored
<1>9. SequenceOK'
  BY <1>1, <1>8 DEF IInv, SequenceOK
<1>10. QED
  BY <1>4, <1>6, <1>7, <1>9 DEF IInv

(***************************************************************************)
(* Whatever the runner does next, its rows say what the fixtures dealt     *)
(* with so far are worth, and the sequence at hand has agreed so far.      *)
(***************************************************************************)
THEOREM Invariance == Spec => []IInv
<1>1. IInv /\ [Next]_vars => IInv'
  <2> SUFFICES ASSUME IInv, [Next]_vars
               PROVE  IInv'
    OBVIOUS
  <2>1. CASE Ignore
    BY <2>1, IgnoreInv
  <2>2. CASE Decline
    BY <2>2, DeclineInv
  <2>3. CASE RunOperation
    BY <2>3, RunOperationInv
  <2>4. CASE BeginSequence
    BY <2>4, BeginSequenceInv
  <2>5. CASE RunStep
    BY <2>5, RunStepInv
  <2>6. CASE EndSequence
    BY <2>6, EndSequenceInv
  <2>7. CASE Finish
    BY <2>7, FinishInv
  <2>8. CASE UNCHANGED vars
    BY <2>8, StutterInv
  <2>9. QED
    BY <2>1, <2>2, <2>3, <2>4, <2>5, <2>6, <2>7, <2>8 DEF Next
<1>2. QED
  BY InitInv, <1>1, PTL DEF Spec

-----------------------------------------------------------------------------
(* What the rows say of the exit code and of the report.                   *)

\* is_required and gates, which read the metadata the way the schema's
\* defaults have it, come to what a claim rests on.
LEMMA GatesAreBehind ==
  ASSUME NEW p \in Packs, NEW i \in DOMAIN p, p[i].fixture, NEW claim \in DOMAIN CLAIMS
  PROVE  /\ gates(p[i], claim) <=> Behind(p[i], claim)
         /\ CLAIMS[claim] # Absent => (Behind(p[i], claim) <=> p[i].feature = CLAIMS[claim])
<1> DEFINE Value(c) == CASE c = CORE_CLAIM                   -> Absent
                         [] c = "AITP v0.3 pinned-admission" -> "aitp-pinned-admission"
                         [] OTHER                            -> "aitp-self-attestation"
<1>1. CLAIMS[claim] = Value(claim)
  BY Zenon DEF CLAIMS
<1>2. /\ claim = CORE_CLAIM => Value(claim) = Absent
      /\ claim # CORE_CLAIM => Value(claim) \in {"aitp-pinned-admission", "aitp-self-attestation"}
  <2>1. claim \in {CORE_CLAIM, "AITP v0.3 pinned-admission", "AITP v0.3 self-attestation"}
    BY DEF CLAIMS
  <2>2. claim = CORE_CLAIM => Value(claim) = Absent
    BY Zenon DEF CORE_CLAIM
  <2>3. claim = "AITP v0.3 pinned-admission" => Value(claim) = "aitp-pinned-admission"
    BY Zenon DEF CORE_CLAIM
  <2>4. claim = "AITP v0.3 self-attestation" => Value(claim) = "aitp-self-attestation"
    BY Zenon DEF CORE_CLAIM
  <2> HIDE DEF Value
  <2>5. QED
    BY <2>1, <2>2, <2>3, <2>4
<1> HIDE DEF Value
<1>3. /\ claim = CORE_CLAIM <=> CLAIMS[claim] = Absent
      /\ p[i].required \in BOOLEAN \cup {Absent} /\ Absent \notin BOOLEAN
  BY <1>1, <1>2, PackAssumption
<1>4. QED
  BY <1>3 DEF gates, is_required, StatusOf, Behind

LEMMA CountIsExistence ==
  ASSUME RowsOK, NEW status
  PROVE  count(status) > 0 <=> \E r \in DOMAIN rows : rows[r].status = status
<1> DEFINE S == {r \in DOMAIN rows : rows[r].status = status}
<1>1. DOMAIN rows = 1 .. Len(rows) /\ Len(rows) \in Nat
  BY DEF RowsOK
<1>2. IsFiniteSet(1 .. Len(rows))
  BY <1>1, FS_Interval
<1>3. IsFiniteSet(S)
  BY <1>1, <1>2, FS_Subset
<1>4. Cardinality(S) \in Nat /\ (Cardinality(S) = 0 <=> S = {})
  BY <1>3, FS_CardinalityType, FS_EmptySet
<1>5. QED
  BY <1>4 DEF count

\* A run of the whole pack that came to its end has dealt with every scenario.
LEMMA AllAreDone ==
  ASSUME IInv, at \notin DOMAIN pack, options.only = Absent
  PROVE  /\ \A f \in Scenarios : \E i \in DOMAIN pack : Done(i) /\ pack[i] = f /\ f.fixture
         /\ \A i : Done(i) => i \in DOMAIN pack /\ pack[i].fixture /\ pack[i] \in Scenarios
<1>1. /\ pack \in Packs /\ DOMAIN pack = 1 .. Len(pack) /\ Len(pack) \in Nat
      /\ at = Len(pack) + 1
  BY PackIsSequence DEF IInv, ParametersOK
<1>2. QED
  BY <1>1 DEF Done, Ignored, Scenarios

LEMMA GreenFromInv == IInv => GreenMeansAgreement
<1> SUFFICES ASSUME IInv, exit = "0", options.only = Absent, NEW f \in Scenarios,
                    Behind(f, options.claim)
             PROVE  Agrees(f)
  BY DEF GreenMeansAgreement
<1>1. exit = exit_code /\ at \notin DOMAIN pack
  BY PackAssumption DEF IInv, ExitOK
<1>2. ~ (count("FAIL") > 0) /\ violations = {}
  BY <1>1 DEF exit_code
<1>3. PICK i \in DOMAIN pack : Done(i) /\ pack[i] = f /\ f.fixture
  BY <1>1, AllAreDone
<1>4. PICK r \in DOMAIN rows : RowOf(rows[r], f, options.claim, violations)
  BY <1>3 DEF IInv, RowsOK
<1>5. rows[r].status # "FAIL"
  BY <1>2, CountIsExistence DEF IInv
<1>6. gates(f, options.claim)
  BY <1>3, GatesAreBehind, PackAssumption DEF IInv, ParametersOK
<1>7. QED
  BY <1>2, <1>4, <1>5, <1>6 DEF RowOf

LEMMA AgreementFromInv == IInv => AgreementIsGreen
<1> SUFFICES ASSUME IInv, exit # Absent, options.only = Absent, options.min_passed = Absent,
                    options.report => reportable,
                    \A f \in Scenarios :
                      Agrees(f) \/ (~ in_scope(f) /\ ~ Behind(f, options.claim))
             PROVE  exit = "0"
  BY DEF AgreementIsGreen
<1>1. \A i \in DOMAIN pack : ~ Ignored(pack[i]) => pack[i] \in Scenarios /\ pack[i].fixture
  BY DEF Ignored, Scenarios
<1>2. exit = exit_code /\ at \notin DOMAIN pack
  BY <1>1 DEF IInv, ExitOK
<1>3. \A i : Done(i) => i \in DOMAIN pack /\ pack[i].fixture /\ pack[i] \in Scenarios
  BY <1>2, AllAreDone
<1>4. ~ (count("FAIL") > 0)
  <2> SUFFICES ASSUME NEW r \in DOMAIN rows, rows[r].status = "FAIL"
               PROVE  FALSE
    BY CountIsExistence DEF IInv
  <2>1. PICK i : Done(i) /\ RowOf(rows[r], pack[i], options.claim, violations)
    BY DEF IInv, RowsOK
  <2>2. pack[i] \in Scenarios
    BY <1>3, <2>1
  <2>3. ~ Agrees(pack[i]) /\ in_scope(pack[i])
    BY <2>1 DEF RowOf
  <2>4. QED
    BY <2>2, <2>3
<1>5. violations = {}
  <2> SUFFICES ASSUME NEW id \in violations
               PROVE  FALSE
    OBVIOUS
  <2>1. PICK i : Done(i) /\ gates(pack[i], options.claim) /\ ~ Agrees(pack[i])
    BY DEF IInv, ViolationsOK
  <2>2. i \in DOMAIN pack /\ pack[i].fixture /\ pack[i] \in Scenarios
    BY <1>3, <2>1
  <2>3. Behind(pack[i], options.claim)
    BY <2>1, <2>2, GatesAreBehind, PackAssumption DEF IInv, ParametersOK
  <2>4. QED
    BY <2>1, <2>2, <2>3
<1>6. QED
  BY <1>2, <1>4, <1>5 DEF exit_code

\* With distinct ids the fixture a row's id leads back to is the row's own.
LEMMA RowsLeadBack ==
  ASSUME IInv, DistinctIds, at \notin DOMAIN pack, options.only = Absent
  PROVE  /\ \A r \in DOMAIN rows :
              /\ fixtures[rows[r].id] \in Scenarios
              /\ rows[r].status = "PASS" <=> Agrees(fixtures[rows[r].id])
         /\ \A f \in Scenarios : \E r \in DOMAIN rows : fixtures[rows[r].id] = f
<1>1. /\ \A f \in Scenarios : \E i \in DOMAIN pack : Done(i) /\ pack[i] = f /\ f.fixture
      /\ \A i : Done(i) => i \in DOMAIN pack /\ pack[i].fixture /\ pack[i] \in Scenarios
  BY AllAreDone
<1>2. ASSUME NEW r \in DOMAIN rows, NEW i, Done(i),
             RowOf(rows[r], pack[i], options.claim, violations)
      PROVE  fixtures[rows[r].id] = pack[i]
  <2>1. rows[r].id = pack[i].id
    BY <1>2 DEF RowOf
  <2>2. PICK j : Done(j) /\ pack[j].id = rows[r].id /\ fixtures[rows[r].id] = pack[j]
    BY DEF IInv, FixturesOK
  <2>3. QED
    BY <1>1, <1>2, <2>1, <2>2 DEF DistinctIds
<1>3. ASSUME NEW r \in DOMAIN rows
      PROVE  /\ fixtures[rows[r].id] \in Scenarios
             /\ rows[r].status = "PASS" <=> Agrees(fixtures[rows[r].id])
  <2>1. PICK i : Done(i) /\ RowOf(rows[r], pack[i], options.claim, violations)
    BY DEF IInv, RowsOK
  <2>2. fixtures[rows[r].id] = pack[i]
    BY <1>2, <2>1
  <2>3. QED
    BY <1>1, <2>1, <2>2 DEF RowOf
<1>4. ASSUME NEW f \in Scenarios
      PROVE  \E r \in DOMAIN rows : fixtures[rows[r].id] = f
  <2>1. PICK i \in DOMAIN pack : Done(i) /\ pack[i] = f
    BY <1>1
  <2>2. PICK r \in DOMAIN rows : RowOf(rows[r], pack[i], options.claim, violations)
    BY <2>1 DEF IInv, RowsOK
  <2>3. QED
    BY <1>2, <2>1, <2>2
<1>5. QED
  BY <1>3, <1>4

LEMMA ReportFromInv == IInv => ReportTellsTheSame
<1> SUFFICES ASSUME IInv, report # Absent, DistinctIds, NEW claim \in DOMAIN report
             PROVE  report[claim] <=>
                      /\ CLAIMS[claim] = Absent \/ \E f \in Scenarios : Behind(f, claim)
                      /\ \A f \in Scenarios : Behind(f, claim) => Agrees(f)
  BY DEF ReportTellsTheSame
<1>1. options.only = Absent /\ at \notin DOMAIN pack /\ report = build_report
  BY DEF IInv, ReportOK
<1>2. claim \in DOMAIN CLAIMS /\ report[claim] = (covered(claim) /\ blocking(claim) = {})
  BY <1>1 DEF build_report
<1>3. /\ \A r \in DOMAIN rows :
           /\ fixtures[rows[r].id] \in Scenarios
           /\ rows[r].status = "PASS" <=> Agrees(fixtures[rows[r].id])
      /\ \A f \in Scenarios : \E r \in DOMAIN rows : fixtures[rows[r].id] = f
  BY <1>1, RowsLeadBack
<1>4. \A f \in Scenarios :
        /\ gates(f, claim) <=> Behind(f, claim)
        /\ CLAIMS[claim] # Absent => (Behind(f, claim) <=> f.feature = CLAIMS[claim])
  <2>1. ASSUME NEW f \in Scenarios
        PROVE  /\ gates(f, claim) <=> Behind(f, claim)
               /\ CLAIMS[claim] # Absent => (Behind(f, claim) <=> f.feature = CLAIMS[claim])
    <3>1. PICK i \in DOMAIN pack : pack[i] = f /\ pack[i].fixture
      BY DEF Scenarios
    <3>2. pack \in Packs
      BY DEF IInv, ParametersOK
    <3>3. QED
      BY <1>2, <3>1, <3>2, GatesAreBehind
  <2>2. QED
    BY <2>1
<1>5. covered(claim) <=> CLAIMS[claim] = Absent \/ \E f \in Scenarios : Behind(f, claim)
  BY <1>3, <1>4 DEF covered
<1>6. blocking(claim) = {} <=>
        \A r \in DOMAIN rows : gates(fixtures[rows[r].id], claim) => rows[r].status = "PASS"
  BY DEF blocking
<1>7. blocking(claim) = {} <=> \A f \in Scenarios : Behind(f, claim) => Agrees(f)
  BY <1>3, <1>4, <1>6
<1>8. QED
  BY <1>2, <1>5, <1>7

-----------------------------------------------------------------------------
(***************************************************************************)
(* run_pack, run_fixture and _run_sequence leave no fixture behind a claim *)
(* unaccounted for: when main answers 0 for a run of the whole pack, each  *)
(* of them was run and agreed, step by step.                               *)
(***************************************************************************)
THEOREM GreenMeansAgreementHolds == Spec => []GreenMeansAgreement
BY Invariance, GreenFromInv, PTL

(***************************************************************************)
(* No fixture fails in run_pack because of one that ran before it, and     *)
(* main has no other reason to refuse: a pack that agrees ends with 0.     *)
(***************************************************************************)
THEOREM AgreementIsGreenHolds == Spec => []AgreementIsGreen
BY Invariance, AgreementFromInv, PTL

(***************************************************************************)
(* build_report judges the claims from rows and a table of fixtures by id, *)
(* the run itself from the violations it noted on its way: a gate of the   *)
(* report passes exactly when the fixtures behind its claim agree.         *)
(***************************************************************************)
THEOREM ReportTellsTheSameHolds == Spec => []ReportTellsTheSame
BY Invariance, ReportFromInv, PTL

-----------------------------------------------------------------------------
(* Induction and recursion over the naturals.                              *)

(***************************************************************************)
(* A set of naturals that holds 0 and with each number the next one is all *)
(* of them.                                                                *)
(***************************************************************************)
LEMMA Induction ==
  ASSUME NEW S \in SUBSET Nat, 0 \in S, \A k \in S : k + 1 \in S
  PROVE  \A k \in Nat : k \in S
<1> DEFINE R == OpToRel(<, Nat)
           T == Nat \ S
<1>1. \A x, y \in Nat : x < y => <<x, y>> \in R
  BY DEF OpToRel
<1> HIDE DEF R
<1>2. IsWellFoundedOn(R, Nat)
  BY NatLessThanWellFounded DEF R
<1> SUFFICES ASSUME T # {} PROVE FALSE
  OBVIOUS
<1>3. PICK x \in T : \A y \in T : ~ (<<y, x>> \in R)
  <2>1. T \subseteq Nat
    OBVIOUS
  <2> HIDE DEF T
  <2>2. QED
    BY <1>2, <2>1, WFMin
<1>4. x \in Nat /\ x # 0 /\ x \notin S
  OBVIOUS
<1>5. x - 1 \in Nat /\ x - 1 < x /\ (x - 1) + 1 = x
  BY <1>4
<1>6. x - 1 \notin T
  BY <1>1, <1>3, <1>4, <1>5
<1>7. x - 1 \in S
  BY <1>5, <1>6
<1>8. QED
  BY <1>4, <1>5, <1>7

\* The functions that begin with base and go on with one step a level.
Steps(V) == [Nat -> [V -> V]]

Recursions(V, base, Step) ==
  {f \in [Nat -> V] : f[0] = base /\ \A k \in Nat : f[k + 1] = Step[k][f[k]]}

(***************************************************************************)
(* What is defined level by level exists.                                  *)
(***************************************************************************)
LEMMA Recursion ==
  ASSUME NEW V, NEW base \in V, NEW Step \in Steps(V)
  PROVE  \E f : f \in Recursions(V, base, Step)
<1> USE DEF Steps
<1> DEFINE Levels(k) == {g \in [0 .. k -> V] : /\ g[0] = base
                                               /\ \A j \in 0 .. k - 1 : g[j + 1] = Step[j][g[j]]}
           Some == {k \in Nat : Levels(k) # {}}
           Alike == {j \in Nat : \A k, l \in Nat : j <= k /\ j <= l =>
                       \A g \in Levels(k), h \in Levels(l) : g[j] = h[j]}
           f == [k \in Nat |-> (CHOOSE g \in Levels(k) : TRUE)[k]]
<1>1. \A k \in Nat : k \in Some
  <2>1. 0 \in Some
    <3>1. [i \in 0 .. 0 |-> base] \in Levels(0)
      OBVIOUS
    <3>2. QED
      BY <3>1
  <2>2. ASSUME NEW k \in Some PROVE k + 1 \in Some
    <3>1. PICK g \in Levels(k) : TRUE
      OBVIOUS
    <3> DEFINE h == [i \in 0 .. k + 1 |-> IF i = k + 1 THEN Step[k][g[k]] ELSE g[i]]
    <3>2. h \in [0 .. k + 1 -> V]
      <4>1. Step[k] \in [V -> V] /\ g[k] \in V
        BY <3>1
      <4>2. \A i \in 0 .. k + 1 : i # k + 1 => g[i] \in V
        BY <3>1
      <4>3. QED
        BY <4>1, <4>2
    <3>3. \A j \in 0 .. (k + 1) - 1 : h[j + 1] = Step[j][h[j]]
      <4>1. ASSUME NEW j \in 0 .. k PROVE h[j + 1] = Step[j][h[j]]
        <5>1. CASE j = k
          BY <5>1
        <5>2. CASE j # k
          BY <3>1, <5>2
        <5>3. QED
          BY <5>1, <5>2
      <4>2. QED
        BY <4>1
    <3>4. h[0] = base
      BY <3>1
    <3>5. h \in Levels(k + 1)
      BY <3>2, <3>3, <3>4
    <3> HIDE DEF Levels, h
    <3>6. QED
      BY <3>5
  <2> HIDE DEF Some
  <2>3. Some \in SUBSET Nat
    BY DEF Some
  <2>4. QED
    BY <2>1, <2>2, <2>3, Induction
<1>2. \A j \in Nat : j \in Alike
  <2>1. 0 \in Alike
    OBVIOUS
  <2>2. ASSUME NEW j \in Alike PROVE j + 1 \in Alike
    <3>1. ASSUME NEW k \in Nat, NEW l \in Nat, j + 1 <= k, j + 1 <= l,
                 NEW g \in Levels(k), NEW h \in Levels(l)
          PROVE  g[j + 1] = h[j + 1]
      <4>1. g[j] = h[j]
        <5> HIDE DEF Levels
        <5>1. j <= k /\ j <= l
          BY <3>1
        <5>2. QED
          BY <3>1, <5>1
      <4>2. j \in 0 .. k - 1 /\ j \in 0 .. l - 1
        BY <3>1
      <4>3. g[j + 1] = Step[j][g[j]]
        BY <4>2
      <4>4. h[j + 1] = Step[j][h[j]]
        BY <4>2
      <4>5. QED
        BY <4>1, <4>3, <4>4
    <3> HIDE DEF Levels
    <3>2. QED
      BY <3>1
  <2> HIDE DEF Alike
  <2>3. Alike \in SUBSET Nat
    BY DEF Alike
  <2>4. QED
    BY <2>1, <2>2, <2>3, Induction
<1>3. \A k \in Nat : (CHOOSE g \in Levels(k) : TRUE) \in Levels(k)
  BY <1>1
<1>4. f \in [Nat -> V]
  <2>1. ASSUME NEW k \in Nat PROVE (CHOOSE g \in Levels(k) : TRUE)[k] \in V
    <3> DEFINE g == CHOOSE g \in Levels(k) : TRUE
    <3>1. g \in Levels(k)
      BY <1>3
    <3> HIDE DEF g
    <3>2. g \in [0 .. k -> V] /\ k \in 0 .. k
      BY <3>1
    <3>3. g[k] \in V
      BY <3>2
    <3>4. QED
      BY <3>3 DEF g
  <2> HIDE DEF Levels
  <2>2. QED
    BY <2>1
<1>5. f[0] = base
  <2> DEFINE g == CHOOSE g \in Levels(0) : TRUE
  <2>1. g \in Levels(0)
    BY <1>3
  <2>2. f[0] = g[0]
    OBVIOUS
  <2> HIDE DEF g, f
  <2>3. QED
    BY <2>1, <2>2
<1>6. ASSUME NEW k \in Nat PROVE f[k + 1] = Step[k][f[k]]
  <2> DEFINE g == CHOOSE e \in Levels(k) : TRUE
             h == CHOOSE e \in Levels(k + 1) : TRUE
  <2>1. g \in Levels(k)
    BY <1>3
  <2>2. k + 1 \in Nat /\ h \in Levels(k + 1)
    <3> HIDE DEF Levels
    <3>1. QED
      BY <1>3
  <2>3. f[k] = g[k] /\ f[k + 1] = h[k + 1]
    <3> HIDE DEF Levels
    <3>1. QED
      OBVIOUS
  <2> HIDE DEF g, h, f
  <2>4. g[k] = h[k]
    <3>1. k <= k /\ k <= k + 1
      OBVIOUS
    <3> HIDE DEF Levels
    <3>2. QED
      BY <1>2, <3>1, <2>1, <2>2
  <2>5. k \in 0 .. (k + 1) - 1
    OBVIOUS
  <2>6. h[k + 1] = Step[k][h[k]]
    BY <2>2, <2>5
  <2>7. QED
    BY <2>3, <2>4, <2>6
<1> HIDE DEF f
<1>7. QED
  BY <1>4, <1>5, <1>6 DEF Recursions


-----------------------------------------------------------------------------
(* Sequences of sequences, one after the other (FlattenSeq).               *)

LEMMA Joined ==
  ASSUME NEW S, NEW a \in Seq(S), NEW b \in Seq(S)
  PROVE  \E ab \in Seq(S) : ab = a \o b
<1>1. a \o b \in Seq(S)
  BY ConcatProperties
<1>2. QED
  BY <1>1, Zenon

(***************************************************************************)
(* What is put together one sequence at a time is the flat sequence.       *)
(***************************************************************************)
LEMMA FlattenIs ==
  ASSUME NEW S, NEW ss \in Seq(Seq(S)), NEW f \in [0 .. Len(ss) -> Seq(S)], f[0] = <<>>,
         \A i \in 1 .. Len(ss) : f[i] = f[i - 1] \o ss[i]
  PROVE  FlattenSeq(ss) = f[Len(ss)] /\ FlattenSeq(ss) \in Seq(S)
<1>1. CASE Len(ss) = 0
  <2>1. ss = <<>>
    BY <1>1
  <2>2. FlattenSeq(ss) = ss
    BY <1>1 DEF FlattenSeq
  <2>3. QED
    BY <1>1, <2>1, <2>2
<1>2. CASE Len(ss) # 0
  <2> DEFINE n == Len(ss)
             Is(g) == g = [i \in 1 .. n |-> IF i = 1 THEN ss[i] ELSE g[i - 1] \o ss[i]]
             h == [i \in 1 .. n |-> f[i]]
             flatten == CHOOSE g : Is(g)
  <2>0. n \in Nat /\ n # 0 /\ n \in 1 .. n
    BY <1>2
  <2>1. Is(h)
    <3>1. ASSUME NEW i \in 1 .. n
          PROVE  h[i] = IF i = 1 THEN ss[i] ELSE h[i - 1] \o ss[i]
      <4>1. CASE i = 1
        <5>1. ss[1] \in Seq(S)
          BY <2>0
        <5>2. f[1] = f[0] \o ss[1]
          <6>1. 1 \in 1 .. Len(ss)
            BY <2>0
          <6>2. \A l \in 1 .. Len(ss) : f[l] = f[l - 1] \o ss[l]
            OBVIOUS
          <6> HIDE DEF n, Is, h, flatten
          <6>3. f[1] = f[1 - 1] \o ss[1]
            BY <6>1, <6>2, Zenon
          <6>4. 1 - 1 = 0
            OBVIOUS
          <6>5. QED
            BY <6>3, <6>4, Zenon
        <5>3. <<>> \o ss[1] = ss[1]
          BY <5>1, ConcatEmptySeq
        <5>4. QED
          BY <4>1, <5>2, <5>3
      <4>2. CASE i # 1
        <5>1. i - 1 \in 1 .. n
          BY <4>2
        <5>2. QED
          BY <4>2, <5>1
      <4>3. QED
        BY <4>1, <4>2
    <3>2. DOMAIN h = 1 .. n
      OBVIOUS
    <3> HIDE DEF h, n
    <3>3. h = [i \in 1 .. n |-> h[i]]
      BY <3>2 DEF h
    <3>4. QED
      BY <3>1, <3>3, Zenon
  <2>2. Is(flatten)
    <3> HIDE DEF Is, h
    <3>1. QED
      BY <2>1
  <2>3. FlattenSeq(ss) = flatten[n]
    BY <2>0 DEF FlattenSeq
  <2>4. \A i \in Nat : i \in {k \in Nat : k + 1 \in 1 .. n => flatten[k + 1] = f[k + 1]}
    <3> DEFINE Good == {k \in Nat : k + 1 \in 1 .. n => flatten[k + 1] = f[k + 1]}
    <3> HIDE DEF flatten
    <3>1. \A i \in 1 .. n : flatten[i] = IF i = 1 THEN ss[i] ELSE flatten[i - 1] \o ss[i]
      BY <2>2
    <3>2. \A i \in 1 .. n : f[i] = IF i = 1 THEN ss[i] ELSE f[i - 1] \o ss[i]
      <4>1. \A i \in 1 .. n : h[i] = IF i = 1 THEN ss[i] ELSE h[i - 1] \o ss[i]
        BY <2>1
      <4>2. \A i \in 1 .. n : i # 1 => i - 1 \in 1 .. n
        OBVIOUS
      <4>3. QED
        BY <4>1, <4>2
    <3> HIDE DEF n
    <3>3. 0 \in Good
      BY <3>1, <3>2
    <3>4. ASSUME NEW k \in Good PROVE k + 1 \in Good
      <4>1. CASE (k + 1) + 1 \in 1 .. n
        <5>1. k + 1 \in 1 .. n /\ (k + 1) + 1 # 1 /\ ((k + 1) + 1) - 1 = k + 1
          BY <4>1, <2>0
        <5>2. flatten[(k + 1) + 1] = flatten[k + 1] \o ss[(k + 1) + 1]
          BY <3>1, <4>1, <5>1
        <5>3. f[(k + 1) + 1] = f[k + 1] \o ss[(k + 1) + 1]
          BY <3>2, <4>1, <5>1
        <5> HIDE DEF flatten
        <5>4. flatten[k + 1] = f[k + 1]
          BY <5>1
        <5>5. flatten[(k + 1) + 1] = f[(k + 1) + 1]
          BY <5>2, <5>3, <5>4, Zenon
        <5>6. k + 1 \in Nat
          OBVIOUS
        <5>7. QED
          BY <5>5, <5>6
      <4>2. QED
        BY <4>1
    <3> HIDE DEF Good
    <3>5. Good \in SUBSET Nat
      BY DEF Good
    <3>6. \A k \in Nat : k \in Good
      BY <3>3, <3>4, <3>5, Induction
    <3>7. QED
      BY <3>6 DEF Good
  <2>5. flatten[n] = f[n]
    <3> HIDE DEF flatten
    <3>1. n - 1 \in Nat /\ (n - 1) + 1 = n
      BY <2>0
    <3> HIDE DEF n
    <3>2. QED
      BY <2>0, <2>4, <3>1
  <2>6. f[n] \in Seq(S)
    <3>1. n \in 0 .. Len(ss)
      BY <2>0
    <3>2. QED
      BY <3>1
  <2>7. QED
    BY <2>3, <2>5, <2>6
<1>3. QED
  BY <1>1, <1>2

LEMMA FlattenSteps ==
  ASSUME NEW S, NEW ss \in Seq(Seq(S))
  PROVE  \E f \in [0 .. Len(ss) -> Seq(S)] :
           /\ f[0] = <<>> /\ f[Len(ss)] = FlattenSeq(ss)
           /\ \A i \in 1 .. Len(ss) : f[i] = f[i - 1] \o ss[i]
<1> DEFINE V == Seq(S)
           n == Len(ss)
           base == <<>>
           Step == [k \in Nat |-> [x \in V |-> IF k < n THEN x \o ss[k + 1] ELSE x]]
<1>1. Step \in [Nat -> [V -> V]]
  <2>1. ASSUME NEW k \in Nat, NEW x \in V, k < n PROVE x \o ss[k + 1] \in V
    <3>1. ss[k + 1] \in Seq(S)
      BY <2>1
    <3>2. QED
      BY <3>1
  <2> HIDE DEF V
  <2>2. QED
    BY <2>1
<1>2. base \in V
  OBVIOUS
<1>3. PICK g \in [Nat -> V] : g[0] = base /\ \A k \in Nat : g[k + 1] = Step[k][g[k]]
  <2> HIDE DEF V, Step, base
  <2>1. \E g : g \in Recursions(V, base, Step)
    BY <1>1, <1>2, Recursion DEF Steps
  <2>2. QED
    BY <2>1 DEF Recursions
<1> DEFINE f == [i \in 0 .. n |-> g[i]]
<1>4. f \in [0 .. n -> Seq(S)] /\ f[0] = <<>>
  BY <1>3
<1>5. ASSUME NEW i \in 1 .. n PROVE f[i] = f[i - 1] \o ss[i]
  <2>1. i - 1 \in Nat /\ i - 1 < n /\ (i - 1) + 1 = i
    OBVIOUS
  <2>2. g[i - 1] \in V
    BY <2>1, <1>3
  <2>3. Step[i - 1][g[i - 1]] = g[i - 1] \o ss[i]
    <3> HIDE DEF V
    <3>1. QED
      BY <2>1, <2>2
  <2>4. g[i] = g[i - 1] \o ss[i]
    <3> HIDE DEF Step, V
    <3>1. g[(i - 1) + 1] = Step[i - 1][g[i - 1]]
      BY <1>3, <2>1
    <3>2. QED
      BY <2>1, <2>3, <3>1
  <2>5. f[i] = g[i] /\ f[i - 1] = g[i - 1]
    BY <2>1
  <2> HIDE DEF f
  <2>6. QED
    BY <2>4, <2>5
<1>6. FlattenSeq(ss) = f[n]
  <2> HIDE DEF f
  <2>1. QED
    BY <1>4, <1>5, FlattenIs
<1>7. QED
  <2> HIDE DEF f
  <2>1. QED
    BY <1>4, <1>5, <1>6

LEMMA FlattenType ==
  ASSUME NEW S, NEW ss \in Seq(Seq(S))
  PROVE  FlattenSeq(ss) \in Seq(S)
<1>1. PICK f \in [0 .. Len(ss) -> Seq(S)] : f[Len(ss)] = FlattenSeq(ss)
  BY FlattenSteps
<1>2. Len(ss) \in 0 .. Len(ss)
  OBVIOUS
<1>3. f[Len(ss)] \in Seq(S)
  BY <1>2
<1>4. QED
  BY <1>1, <1>3

LEMMA FlattenEmpty == FlattenSeq(<<>>) = <<>>
BY DEF FlattenSeq

(***************************************************************************)
(* Two parts are flattened one by one.                                     *)
(***************************************************************************)
LEMMA FlattenAppend ==
  ASSUME NEW S, NEW ss \in Seq(Seq(S)), NEW tt \in Seq(Seq(S))
  PROVE  FlattenSeq(ss \o tt) = FlattenSeq(ss) \o FlattenSeq(tt)
<1>1. PICK f \in [0 .. Len(ss) -> Seq(S)] :
        /\ f[0] = <<>> /\ f[Len(ss)] = FlattenSeq(ss)
        /\ \A i \in 1 .. Len(ss) : f[i] = f[i - 1] \o ss[i]
  BY FlattenSteps
<1>2. PICK g \in [0 .. Len(tt) -> Seq(S)] :
        /\ g[0] = <<>> /\ g[Len(tt)] = FlattenSeq(tt)
        /\ \A i \in 1 .. Len(tt) : g[i] = g[i - 1] \o tt[i]
  BY FlattenSteps
<1> DEFINE m == Len(ss)
           n == Len(tt)
           all == ss \o tt
           h == [i \in 0 .. m + n |-> IF i <= m THEN f[i] ELSE FlattenSeq(ss) \o g[i - m]]
<1>3. m \in Nat /\ n \in Nat /\ all \in Seq(Seq(S)) /\ Len(all) = m + n
  OBVIOUS
<1>4. FlattenSeq(ss) \in Seq(S)
  BY FlattenType
<1>5. ASSUME NEW i \in 0 .. m + n PROVE h[i] \in Seq(S)
  <2>1. CASE i <= m
    <3>1. i \in 0 .. Len(ss)
      BY <1>3, <2>1
    <3>2. f[i] \in Seq(S)
      BY <3>1
    <3>3. QED
      BY <2>1, <3>2
  <2>2. CASE ~ i <= m
    <3>1. i - m \in 0 .. n
      BY <1>3, <2>2
    <3>2. g[i - m] \in Seq(S)
      BY <3>1
    <3>3. QED
      BY <1>4, <2>2, <3>2
  <2>3. QED
    BY <2>1, <2>2
<1>6. h[0] = <<>>
  BY <1>1, <1>3
<1>7. ASSUME NEW i \in 1 .. m + n PROVE h[i] = h[i - 1] \o all[i]
  <2>1. CASE i <= m
    <3>1. all[i] = ss[i] /\ i - 1 <= m /\ i - 1 \in 0 .. m + n /\ i \in 1 .. m
      BY <1>3, <2>1
    <3>2. h[i] = f[i] /\ h[i - 1] = f[i - 1]
      BY <2>1, <3>1
    <3> HIDE DEF h, all
    <3>3. QED
      BY <1>1, <3>1, <3>2
  <2>2. CASE ~ i <= m
    <3>1. all[i] = tt[i - m] /\ i - m \in 1 .. n
      BY <1>3, <2>2
    <3>2. tt[i - m] \in Seq(S)
      BY <3>1
    <3>3. g[i - m] = g[i - m - 1] \o tt[i - m] /\ g[i - m - 1] \in Seq(S)
      <4>1. i - m - 1 \in 0 .. Len(tt) /\ i - m \in 1 .. Len(tt)
        BY <3>1
      <4>2. g[i - m - 1] \in Seq(S)
        BY <4>1
      <4>3. QED
        BY <1>2, <4>1, <4>2
    <3>4. FlattenSeq(ss) \o g[i - m] = (FlattenSeq(ss) \o g[i - m - 1]) \o tt[i - m]
      <4> DEFINE a == FlattenSeq(ss)
                 b == g[i - m - 1]
                 c == tt[i - m]
      <4>1. a \in Seq(S) /\ b \in Seq(S) /\ c \in Seq(S)
        BY <1>4, <3>2, <3>3
      <4> HIDE DEF a, b, c
      <4>2. (a \o b) \o c = a \o (b \o c)
        BY <4>1, ConcatAssociative
      <4>3. QED
        BY <3>3, <4>2 DEF a, b, c
    <3>5. h[i - 1] = FlattenSeq(ss) \o g[i - m - 1]
      <4>1. CASE i - 1 <= m
        <5>1. i - 1 = m /\ i - m - 1 = 0
          BY <1>3, <2>2, <4>1
        <5>2. FlattenSeq(ss) \o <<>> = FlattenSeq(ss)
          BY <1>4
        <5>3. h[m] = FlattenSeq(ss)
          BY <1>1, <1>3
        <5>4. QED
          BY <1>2, <5>1, <5>2, <5>3
      <4>2. CASE ~ i - 1 <= m
        <5>1. i - 1 \in 0 .. m + n /\ (i - 1) - m = i - m - 1
          BY <1>3
        <5>2. QED
          BY <4>2, <5>1
      <4>3. QED
        BY <4>1, <4>2
    <3>6. h[i] = FlattenSeq(ss) \o g[i - m]
      BY <1>3, <2>2
    <3> HIDE DEF h, all
    <3>7. QED
      BY <3>1, <3>4, <3>5, <3>6
  <2>3. QED
    BY <2>1, <2>2
<1>8. h \in [0 .. Len(all) -> Seq(S)]
  <2>1. h = [i \in 0 .. m + n |-> h[i]]
    OBVIOUS
  <2> HIDE DEF h
  <2>2. QED
    BY <1>3, <1>5, <2>1
<1>9. FlattenSeq(all) = h[Len(all)]
  <2> HIDE DEF h, all
  <2>1. \A i \in 1 .. Len(all) : h[i] = h[i - 1] \o all[i]
    BY <1>3, <1>7
  <2>2. QED
    BY <1>3, <1>6, <1>8, <2>1, FlattenIs
<1>10. h[m + n] = FlattenSeq(ss) \o FlattenSeq(tt)
  <2>1. CASE n = 0
    <3>1. tt = <<>> /\ FlattenSeq(tt) = <<>>
      BY <1>2, <2>1
    <3>2. h[m] = FlattenSeq(ss) /\ m + n = m
      BY <1>1, <1>3, <2>1
    <3> HIDE DEF h
    <3>3. QED
      BY <1>4, <3>1, <3>2
  <2>2. CASE n # 0
    <3>1. ~ m + n <= m /\ (m + n) - m = n /\ m + n \in 0 .. m + n
      BY <1>3, <2>2
    <3>2. QED
      BY <1>2, <3>1
  <2>3. QED
    BY <2>1, <2>2
<1>11. QED
  BY <1>3, <1>9, <1>10

LEMMA FlattenOne ==
  ASSUME NEW S, NEW s \in Seq(S)
  PROVE  FlattenSeq(<<s>>) = s
<1> DEFINE f == [i \in 0 .. 1 |-> IF i = 0 THEN <<>> ELSE s]
<1>1. <<s>> \in Seq(Seq(S)) /\ Len(<<s>>) = 1
  OBVIOUS
<1>2. f \in [0 .. 1 -> Seq(S)] /\ f[0] = <<>> /\ f[1] = s
  OBVIOUS
<1>3. \A i \in 1 .. 1 : f[i] = f[i - 1] \o <<s>>[i]
  <2>1. f[1] = f[1 - 1] \o s
    BY <1>2
  <2>2. QED
    BY <2>1
<1> HIDE DEF f
<1>4. FlattenSeq(<<s>>) = f[1]
  BY <1>1, <1>2, <1>3, FlattenIs
<1>5. QED
  BY <1>2, <1>4

LEMMA FlattenCons ==
  ASSUME NEW S, NEW s \in Seq(S), NEW tt \in Seq(Seq(S))
  PROVE  FlattenSeq(<<s>> \o tt) = s \o FlattenSeq(tt)
<1> DEFINE ss == <<s>>
<1>1. ss \in Seq(Seq(S))
  OBVIOUS
<1>2. FlattenSeq(ss) = s
  BY FlattenOne
<1> HIDE DEF ss
<1>3. FlattenSeq(ss \o tt) = FlattenSeq(ss) \o FlattenSeq(tt)
  BY <1>1, FlattenAppend
<1>4. QED
  BY <1>2, <1>3 DEF ss

LEMMA FlattenSnoc ==
  ASSUME NEW S, NEW ss \in Seq(Seq(S)), NEW s \in Seq(S)
  PROVE  FlattenSeq(Append(ss, s)) = FlattenSeq(ss) \o s
<1> DEFINE tt == <<s>>
<1>1. tt \in Seq(Seq(S)) /\ Append(ss, s) = ss \o tt
  OBVIOUS
<1>2. FlattenSeq(tt) = s
  BY FlattenOne
<1> HIDE DEF tt
<1>3. FlattenSeq(ss \o tt) = FlattenSeq(ss) \o FlattenSeq(tt)
  BY <1>1, FlattenAppend
<1>4. QED
  BY <1>1, <1>2, <1>3

One(x) == <<x>>

LEMMA OneType ==
  ASSUME NEW X, NEW x \in X
  PROVE  One(x) \in Seq(X) /\ Len(One(x)) = 1 /\ One(x)[1] = x
BY DEF One

\* What the elements of a sequence stand for, one after the other.
Spread(F, s) == FlattenSeq([i \in DOMAIN s |-> F[s[i]]])

Meanings(X, S) == [X -> Seq(S)]

LEMMA SpreadParts ==
  ASSUME NEW X, NEW S, NEW F \in Meanings(X, S), NEW s \in Seq(X)
  PROVE  /\ [i \in DOMAIN s |-> F[s[i]]] \in Seq(Seq(S))
         /\ Spread(F, s) \in Seq(S)
<1> DEFINE ss == [i \in DOMAIN s |-> F[s[i]]]
<1>1. DOMAIN s = 1 .. Len(s) /\ Len(s) \in Nat /\ \A i \in 1 .. Len(s) : F[s[i]] \in Seq(S)
  BY DEF Meanings
<1>2. ss \in Seq(Seq(S))
  BY <1>1
<1>3. Spread(F, s) = FlattenSeq(ss)
  BY DEF Spread
<1> HIDE DEF ss
<1>4. FlattenSeq(ss) \in Seq(S)
  BY <1>2, FlattenType
<1>5. QED
  BY <1>2, <1>3, <1>4 DEF ss

LEMMA SpreadEmpty == \A F : Spread(F, <<>>) = <<>>
BY FlattenEmpty DEF Spread

LEMMA SpreadAppend ==
  ASSUME NEW X, NEW S, NEW F \in Meanings(X, S), NEW s \in Seq(X), NEW t \in Seq(X)
  PROVE  Spread(F, s \o t) = Spread(F, s) \o Spread(F, t)
<1> DEFINE ss == [i \in DOMAIN s |-> F[s[i]]]
           tt == [i \in DOMAIN t |-> F[t[i]]]
           st == s \o t
           all == [i \in DOMAIN st |-> F[st[i]]]
<1>1. ss \in Seq(Seq(S)) /\ tt \in Seq(Seq(S))
  BY SpreadParts
<1>2. all = ss \o tt
  <2> DEFINE two == ss \o tt
             n == Len(s) + Len(t)
  <2>1. Len(ss) = Len(s) /\ Len(tt) = Len(t) /\ n \in Nat
    OBVIOUS
  <2>2. DOMAIN all = 1 .. n
    OBVIOUS
  <2>3. two \in Seq(Seq(S)) /\ Len(two) = n
    <3> HIDE DEF ss, tt
    <3>1. ss \o tt \in Seq(Seq(S)) /\ Len(ss \o tt) = Len(ss) + Len(tt)
      BY <1>1, ConcatProperties
    <3>2. QED
      BY <2>1, <3>1
  <2>4. ASSUME NEW i \in 1 .. n PROVE all[i] = two[i]
    <3>1. CASE i <= Len(s)
      <4>1. st[i] = s[i] /\ i \in DOMAIN s /\ i \in 1 .. Len(ss)
        BY <2>1, <3>1
      <4>2. two[i] = ss[i]
        <5> HIDE DEF ss, tt
        <5>1. QED
          BY <1>1, <2>1, <4>1
      <4>3. QED
        BY <4>1, <4>2
    <3>2. CASE ~ i <= Len(s)
      <4>1. st[i] = t[i - Len(s)] /\ i - Len(s) \in DOMAIN t
        BY <2>1, <3>2
      <4>2. two[i] = tt[i - Len(s)]
        <5> HIDE DEF ss, tt
        <5>1. QED
          BY <1>1, <2>1, <3>2
      <4>3. QED
        BY <4>1, <4>2
    <3>3. QED
      BY <3>1, <3>2
  <2>5. all = [i \in 1 .. n |-> all[i]]
    BY <2>2
  <2> HIDE DEF all, two, n
  <2>6. two = [i \in 1 .. n |-> two[i]]
    BY <2>1, <2>3
  <2>7. all = two
    BY <2>4, <2>5, <2>6
  <2>8. QED
    BY <2>7 DEF two
<1>3. Spread(F, s) = FlattenSeq(ss) /\ Spread(F, t) = FlattenSeq(tt)
      /\ Spread(F, st) = FlattenSeq(all)
  BY DEF Spread
<1> HIDE DEF ss, tt, all
<1>4. FlattenSeq(ss \o tt) = FlattenSeq(ss) \o FlattenSeq(tt)
  BY <1>1, FlattenAppend
<1>5. Spread(F, st) = Spread(F, s) \o Spread(F, t)
  BY <1>2, <1>3, <1>4, Zenon
<1>6. QED
  BY <1>5

\* One sequence after another.
Joins(st, s, t) == st = s \o t

LEMMA SpreadJoined ==
  ASSUME NEW X, NEW S, NEW F \in Meanings(X, S), NEW s \in Seq(X), NEW t \in Seq(X),
         NEW st, Joins(st, s, t)
  PROVE  Joins(Spread(F, st), Spread(F, s), Spread(F, t))
<1>1. Spread(F, s \o t) = Spread(F, s) \o Spread(F, t)
  BY SpreadAppend
<1>2. QED
  BY <1>1 DEF Joins

LEMMA SpreadOne ==
  ASSUME NEW X, NEW S, NEW F \in Meanings(X, S), NEW x \in X
  PROVE  Spread(F, One(x)) = F[x]
<1>1. [i \in DOMAIN One(x) |-> F[One(x)[i]]] = <<F[x]>>
  BY DEF One
<1>2. Spread(F, One(x)) = FlattenSeq(<<F[x]>>)
  BY <1>1 DEF Spread
<1>3. F[x] \in Seq(S)
  BY DEF Meanings
<1>4. FlattenSeq(<<F[x]>>) = F[x]
  BY <1>3, FlattenOne
<1>5. QED
  BY <1>2, <1>4

LEMMA SpreadMore ==
  ASSUME NEW X, NEW S, NEW F \in Meanings(X, S), NEW s \in Seq(X), NEW x \in X,
         NEW more, Joins(more, s, One(x))
  PROVE  more \in Seq(X) /\ Joins(Spread(F, more), Spread(F, s), F[x])
<1>1. PICK one \in Seq(X) : one = One(x)
  <2>1. One(x) \in Seq(X)
    BY OneType
  <2>2. QED
    BY <2>1, Zenon
<1>2. more \in Seq(X)
  <2>1. s \o one \in Seq(X)
    BY ConcatProperties
  <2>2. QED
    BY <1>1, <2>1 DEF Joins
<1>3. Spread(F, one) = F[x]
  BY <1>1, SpreadOne
<1>4. Joins(more, s, one)
  BY <1>1 DEF Joins
<1>5. Joins(Spread(F, more), Spread(F, s), Spread(F, one))
  BY <1>4, SpreadJoined
<1>6. QED
  BY <1>2, <1>3, <1>5 DEF Joins

LEMMA SpreadCons ==
  ASSUME NEW X, NEW S, NEW F \in Meanings(X, S), NEW x \in X, NEW t \in Seq(X)
  PROVE  Spread(F, One(x) \o t) = F[x] \o Spread(F, t)
<1>1. PICK one \in Seq(X) : one = One(x)
  <2>1. One(x) \in Seq(X)
    BY OneType
  <2>2. QED
    BY <2>1, Zenon
<1>2. Spread(F, one) = F[x]
  BY <1>1, SpreadOne
<1>3. Spread(F, one \o t) = Spread(F, one) \o Spread(F, t)
  BY SpreadAppend
<1>4. QED
  BY <1>1, <1>2, <1>3, Zenon

-----------------------------------------------------------------------------
(* The calls of a walk.                                                    *)

Nodes(N) == [node : N, depth : Int]

\* The calls start with one of them.
Starts(calls, c, rest) == calls = One(c) \o rest

\* What is in each node.
Nested(N) == [N -> Seq(N)]

(***************************************************************************)
(* Unfold does what its definition says: a node that has levels left comes *)
(* before the calls for what is in it, each with one level less.           *)
(***************************************************************************)
LEMMA UnfoldSteps ==
  ASSUME NEW N, NEW below \in Nested(N), NEW cap \in Nat
  PROVE  /\ \A k \in Nat, n \in N : Unfold(below, cap)[k][n] \in Seq(Nodes(N))
         /\ \A n \in N, d \in Int : d = cap + 1 => Unfold(below, cap)[0][n] = One(Node(n, d))
         /\ \A j, k \in Nat, n \in N, d \in Int : j = k + 1 /\ d = cap - k =>
              Starts(Unfold(below, cap)[j][n], Node(n, d), Spread(Unfold(below, cap)[k], below[n]))
<1> USE DEF Nested
<1> DEFINE V == [N -> Seq(Nodes(N))]
           Inner(n, x) == FlattenSeq([i \in DOMAIN below[n] |-> x[below[n][i]]])
           base == [n \in N |-> One(Node(n, cap + 1))]
           Step == [k \in Nat |-> [x \in V |-> [n \in N |-> One(Node(n, cap - k)) \o Inner(n, x)]]]
           Body(F, left, n) ==
             One(Node(n, cap + 1 - left)) \o
               IF left = 0 THEN <<>>
               ELSE FlattenSeq([i \in DOMAIN below[n] |-> F[left - 1][below[n][i]]])
           Is(F) == F = [left \in Nat |-> [n \in N |-> Body(F, left, n)]]
           C == CHOOSE F : Is(F)
<1>1. \A n \in N, d \in Int : Node(n, d) \in Nodes(N) /\ One(Node(n, d)) \in Seq(Nodes(N))
  BY OneType DEF Node, Nodes
<1>2. ASSUME NEW n \in N, NEW x \in V
      PROVE  Inner(n, x) \in Seq(Nodes(N))
  <2> DEFINE ss == [i \in DOMAIN below[n] |-> x[below[n][i]]]
  <2>1. below[n] \in Seq(N)
    OBVIOUS
  <2>2. ss \in Seq(Seq(Nodes(N)))
    <3>1. \A i \in 1 .. Len(below[n]) : x[below[n][i]] \in Seq(Nodes(N))
      BY <2>1
    <3>2. DOMAIN below[n] = 1 .. Len(below[n]) /\ Len(below[n]) \in Nat
      BY <2>1
    <3>3. QED
      BY <3>1, <3>2
  <2> HIDE DEF ss
  <2>3. QED
    BY <2>2, FlattenType DEF ss
<1>3. Step \in Steps(V)
  <2>1. ASSUME NEW k \in Nat, NEW x \in V, NEW n \in N
        PROVE  One(Node(n, cap - k)) \o Inner(n, x) \in Seq(Nodes(N))
    <3> HIDE DEF Inner
    <3>1. QED
      BY <1>1, <1>2
  <2> HIDE DEF Inner
  <2>2. \A k \in Nat, x \in V : [n \in N |-> One(Node(n, cap - k)) \o Inner(n, x)] \in V
    BY <2>1
  <2> HIDE DEF V
  <2>3. QED
    BY <2>2 DEF Steps
<1>4. base \in V
  BY <1>1
<1>5. PICK f \in [Nat -> V] : f[0] = base /\ \A k \in Nat : f[k + 1] = Step[k][f[k]]
  <2> HIDE DEF V, Step, base
  <2>1. \E f : f \in Recursions(V, base, Step)
    BY <1>3, <1>4, Recursion
  <2>2. QED
    BY <2>1 DEF Recursions
<1>6. ASSUME NEW k \in Nat
      PROVE  f[k + 1] = [n \in N |-> One(Node(n, cap - k)) \o Inner(n, f[k])]
  <2> HIDE DEF V, Inner
  <2>1. f[k] \in V
    OBVIOUS
  <2>2. QED
    BY <1>5, <2>1
<1>7. ASSUME NEW left \in Nat
      PROVE  f[left] = [n \in N |-> Body(f, left, n)]
  <2>1. CASE left = 0
    <3>1. ASSUME NEW n \in N PROVE One(Node(n, cap + 1)) \o <<>> = One(Node(n, cap + 1))
      BY <1>1
    <3>2. QED
      BY <1>5, <2>1, <3>1
  <2>2. CASE left # 0
    <3>1. left - 1 \in Nat /\ (left - 1) + 1 = left /\ cap - (left - 1) = cap + 1 - left
      BY <2>2
    <3>2. f[left] = [n \in N |-> One(Node(n, cap - (left - 1))) \o Inner(n, f[left - 1])]
      <4> HIDE DEF Inner
      <4>1. f[(left - 1) + 1] = [n \in N |-> One(Node(n, cap - (left - 1))) \o Inner(n, f[left - 1])]
        BY <1>6, <3>1
      <4>2. QED
        BY <3>1, <4>1
    <3>3. QED
      BY <2>2, <3>1, <3>2
  <2>3. QED
    BY <2>1, <2>2
<1>8. Is(f)
  <2>1. f = [left \in Nat |-> f[left]]
    OBVIOUS
  <2> HIDE DEF Body
  <2>2. QED
    BY <1>7, <2>1, Zenon
<1>9. Is(C)
  <2> HIDE DEF Is
  <2>1. QED
    BY <1>8
<1>10. Unfold(below, cap) = C
  BY DEF Unfold, One
<1> HIDE DEF C
<1>11. \A left \in Nat, n \in N : C[left][n] = Body(C, left, n)
  <2> HIDE DEF Body
  <2>1. \A left \in Nat : C[left] = [n \in N |-> Body(C, left, n)]
    BY <1>9, Zenon
  <2>2. QED
    BY <2>1, Zenon
<1>12. \A n \in N : C[0][n] = One(Node(n, cap + 1))
  <2> TAKE n \in N
  <2>1. C[0][n] = Body(C, 0, n)
    <3> HIDE DEF Body
    <3>1. QED
      BY <1>11
  <2>2. cap + 1 - 0 = cap + 1
    OBVIOUS
  <2>3. Body(C, 0, n) = One(Node(n, cap + 1)) \o <<>>
    BY <2>2, Zenon
  <2>4. One(Node(n, cap + 1)) \in Seq(Nodes(N))
    BY <1>1
  <2> HIDE DEF Body
  <2>5. QED
    BY <2>1, <2>3, <2>4, ConcatEmptySeq
<1>13. \A k \in Nat, n \in N : C[k + 1][n] = One(Node(n, cap - k)) \o Inner(n, C[k])
  <2> TAKE k \in Nat, n \in N
  <2>1. k + 1 \in Nat /\ k + 1 # 0 /\ (k + 1) - 1 = k /\ cap + 1 - (k + 1) = cap - k
    OBVIOUS
  <2>2. C[k + 1][n] = One(Node(n, cap + 1 - (k + 1))) \o
                        FlattenSeq([i \in DOMAIN below[n] |-> C[(k + 1) - 1][below[n][i]]])
    BY <1>11, <2>1
  <2>3. QED
    BY <2>1, <2>2
<1>14. \A k \in Nat, n \in N : C[k][n] \in Seq(Nodes(N))
  <2> DEFINE Good == {k \in Nat : C[k] \in V}
  <2>1. 0 \in Good
    <3>1. C[0] = [n \in N |-> C[0][n]]
      <4> HIDE DEF Body
      <4>1. C[0] = [n \in N |-> Body(C, 0, n)]
        BY <1>9
      <4>2. QED
        BY <4>1
    <3>2. \A n \in N : C[0][n] \in Seq(Nodes(N))
      <4>1. cap + 1 \in Int
        OBVIOUS
      <4>2. \A n \in N : One(Node(n, cap + 1)) \in Seq(Nodes(N))
        BY <1>1, <4>1
      <4>3. QED
        BY <1>12, <4>2, Zenon
    <3>3. QED
      BY <3>1, <3>2
  <2>2. ASSUME NEW k \in Good PROVE k + 1 \in Good
    <3>1. C[k + 1] = [n \in N |-> C[k + 1][n]]
      <4> HIDE DEF Body
      <4>1. k + 1 \in Nat
        OBVIOUS
      <4>2. C[k + 1] = [n \in N |-> Body(C, k + 1, n)]
        BY <1>9, <4>1, Zenon
      <4>3. QED
        BY <4>2
    <3>2. ASSUME NEW n \in N PROVE C[k + 1][n] \in Seq(Nodes(N))
      <4> HIDE DEF Inner, V, Body
      <4>1. Inner(n, C[k]) \in Seq(Nodes(N))
        BY <1>2
      <4>2. C[k + 1][n] = One(Node(n, cap - k)) \o Inner(n, C[k])
        BY <1>13
      <4>3. One(Node(n, cap - k)) \in Seq(Nodes(N))
        BY <1>1
      <4>4. QED
        BY <4>1, <4>2, <4>3
    <3>3. QED
      BY <3>1, <3>2
  <2> HIDE DEF Good
  <2>3. Good \in SUBSET Nat
    BY DEF Good
  <2>4. \A k \in Nat : k \in Good
    BY <2>1, <2>2, <2>3, Induction
  <2>5. QED
    BY <2>4 DEF Good
<1>15. \A j, k \in Nat, n \in N, d \in Int : j = k + 1 /\ d = cap - k =>
         Starts(C[j][n], Node(n, d), Spread(C[k], below[n]))
  BY <1>13 DEF Spread, Starts
<1>16. QED
  BY <1>10, <1>12, <1>14, <1>15

\* The calls that are still to be made, and what each of them comes to.
Pending(N, cap) == [node : N, depth : 0 .. cap + 1]

Ahead(below, cap) ==
  [c \in Pending(DOMAIN below, cap) |-> Unfold(below, cap)[cap + 1 - c.depth][c.node]]

Within(below, c) == [i \in DOMAIN below[c.node] |-> Node(below[c.node][i], c.depth + 1)]

(***************************************************************************)
(* A call begins with its own node.                                        *)
(***************************************************************************)
LEMMA AheadType ==
  ASSUME NEW N, NEW below \in Nested(N), NEW cap \in Nat
  PROVE  /\ Pending(N, cap) \subseteq Nodes(N)
         /\ Ahead(below, cap) \in Meanings(Pending(N, cap), Nodes(N))
         /\ \A n \in N : /\ Node(n, 0) \in Pending(N, cap)
                         /\ Ahead(below, cap)[Node(n, 0)] = Unfold(below, cap)[cap + 1][n]
<1>1. DOMAIN below = N
  BY DEF Nested
<1>2. ASSUME NEW c \in Pending(N, cap)
      PROVE  Unfold(below, cap)[cap + 1 - c.depth][c.node] \in Seq(Nodes(N))
  <2>1. cap + 1 - c.depth \in Nat /\ c.node \in N
    BY DEF Pending
  <2>2. QED
    BY <2>1, UnfoldSteps
<1>3. Ahead(below, cap) \in Meanings(Pending(N, cap), Nodes(N))
  BY <1>1, <1>2 DEF Ahead, Meanings
<1>4. ASSUME NEW n \in N
      PROVE  /\ Node(n, 0) \in Pending(N, cap)
             /\ Ahead(below, cap)[Node(n, 0)] = Unfold(below, cap)[cap + 1][n]
  <2>1. Node(n, 0) \in Pending(N, cap) /\ Node(n, 0).depth = 0 /\ Node(n, 0).node = n
    BY DEF Pending, Node
  <2>2. cap + 1 - 0 = cap + 1
    OBVIOUS
  <2>3. QED
    BY <1>1, <2>1, <2>2 DEF Ahead
<1>5. Pending(N, cap) \subseteq Nodes(N)
  BY DEF Pending, Nodes
<1>6. QED
  BY <1>3, <1>4, <1>5

(***************************************************************************)
(* The calls a call makes come after it, those of each value in turn.      *)
(***************************************************************************)
LEMMA AheadPush ==
  ASSUME NEW N, NEW below \in Nested(N), NEW cap \in Nat,
         NEW c \in Pending(N, cap), c.depth <= cap
  PROVE  /\ Within(below, c) \in Seq(Pending(N, cap))
         /\ Ahead(below, cap)[c] = One(c) \o Spread(Ahead(below, cap), Within(below, c))
<1> DEFINE F == Ahead(below, cap)
           U == Unfold(below, cap)
           into == Within(below, c)
           k == cap - c.depth
<1>1. DOMAIN below = N /\ below[c.node] \in Seq(N) /\ c.node \in N
  BY DEF Nested, Pending
<1>2. k \in Nat /\ cap + 1 - c.depth = k + 1 /\ cap - k = c.depth /\ cap + 1 - (c.depth + 1) = k
      /\ c.depth + 1 \in 0 .. cap + 1
  BY DEF Pending
<1>3. ASSUME NEW i \in DOMAIN below[c.node]
      PROVE  /\ Node(below[c.node][i], c.depth + 1) \in Pending(N, cap)
             /\ F[Node(below[c.node][i], c.depth + 1)] = U[k][below[c.node][i]]
  <2>1. below[c.node][i] \in N
    BY <1>1
  <2>2. Node(below[c.node][i], c.depth + 1) \in Pending(N, cap)
    BY <1>2, <2>1 DEF Pending, Node
  <2>3. F[Node(below[c.node][i], c.depth + 1)]
          = U[cap + 1 - (c.depth + 1)][below[c.node][i]]
    BY <1>1, <2>2 DEF Ahead, Node
  <2>4. QED
    BY <1>2, <2>2, <2>3
<1>4. into \in Seq(Pending(N, cap)) /\ DOMAIN into = DOMAIN below[c.node]
  <2>1. DOMAIN below[c.node] = 1 .. Len(below[c.node]) /\ Len(below[c.node]) \in Nat
    BY <1>1
  <2> HIDE DEF F, U, k
  <2>2. QED
    BY <1>3, <2>1 DEF Within
<1>5. Spread(F, into) = Spread(U[k], below[c.node])
  <2>1. ASSUME NEW i \in DOMAIN into PROVE F[into[i]] = U[k][below[c.node][i]]
    <3>1. into[i] = Node(below[c.node][i], c.depth + 1)
      BY <1>4 DEF Within
    <3> HIDE DEF F, U, into, k
    <3>2. QED
      BY <1>3, <1>4, <3>1
  <2> HIDE DEF F, U, into, k
  <2>2. [i \in DOMAIN into |-> F[into[i]]] = [i \in DOMAIN below[c.node] |-> U[k][below[c.node][i]]]
    BY <1>4, <2>1
  <2>3. QED
    BY <2>2 DEF Spread
<1>6. c = Node(c.node, c.depth)
  BY DEF Pending, Node
<1>7. F[c] = U[k + 1][c.node]
  BY <1>1, <1>2 DEF Ahead
<1>8. U[k + 1][c.node] = One(Node(c.node, cap - k)) \o Spread(U[k], below[c.node])
  <2>1. k \in Nat /\ k + 1 \in Nat /\ cap - k \in Int
    BY <1>2
  <2>2. PICK n \in N : n = c.node
    BY <1>1
  <2> HIDE DEF k
  <2>3. PICK j \in Nat, d \in Int : j = k + 1 /\ d = cap - k
    BY <2>1
  <2>4. Starts(U[j][n], Node(n, d), Spread(U[k], below[n]))
    BY <2>1, <2>3, UnfoldSteps
  <2>5. QED
    BY <2>2, <2>3, <2>4 DEF Starts
<1>9. One(Node(c.node, cap - k)) = One(c)
  BY <1>2, <1>6
<1> HIDE DEF F, U, into, k
<1>10. F[c] = One(c) \o Spread(F, into)
  BY <1>5, <1>7, <1>8, <1>9, Zenon
<1>11. QED
  BY <1>4, <1>10 DEF F, into

(***************************************************************************)
(* Too deep a call is one that nothing comes after.                        *)
(***************************************************************************)
LEMMA AheadFirst ==
  ASSUME NEW N, NEW below \in Nested(N), NEW cap \in Nat, NEW c \in Pending(N, cap)
  PROVE  \E rest \in Seq(Nodes(N)) : Starts(Ahead(below, cap)[c], c, rest)
<1>1. CASE c.depth <= cap
  <2>1. /\ Within(below, c) \in Seq(Pending(N, cap))
        /\ Ahead(below, cap)[c] = One(c) \o Spread(Ahead(below, cap), Within(below, c))
    BY <1>1, AheadPush
  <2>2. Ahead(below, cap) \in Meanings(Pending(N, cap), Nodes(N))
    BY AheadType
  <2>3. Spread(Ahead(below, cap), Within(below, c)) \in Seq(Nodes(N))
    BY <2>1, <2>2, SpreadParts
  <2>4. QED
    BY <2>1, <2>3 DEF Starts
<1>2. CASE ~ c.depth <= cap
  <2>1. c.depth = cap + 1 /\ c.node \in N /\ cap + 1 - c.depth = 0 /\ DOMAIN below = N
    BY <1>2 DEF Pending, Nested
  <2>2. Ahead(below, cap)[c] = Unfold(below, cap)[0][c.node]
    BY <2>1 DEF Ahead
  <2>3. Unfold(below, cap)[0][c.node] = One(Node(c.node, cap + 1))
    <3>1. PICK n \in N, d \in Int : n = c.node /\ d = cap + 1
      BY <2>1
    <3>2. Unfold(below, cap)[0][n] = One(Node(n, d))
      BY <3>1, UnfoldSteps
    <3>3. QED
      BY <3>1, <3>2
  <2>4. Node(c.node, cap + 1) = c
    BY <2>1 DEF Node, Pending
  <2>5. One(c) \in Seq(Nodes(N))
    BY AheadType, OneType
  <2>6. One(c) \o <<>> = One(c)
    BY <2>5, ConcatEmptySeq
  <2>7. Ahead(below, cap)[c] = One(c) \o <<>>
    BY <2>2, <2>3, <2>4, <2>6
  <2>8. <<>> \in Seq(Nodes(N))
    OBVIOUS
  <2>9. QED
    BY <2>7, <2>8 DEF Starts
<1>3. QED
  BY <1>1, <1>2

LEMMA FirstAndRest ==
  ASSUME NEW X, NEW s \in Seq(X), s # <<>>
  PROVE  \E h \in X, t \in Seq(X) : h = Head(s) /\ t = Tail(s) /\ s = One(h) \o t
<1>1. Head(s) \in X /\ Tail(s) \in Seq(X)
  BY HeadTailProperties
<1>2. \E h \in X, t \in Seq(X) : h = Head(s) /\ t = Tail(s)
  BY <1>1
<1>3. PICK h \in X, t \in Seq(X) : h = Head(s) /\ t = Tail(s)
  BY <1>2
<1>4. Len(t) = Len(s) - 1 /\ \A i \in 1 .. Len(t) : t[i] = s[i + 1]
  BY <1>3, HeadTailProperties
<1>5. h = s[1] /\ Len(s) \in Nat /\ Len(s) # 0
  BY <1>3
<1> DEFINE u == One(h) \o t
<1>6. u \in Seq(X) /\ Len(u) = Len(s) /\ \A i \in 1 .. Len(s) : u[i] = s[i]
  <2>1. u \in Seq(X) /\ Len(u) = 1 + Len(t) /\ u[1] = h /\ \A i \in 2 .. 1 + Len(t) : u[i] = t[i - 1]
    BY DEF One
  <2> HIDE DEF u
  <2>2. QED
    BY <1>4, <1>5, <2>1
<1> HIDE DEF u
<1>7. u = s
  BY <1>6, SeqEqual
<1>8. QED
  BY <1>3, <1>7 DEF u

\* The calls made and what the stack stands for are the whole.
Covers(G, whole, past, stack) == whole = past \o Spread(G, stack)

(***************************************************************************)
(* The next call is the next of the whole; and if it is made, what it      *)
(* leaves on the stack comes next.  The stack may hold more than calls.    *)
(***************************************************************************)
LEMMA NextCall ==
  ASSUME NEW N, NEW below \in Nested(N), NEW cap \in Nat,
         NEW X, Pending(N, cap) \subseteq X, NEW G \in Meanings(X, Nodes(N)),
         \A d \in Pending(N, cap) : G[d] = Ahead(below, cap)[d],
         NEW c \in Pending(N, cap), NEW rest \in Seq(X), NEW past \in Seq(Nodes(N)),
         NEW whole, Covers(G, whole, past, One(c) \o rest)
  PROVE  /\ c \in Nodes(N) /\ past \o One(c) \in Seq(Nodes(N))
         /\ \E after \in Seq(Nodes(N)) : whole = (past \o One(c)) \o after
         /\ c.depth <= cap => \A parts \in Seq(X) :
              Spread(G, parts) = Spread(Ahead(below, cap), Within(below, c)) =>
                Covers(G, whole, past \o One(c), parts \o rest)
<1> DEFINE A == Ahead(below, cap)
<1>1. PICK one \in Seq(Nodes(N)) : one = One(c)
  <2>1. c \in Nodes(N)
    BY AheadType
  <2>2. QED
    BY <2>1, OneType
<1>2. PICK s \in Seq(Nodes(N)) : s = Spread(G, rest)
  BY SpreadParts
<1>3. whole = past \o (A[c] \o s)
  <2>1. PICK x \in X : x = c
    OBVIOUS
  <2>2. Spread(G, One(x) \o rest) = G[x] \o Spread(G, rest)
    BY SpreadCons
  <2>3. G[c] = A[c]
    OBVIOUS
  <2>4. QED
    BY <1>2, <2>1, <2>2, <2>3 DEF Covers
<1>4. ASSUME NEW t \in Seq(Nodes(N)), A[c] = one \o t
      PROVE  t \o s \in Seq(Nodes(N)) /\ whole = (past \o one) \o (t \o s)
  <2>1. PICK u \in Seq(Nodes(N)) : u = t \o s
    BY ConcatProperties
  <2>2. (one \o t) \o s = one \o u
    BY <2>1, ConcatAssociative
  <2>3. (past \o one) \o u = past \o (one \o u)
    BY ConcatAssociative
  <2> HIDE DEF A
  <2>4. QED
    BY <1>3, <1>4, <2>1, <2>2, <2>3
<1>5. \E after \in Seq(Nodes(N)) : whole = (past \o one) \o after
  <2>1. PICK t \in Seq(Nodes(N)) : Starts(A[c], c, t)
    BY AheadFirst
  <2>2. t \o s \in Seq(Nodes(N)) /\ whole = (past \o one) \o (t \o s)
    BY <1>1, <1>4, <2>1 DEF Starts
  <2>3. PICK u \in Seq(Nodes(N)) : u = t \o s
    BY <2>2
  <2>4. QED
    BY <2>2, <2>3
<1>6. ASSUME c.depth <= cap, NEW parts \in Seq(X), Spread(G, parts) = Spread(A, Within(below, c))
      PROVE  Covers(G, whole, past \o One(c), parts \o rest)
  <2>1. Within(below, c) \in Seq(Pending(N, cap)) /\ A[c] = One(c) \o Spread(A, Within(below, c))
    BY <1>6, AheadPush
  <2>2. A \in Meanings(Pending(N, cap), Nodes(N))
    BY AheadType
  <2> HIDE DEF A
  <2>3. PICK t \in Seq(Nodes(N)) : t = Spread(A, Within(below, c))
    BY <2>1, <2>2, SpreadParts
  <2>4. whole = (past \o one) \o (t \o s)
    BY <1>1, <1>4, <2>1, <2>3
  <2>5. Spread(G, parts \o rest) = Spread(G, parts) \o Spread(G, rest)
    BY SpreadAppend
  <2>6. Spread(G, parts \o rest) = t \o s
    BY <1>2, <1>6, <2>3, <2>5
  <2>7. QED
    BY <1>1, <2>4, <2>6 DEF Covers
<1>7. past \o One(c) \in Seq(Nodes(N)) /\ c \in Nodes(N)
  BY <1>1, AheadType
<1>8. QED
  BY <1>1, <1>5, <1>6, <1>7

-----------------------------------------------------------------------------
(* The keys of an issuer.                                                  *)

KeysBelow(heap) == [m \in DOMAIN heap |-> Items(heap[m])]

KeysAhead(heap) == Ahead(KeysBelow(heap), KeyDepth)

Candidates(heap) ==
  UNION {{CandidatesOf(heap[n])[i] : i \in DOMAIN CandidatesOf(heap[n])} : n \in DOMAIN heap}

Found(heap) == [c \in Nodes(DOMAIN heap) |-> CandidatesOf(heap[c.node])]

(***************************************************************************)
(* What a value carries is a sequence, whatever its shape.                 *)
(***************************************************************************)
LEMMA KeysTypes ==
  ASSUME NEW g \in Givens, g.walker = "keys"
  PROVE  /\ KeysBelow(g.heap) \in Nested(DOMAIN g.heap)
         /\ Found(g.heap) \in Meanings(Nodes(DOMAIN g.heap), Candidates(g.heap))
<1> DEFINE N == DOMAIN g.heap
<1>1. \A n \in N : IssuerKeyValue(g.heap[n], N)
  BY GivensAssumption
<1>2. ASSUME NEW n \in N PROVE Items(g.heap[n]) \in Seq(N)
  <2>1. CASE g.heap[n].kind = "list"
    BY <1>1, <2>1 DEF Items, IssuerKeyValue
  <2>2. CASE g.heap[n].kind # "list"
    BY <2>2 DEF Items
  <2>3. QED
    BY <2>1, <2>2
<1>3. KeysBelow(g.heap) \in Nested(N)
  BY <1>2 DEF KeysBelow, Nested
<1>4. ASSUME NEW n \in N PROVE CandidatesOf(g.heap[n]) \in Seq(Candidates(g.heap))
  <2> DEFINE s == CandidatesOf(g.heap[n])
  <2>1. \E k \in Nat : DOMAIN s = 1 .. k /\ s = [i \in 1 .. k |-> s[i]]
    <3> DEFINE v == g.heap[n]
               F(jwk) == IF jwk_ok(jwk) THEN Candidate(jwk.kid, AlgOfJwk(jwk), jwk.key) ELSE Absent
    <3>1. CASE v.kind = "string"
      <4>1. \E x : s = <<x>>
        BY <3>1 DEF CandidatesOf
      <4>2. PICK x : s = <<x>>
        BY <4>1
      <4> HIDE DEF s
      <4>3. DOMAIN s = 1 .. 1 /\ s = [i \in 1 .. 1 |-> s[i]]
        BY <4>2
      <4>4. QED
        BY <4>3
    <3>2. CASE v.kind = "dict"
      <4>1. s = <<F(v.jwk)>>
        BY <3>2 DEF CandidatesOf
      <4> HIDE DEF s, F
      <4>2. DOMAIN s = 1 .. 1 /\ s = [i \in 1 .. 1 |-> s[i]]
        BY <4>1
      <4>3. QED
        BY <4>2
    <3>3. CASE v.kind = "jwks" /\ v.keys # Absent
      <4>1. s = [i \in DOMAIN v.keys |-> F(v.keys[i])]
        BY <3>3 DEF CandidatesOf
      <4>2. v.keys \in Seq({v.keys[i] : i \in DOMAIN v.keys})
        BY <1>1, <3>3 DEF IssuerKeyValue
      <4>3. DOMAIN v.keys = 1 .. Len(v.keys) /\ Len(v.keys) \in Nat
        BY <4>2, LenProperties
      <4> HIDE DEF s, F, v
      <4>4. QED
        BY <4>1, <4>3
    <3>4. CASE v.kind \notin {"string", "dict"} /\ ~ (v.kind = "jwks" /\ v.keys # Absent)
      <4>1. s = <<>>
        BY <3>4 DEF CandidatesOf
      <4> HIDE DEF s
      <4>2. DOMAIN s = 1 .. 0 /\ s = [i \in 1 .. 0 |-> s[i]]
        BY <4>1
      <4>3. QED
        BY <4>2
    <3>5. QED
      BY <3>1, <3>2, <3>3, <3>4
  <2>2. PICK k \in Nat : DOMAIN s = 1 .. k /\ s = [i \in 1 .. k |-> s[i]]
    BY <2>1
  <2>3. \A i \in DOMAIN s : s[i] \in Candidates(g.heap)
    BY DEF Candidates
  <2> HIDE DEF s
  <2>4. s \in Seq(Candidates(g.heap))
    BY <2>2, <2>3
  <2>5. QED
    BY <2>4 DEF s
<1>5. Found(g.heap) \in Meanings(Nodes(N), Candidates(g.heap))
  <2>1. \A c \in Nodes(N) : c.node \in N
    BY DEF Nodes
  <2>2. QED
    BY <1>4, <2>1 DEF Found, Meanings
<1>6. QED
  BY <1>3, <1>5

LEMMA CarriedIs ==
  ASSUME NEW heap, NEW calls \in Seq(Nodes(DOMAIN heap))
  PROVE  Carried(heap, calls) = Spread(Found(heap), calls)
<1>1. ASSUME NEW i \in DOMAIN calls
      PROVE  CandidatesOf(heap[calls[i].node]) = Found(heap)[calls[i]]
  BY DEF Found
<1>2. [i \in DOMAIN calls |-> CandidatesOf(heap[calls[i].node])]
        = [i \in DOMAIN calls |-> Found(heap)[calls[i]]]
  BY <1>1
<1>3. QED
  BY <1>2 DEF Carried, Spread

(***************************************************************************)
(* Candidates are carried call by call.                                    *)
(***************************************************************************)
LEMMA CarriedParts ==
  ASSUME NEW g \in Givens, g.walker = "keys",
         NEW past \in Seq(Nodes(DOMAIN g.heap)), NEW c \in Nodes(DOMAIN g.heap),
         NEW after \in Seq(Nodes(DOMAIN g.heap))
  PROVE  /\ Carried(g.heap, past) \in Seq(Candidates(g.heap))
         /\ CandidatesOf(g.heap[c.node]) \in Seq(Candidates(g.heap))
         /\ Carried(g.heap, past \o One(c)) = Carried(g.heap, past) \o CandidatesOf(g.heap[c.node])
         /\ Carried(g.heap, (past \o One(c)) \o after) =
              (Carried(g.heap, past) \o CandidatesOf(g.heap[c.node])) \o Carried(g.heap, after)
<1> DEFINE N == DOMAIN g.heap
           F == Found(g.heap)
           C == Candidates(g.heap)
           X == Nodes(N)
<1>1. F \in Meanings(X, C)
  BY KeysTypes
<1>2. F[c] = CandidatesOf(g.heap[c.node]) /\ F[c] \in Seq(C)
  BY <1>1 DEF Found, Meanings
<1>3. PICK p \in Seq(X), q \in Seq(X) : p = past /\ q = after
  OBVIOUS
<1>4. \A s \in Seq(X) : s \in Seq(Nodes(DOMAIN g.heap))
  OBVIOUS
<1>5. c \in X
  OBVIOUS
<1> HIDE DEF F, C, N, X
<1>6. PICK with : Joins(with, p, One(c))
  BY DEF Joins
<1>7. with \in Seq(X) /\ Joins(Spread(F, with), Spread(F, p), F[c])
  BY <1>1, <1>5, <1>6, SpreadMore
<1>8. PICK all \in Seq(X) : Joins(all, with, q) /\ Joins(Spread(F, all), Spread(F, with), Spread(F, q))
  <2>1. PICK w \in Seq(X) : w = with
    BY <1>7
  <2>2. PICK all \in Seq(X) : all = w \o q
    BY Joined
  <2>3. Joins(all, w, q)
    BY <2>2 DEF Joins
  <2>4. Joins(Spread(F, all), Spread(F, w), Spread(F, q))
    BY <1>1, <2>3, SpreadJoined
  <2>5. QED
    BY <2>1, <2>3, <2>4
<1>9. Spread(F, p) \in Seq(C)
  BY <1>1, SpreadParts
<1>10. /\ Carried(g.heap, p) = Spread(F, p)
       /\ Carried(g.heap, with) = Spread(F, with)
       /\ Carried(g.heap, q) = Spread(F, q)
       /\ Carried(g.heap, all) = Spread(F, all)
  BY <1>4, <1>7, CarriedIs DEF F
<1>11. Carried(g.heap, with) = Carried(g.heap, p) \o F[c]
  BY <1>7, <1>10 DEF Joins
<1>12. Carried(g.heap, all) = (Carried(g.heap, p) \o F[c]) \o Carried(g.heap, q)
  BY <1>8, <1>10, <1>11 DEF Joins
<1>13. with = past \o One(c) /\ all = (past \o One(c)) \o after
  BY <1>3, <1>6, <1>8 DEF Joins
<1>14. QED
  BY <1>2, <1>3, <1>9, <1>10, <1>11, <1>12, <1>13 DEF C

(***************************************************************************)
(* What refuses one call refuses the value it is made for.                 *)
(***************************************************************************)
LEMMA RefusedWhole ==
  ASSUME NEW g \in Givens, g.walker = "keys",
         NEW past \in Seq(Nodes(DOMAIN g.heap)), NEW c \in Nodes(DOMAIN g.heap),
         NEW after \in Seq(Nodes(DOMAIN g.heap)),
         \/ Len(past) + 1 > KeyVisits \/ c.depth > KeyDepth
         \/ ~ well_shaped(g.heap[c.node])
         \/ ~ Len(Carried(g.heap, past)) + Len(CandidatesOf(g.heap[c.node])) <= MaxCandidates
         \/ \E i \in DOMAIN CandidatesOf(g.heap[c.node]) : CandidatesOf(g.heap[c.node])[i] = Absent
  PROVE  ~ Acceptable(g.heap, (past \o One(c)) \o after)
<1> DEFINE N == DOMAIN g.heap
           C == Candidates(g.heap)
           cs == Carried(g.heap, past)
           fs == CandidatesOf(g.heap[c.node])
           ds == Carried(g.heap, after)
           all == (past \o One(c)) \o after
<1>1. all \in Seq(Nodes(N)) /\ Len(all) = Len(past) + 1 + Len(after)
      /\ Len(past) + 1 \in DOMAIN all /\ all[Len(past) + 1] = c
  BY DEF One
<1>2. cs \in Seq(C) /\ fs \in Seq(C) /\ ds \in Seq(C)
  BY CarriedParts
<1>3. Carried(g.heap, all) = (cs \o fs) \o ds
  BY CarriedParts
<1>4. Len(after) \in Nat /\ Len(past) \in Nat
  OBVIOUS
<1> HIDE DEF N, C, cs, fs, ds, all
<1>5. /\ Len((cs \o fs) \o ds) = Len(cs) + Len(fs) + Len(ds)
      /\ Len(cs) \in Nat /\ Len(fs) \in Nat /\ Len(ds) \in Nat
      /\ DOMAIN ((cs \o fs) \o ds) = 1 .. Len(cs) + Len(fs) + Len(ds)
      /\ DOMAIN fs = 1 .. Len(fs)
      /\ \A i \in 1 .. Len(fs) : ((cs \o fs) \o ds)[Len(cs) + i] = fs[i]
  BY <1>2
<1> SUFFICES ASSUME Acceptable(g.heap, all) PROVE FALSE
  BY DEF all
<1>6. /\ all[Len(past) + 1].depth <= KeyDepth /\ well_shaped(g.heap[all[Len(past) + 1].node])
      /\ Len(all) <= KeyVisits
  BY <1>1 DEF Acceptable
<1>7. Len((cs \o fs) \o ds) <= MaxCandidates
  BY <1>3 DEF Acceptable
<1>8. \A i \in DOMAIN ((cs \o fs) \o ds) : ((cs \o fs) \o ds)[i] # Absent
  BY <1>3 DEF Acceptable
<1>9. {KeyDepth, KeyVisits, MaxCandidates} \subseteq Nat /\ c.depth \in Int
  BY KeysAssumption DEF Nodes
<1>10. ~ (Len(past) + 1 > KeyVisits)
  BY <1>1, <1>4, <1>6, <1>9
<1>11. ~ (c.depth > KeyDepth) /\ well_shaped(g.heap[c.node])
  BY <1>1, <1>6, <1>9
<1>12. Len(cs) + Len(fs) <= MaxCandidates
  BY <1>5, <1>7, <1>9
<1>13. \A i \in DOMAIN fs : fs[i] # Absent
  <2>1. \A i \in 1 .. Len(fs) : Len(cs) + i \in 1 .. Len(cs) + Len(fs) + Len(ds)
    BY <1>5
  <2>2. QED
    BY <1>5, <1>8, <2>1
<1>14. QED
  BY <1>10, <1>11, <1>12, <1>13 DEF cs, fs

(***************************************************************************)
(* Under way: the calls made and those ahead are all calls of the value,   *)
(* and nothing made so far is a reason to refuse it.                       *)
(***************************************************************************)
KeysPast(g, n, past, stack, made, found) ==
  /\ past \in Seq(Nodes(DOMAIN g.heap))
  /\ Covers(KeysAhead(g.heap), KeyCalls(g.heap, n), past, stack)
  /\ Len(past) = made /\ made <= KeyVisits
  /\ \A i \in DOMAIN past : past[i].depth <= KeyDepth /\ well_shaped(g.heap[past[i].node])
  /\ found = Carried(g.heap, past)
  /\ Len(found) <= MaxCandidates /\ \A i \in DOMAIN found : found[i] # Absent

KeysUnderWay(g, n, stack, made, found) ==
  /\ stack \in Seq(Pending(DOMAIN g.heap, KeyDepth))
  /\ \E past : KeysPast(g, n, past, stack, made, found)

KeysRight(g, n, verdict, found) ==
  /\ verdict = OK <=> Acceptable(g.heap, KeyCalls(g.heap, n))
  /\ verdict = OK => found = Carried(g.heap, KeyCalls(g.heap, n))

LEMMA KeysAheadIs ==
  ASSUME NEW g \in Givens, g.walker = "keys"
  PROVE  /\ KeysAhead(g.heap) \in Meanings(Pending(DOMAIN g.heap, KeyDepth), Nodes(DOMAIN g.heap))
         /\ \A n \in DOMAIN g.heap :
              /\ Node(n, 0) \in Pending(DOMAIN g.heap, KeyDepth)
              /\ KeysAhead(g.heap)[Node(n, 0)] = KeyCalls(g.heap, n)
<1>1. KeysBelow(g.heap) \in Nested(DOMAIN g.heap) /\ KeyDepth \in Nat
  BY KeysTypes, KeysAssumption
<1>2. \A n \in DOMAIN g.heap :
        KeyCalls(g.heap, n) = Unfold(KeysBelow(g.heap), KeyDepth)[KeyDepth + 1][n]
  BY DEF KeyCalls, KeysBelow
<1>3. QED
  BY <1>1, <1>2, AheadType DEF KeysAhead

LEMMA KeysBegun ==
  ASSUME NEW g \in Givens, g.walker = "keys", NEW n \in DOMAIN g.heap
  PROVE  KeysUnderWay(g, n, One(Node(n, 0)), 0, <<>>)
<1> DEFINE N == DOMAIN g.heap
           A == KeysAhead(g.heap)
           c == Node(n, 0)
<1>1. /\ A \in Meanings(Pending(N, KeyDepth), Nodes(N)) /\ c \in Pending(N, KeyDepth)
      /\ A[c] = KeyCalls(g.heap, n)
  BY KeysAheadIs
<1>2. Carried(g.heap, <<>>) = <<>>
  <2>1. <<>> \in Seq(Nodes(N))
    OBVIOUS
  <2>2. QED
    BY <2>1, CarriedIs, SpreadEmpty
<1> HIDE DEF A, c, N
<1>3. Spread(A, One(c)) = A[c] /\ A[c] \in Seq(Nodes(N))
  BY <1>1, SpreadOne DEF Meanings
<1>4. <<>> \o Spread(A, One(c)) = KeyCalls(g.heap, n)
  BY <1>1, <1>3, ConcatEmptySeq
<1>5. One(c) \in Seq(Pending(N, KeyDepth)) /\ <<>> \in Seq(Nodes(N)) /\ Len(<<>>) = 0
  BY <1>1, OneType
<1>6. 0 <= KeyVisits /\ 0 <= MaxCandidates
  BY KeysAssumption
<1>7. KeysPast(g, n, <<>>, One(c), 0, <<>>)
  BY <1>2, <1>4, <1>5, <1>6 DEF KeysPast, Covers, A, N
<1>8. QED
  BY <1>5, <1>7 DEF KeysUnderWay, c, N

(***************************************************************************)
(* One call more: it refuses the value, or the walk is under way as        *)
(* before.                                                                 *)
(***************************************************************************)
LEMMA KeysCall ==
  ASSUME NEW g \in Givens, g.walker = "keys", NEW n \in DOMAIN g.heap,
         NEW stack, NEW made, NEW found, KeysUnderWay(g, n, stack, made, found), stack # <<>>
  PROVE  LET c  == Head(stack)
             fs == CandidatesOf(g.heap[c.node])
             refused == \/ made + 1 > KeyVisits \/ c.depth > KeyDepth
                        \/ ~ well_shaped(g.heap[c.node])
                        \/ ~ Len(found) + Len(fs) <= MaxCandidates
                        \/ \E i \in DOMAIN fs : fs[i] = Absent
         IN  /\ c \in Pending(DOMAIN g.heap, KeyDepth)
             /\ refused => ~ Acceptable(g.heap, KeyCalls(g.heap, n))
             /\ ~ refused => KeysUnderWay(g, n, Within(KeysBelow(g.heap), c) \o Tail(stack),
                                          made + 1, found \o fs)
<1> DEFINE N == DOMAIN g.heap
           B == KeysBelow(g.heap)
           A == KeysAhead(g.heap)
           P == Pending(N, KeyDepth)
           W == KeyCalls(g.heap, n)
           C == Candidates(g.heap)
<1>1. PICK past : KeysPast(g, n, past, stack, made, found)
  BY DEF KeysUnderWay
<1>2. B \in Nested(N) /\ KeyDepth \in Nat /\ A = Ahead(B, KeyDepth)
      /\ A \in Meanings(P, Nodes(N)) /\ P \subseteq Nodes(N)
  BY KeysTypes, KeysAssumption, AheadType DEF KeysAhead
<1> HIDE DEF A, B, P, W, C
<1>3. stack \in Seq(P)
  BY DEF KeysUnderWay, P
<1>4. PICK c \in P, rest \in Seq(P) : c = Head(stack) /\ rest = Tail(stack) /\ stack = One(c) \o rest
  BY <1>3, FirstAndRest
<1>5. past \in Seq(Nodes(N)) /\ Covers(A, W, past, One(c) \o rest)
  BY <1>1, <1>4 DEF KeysPast, A, W
<1>6. /\ c \in Nodes(N) /\ past \o One(c) \in Seq(Nodes(N))
      /\ \E after \in Seq(Nodes(N)) : W = (past \o One(c)) \o after
      /\ c.depth <= KeyDepth => \A parts \in Seq(P) :
           Spread(A, parts) = Spread(A, Within(B, c)) =>
             Covers(A, W, past \o One(c), parts \o rest)
  <2>1. c \in Pending(N, KeyDepth) /\ Pending(N, KeyDepth) \subseteq P
        /\ \A d \in Pending(N, KeyDepth) : A[d] = Ahead(B, KeyDepth)[d]
    BY <1>2 DEF P
  <2> HIDE DEF N
  <2>2. QED
    BY <1>2, <1>5, <2>1, NextCall
<1> DEFINE fs == CandidatesOf(g.heap[c.node])
<1>7. /\ Carried(g.heap, past) \in Seq(C) /\ fs \in Seq(C)
      /\ Carried(g.heap, past \o One(c)) = Carried(g.heap, past) \o fs
  <2>1. <<>> \in Seq(Nodes(N))
    OBVIOUS
  <2>2. QED
    BY <1>5, <1>6, <2>1, CarriedParts DEF C
<1>8. /\ Len(past) = made /\ made <= KeyVisits /\ found = Carried(g.heap, past)
      /\ \A i \in DOMAIN past : past[i].depth <= KeyDepth /\ well_shaped(g.heap[past[i].node])
      /\ Len(found) <= MaxCandidates /\ \A i \in DOMAIN found : found[i] # Absent
  BY <1>1 DEF KeysPast
<1> DEFINE refused == \/ made + 1 > KeyVisits \/ c.depth > KeyDepth
                      \/ ~ well_shaped(g.heap[c.node])
                      \/ ~ Len(found) + Len(fs) <= MaxCandidates
                      \/ \E i \in DOMAIN fs : fs[i] = Absent
<1>9. ASSUME refused PROVE ~ Acceptable(g.heap, W)
  <2>1. PICK after \in Seq(Nodes(N)) : W = (past \o One(c)) \o after
    BY <1>6
  <2>2. ~ Acceptable(g.heap, (past \o One(c)) \o after)
    BY <1>5, <1>6, <1>8, <1>9, RefusedWhole
  <2>3. QED
    BY <2>1, <2>2
<1>10. ASSUME ~ refused
       PROVE  KeysUnderWay(g, n, Within(B, c) \o rest, made + 1, found \o fs)
  <2> DEFINE more == past \o One(c)
             into == Within(B, c)
  <2>1. c.depth <= KeyDepth /\ c.depth \in Int
    BY <1>2, <1>6, <1>10 DEF Nodes
  <2>2. into \in Seq(P) /\ into \o rest \in Seq(P)
    <3>1. c \in Pending(N, KeyDepth)
      BY DEF P
    <3> HIDE DEF N
    <3>2. Within(B, c) \in Seq(P)
      BY <1>2, <2>1, <3>1, AheadPush DEF P
    <3>3. QED
      BY <3>2, ConcatProperties
  <2>3. Covers(A, W, more, into \o rest)
    BY <1>6, <2>1, <2>2
  <2>4. more \in Seq(Nodes(N)) /\ Len(more) = made + 1
        /\ \A i \in DOMAIN more : (i \in DOMAIN past /\ more[i] = past[i]) \/ more[i] = c
    <3>1. PICK M : M = Nodes(N)
      OBVIOUS
    <3>2. past \in Seq(M) /\ c \in M /\ Len(past) = made
      BY <1>5, <1>6, <1>8, <3>1
    <3>3. past \o <<c>> \in Seq(M) /\ Len(past \o <<c>>) = Len(past) + 1
          /\ \A i \in 1 .. Len(past) + 1 :
               (past \o <<c>>)[i] = IF i <= Len(past) THEN past[i] ELSE c
      BY <3>2
    <3>4. DOMAIN more = 1 .. Len(past) + 1 /\ DOMAIN past = 1 .. Len(past)
      BY <3>2, <3>3 DEF One
    <3>5. QED
      BY <3>1, <3>2, <3>3, <3>4 DEF One
  <2>5. \A i \in DOMAIN more : more[i].depth <= KeyDepth /\ well_shaped(g.heap[more[i].node])
    BY <1>8, <1>10, <2>1, <2>4
  <2>6. made + 1 <= KeyVisits /\ Len(found) + Len(fs) <= MaxCandidates
    <3>1. made \in Nat /\ KeyVisits \in Nat /\ MaxCandidates \in Nat
          /\ Len(found) \in Nat /\ Len(fs) \in Nat
      BY <1>5, <1>7, <1>8, KeysAssumption
    <3>2. QED
      BY <1>10, <3>1
  <2>7. \A i \in DOMAIN fs : fs[i] # Absent
    BY <1>10
  <2>8. found \o fs = Carried(g.heap, more)
    BY <1>7, <1>8
  <2>9. /\ Len(found \o fs) <= MaxCandidates
        /\ \A i \in DOMAIN (found \o fs) : (found \o fs)[i] # Absent
    <3>1. found \in Seq(C) /\ fs \in Seq(C)
      BY <1>7, <1>8
    <3> HIDE DEF fs
    <3>2. QED
      BY <1>8, <2>6, <2>7, <3>1
  <2> HIDE DEF more, into, fs
  <2>10. KeysPast(g, n, more, into \o rest, made + 1, found \o fs)
    BY <2>3, <2>4, <2>5, <2>6, <2>8, <2>9 DEF KeysPast, A, W
  <2>11. QED
    BY <2>2, <2>10 DEF KeysUnderWay, P, into
<1>11. QED
  BY <1>4, <1>9, <1>10 DEF P, W, B

LEMMA KeysEnd ==
  ASSUME NEW g \in Givens, g.walker = "keys", NEW n \in DOMAIN g.heap,
         NEW made, NEW found, KeysUnderWay(g, n, <<>>, made, found)
  PROVE  Acceptable(g.heap, KeyCalls(g.heap, n)) /\ found = Carried(g.heap, KeyCalls(g.heap, n))
<1>1. PICK past : KeysPast(g, n, past, <<>>, made, found)
  BY DEF KeysUnderWay
<1>2. KeyCalls(g.heap, n) = past
  BY <1>1, SpreadEmpty, ConcatEmptySeq DEF KeysPast, Covers
<1>3. QED
  BY <1>1, <1>2 DEF KeysPast, Acceptable

-----------------------------------------------------------------------------
(* The members of an object.                                               *)

Lower(K, k) == {l \in K : KeyRank[l] < KeyRank[k]}

Rank(K, k) == Cardinality(Lower(K, k))

(***************************************************************************)
(* Names take the places from 0 on, each its own.                          *)
(***************************************************************************)
LEMMA Ranks ==
  ASSUME NEW K \in SUBSET DOMAIN KeyRank, IsFiniteSet(K)
  PROVE  /\ Cardinality(K) \in Nat
         /\ \A k \in K : Rank(K, k) \in 0 .. Cardinality(K) - 1
         /\ \A k, l \in K : Rank(K, k) = Rank(K, l) => k = l
         /\ \A i \in 0 .. Cardinality(K) - 1 : \E k \in K : Rank(K, k) = i
<1>1. \A k \in K : KeyRank[k] \in Int
  BY GivensAssumption
<1>2. \A k, l \in K : KeyRank[k] = KeyRank[l] => k = l
  BY GivensAssumption
<1>3. Cardinality(K) \in Nat
  BY FS_CardinalityType
<1>4. ASSUME NEW k \in K
      PROVE  IsFiniteSet(Lower(K, k)) /\ Rank(K, k) \in 0 .. Cardinality(K) - 1
  <2>1. Lower(K, k) \in SUBSET K /\ k \notin Lower(K, k)
    BY <1>1 DEF Lower
  <2>2. IsFiniteSet(Lower(K, k)) /\ Cardinality(Lower(K, k)) <= Cardinality(K)
        /\ (Cardinality(K) = Cardinality(Lower(K, k)) => K = Lower(K, k))
    BY <2>1, FS_Subset
  <2>3. Cardinality(Lower(K, k)) \in Nat
    BY <2>2, FS_CardinalityType
  <2>4. Cardinality(K) # Cardinality(Lower(K, k))
    BY <2>1, <2>2
  <2>5. QED
    BY <1>3, <2>2, <2>3, <2>4 DEF Rank
<1>5. ASSUME NEW k \in K, NEW l \in K, KeyRank[k] < KeyRank[l]
      PROVE  Rank(K, k) < Rank(K, l)
  <2>1. Lower(K, k) \in SUBSET Lower(K, l) /\ k \in Lower(K, l) /\ k \notin Lower(K, k)
    BY <1>1, <1>5 DEF Lower
  <2>2. IsFiniteSet(Lower(K, l)) /\ Rank(K, k) \in Int /\ Rank(K, l) \in Int
    BY <1>4
  <2>3. Cardinality(Lower(K, k)) <= Cardinality(Lower(K, l))
        /\ (Cardinality(Lower(K, l)) = Cardinality(Lower(K, k)) => Lower(K, l) = Lower(K, k))
    BY <2>1, <2>2, FS_Subset
  <2>4. Cardinality(Lower(K, l)) # Cardinality(Lower(K, k))
    BY <2>1, <2>3
  <2>5. QED
    BY <2>2, <2>3, <2>4 DEF Rank
<1>6. \A k, l \in K : Rank(K, k) = Rank(K, l) => k = l
  <2> SUFFICES ASSUME NEW k \in K, NEW l \in K, Rank(K, k) = Rank(K, l), k # l PROVE FALSE
    OBVIOUS
  <2>1. KeyRank[k] < KeyRank[l] \/ KeyRank[l] < KeyRank[k]
    BY <1>1, <1>2
  <2>2. Rank(K, k) \in Int /\ Rank(K, l) \in Int
    BY <1>4
  <2>3. QED
    BY <1>5, <2>1, <2>2
<1>7. \A i \in 0 .. Cardinality(K) - 1 : \E k \in K : Rank(K, k) = i
  <2> DEFINE T == 0 .. Cardinality(K) - 1
             r == [k \in K |-> Rank(K, k)]
  <2>1. r \in Injection(K, T)
    BY <1>4, <1>6 DEF Injection, IsInjective
  <2>2. IsFiniteSet(T) /\ Cardinality(T) = Cardinality(K)
    <3>1. IsFiniteSet(T) /\ Cardinality(T) =
            IF 0 > Cardinality(K) - 1 THEN 0 ELSE (Cardinality(K) - 1) - 0 + 1
      BY <1>3, FS_Interval
    <3>2. QED
      BY <1>3, <3>1
  <2> HIDE DEF T, r
  <2>3. r \in Surjection(K, T)
    BY <2>1, <2>2, FS_Injection
  <2>4. \A i \in T : \E k \in K : r[k] = i
    BY <2>3 DEF Surjection
  <2>5. QED
    BY <2>4 DEF r, T
<1>8. QED
  BY <1>3, <1>4, <1>6, <1>7

Member(N) == [key : DOMAIN KeyRank, node : N]

Keyed(v, N) ==
  /\ v.members \in Seq(Member(N))
  /\ \A i, j \in DOMAIN v.members : v.members[i].key = v.members[j].key => i = j

KeySet(v) == {x.key : x \in Range(v.members)}

LEMMA KeysOf ==
  ASSUME NEW N, NEW v, Keyed(v, N)
  PROVE  /\ KeySet(v) \in SUBSET DOMAIN KeyRank /\ IsFiniteSet(KeySet(v))
         /\ Cardinality(KeySet(v)) = Len(v.members)
         /\ Range(v.members) \subseteq Member(N)
         /\ \A x, y \in Range(v.members) : x.key = y.key => x = y
<1> DEFINE s == v.members
           n == Len(s)
           K == KeySet(v)
           f == [i \in 1 .. n |-> s[i].key]
<1>1. DOMAIN s = 1 .. n /\ n \in Nat /\ \A i \in 1 .. n : s[i] \in Member(N)
  BY DEF Keyed
<1>2. Range(s) = {s[i] : i \in 1 .. n}
  BY <1>1 DEF Range
<1>3. K = {s[i].key : i \in 1 .. n}
  BY <1>2 DEF KeySet
<1>4. f \in Surjection(1 .. n, K) /\ f \in Injection(1 .. n, K)
  <2>1. f \in [1 .. n -> K]
    BY <1>3
  <2>2. \A i, j \in 1 .. n : f[i] = f[j] => i = j
    BY <1>1 DEF Keyed
  <2>3. \A k \in K : \E i \in 1 .. n : f[i] = k
    BY <1>3
  <2> HIDE DEF f, K, n
  <2>4. QED
    BY <2>1, <2>2, <2>3 DEF Surjection, Injection, IsInjective
<1>5. IsFiniteSet(1 .. n) /\ Cardinality(1 .. n) = n
  <2>1. IsFiniteSet(1 .. n) /\ Cardinality(1 .. n) = IF 1 > n THEN 0 ELSE n - 1 + 1
    BY <1>1, FS_Interval
  <2>2. QED
    BY <1>1, <2>1
<1>6. IsFiniteSet(K) /\ Cardinality(K) = n
  <2> HIDE DEF f, K, n
  <2>1. QED
    BY <1>4, <1>5, FS_Surjection
<1>7. K \in SUBSET DOMAIN KeyRank
  BY <1>1, <1>3 DEF Member
<1>8. \A x, y \in Range(s) : x.key = y.key => x = y
  BY <1>1, <1>2 DEF Keyed
<1>9. QED
  BY <1>1, <1>2, <1>6, <1>7, <1>8

(***************************************************************************)
(* The members are all there, in the order of their names.                 *)
(***************************************************************************)
LEMMA MembersAre ==
  ASSUME NEW N, NEW v, Keyed(v, N)
  PROVE  /\ members(v) \in Seq(Member(N)) /\ Len(members(v)) = Len(v.members)
         /\ DOMAIN members(v) = DOMAIN v.members
         /\ \A i \in DOMAIN v.members :
              members(v)[i] \in Range(v.members) /\ Rank(KeySet(v), members(v)[i].key) = i - 1
         /\ \A x \in Range(v.members) : \E i \in DOMAIN v.members : members(v)[i] = x
<1> DEFINE n == Len(v.members)
           R == Range(v.members)
           K == KeySet(v)
           Before(m) == {o \in R : KeyRank[o.key] < KeyRank[m.key]}
           P(m, i) == Cardinality(Before(m)) = i - 1
<1>1. /\ K \in SUBSET DOMAIN KeyRank /\ IsFiniteSet(K) /\ Cardinality(K) = n
      /\ R \subseteq Member(N)
      /\ \A x, y \in R : x.key = y.key => x = y
  BY KeysOf
<1>2. /\ \A k \in K : Rank(K, k) \in 0 .. n - 1
      /\ \A k, l \in K : Rank(K, k) = Rank(K, l) => k = l
      /\ \A i \in 0 .. n - 1 : \E k \in K : Rank(K, k) = i
  <2> HIDE DEF K, n
  <2>1. QED
    BY <1>1, Ranks
<1>3. DOMAIN v.members = 1 .. n /\ n \in Nat
  BY DEF Keyed
<1>4. \A k : k \in K <=> \E x \in R : x.key = k
  BY DEF KeySet
<1>5. ASSUME NEW m \in R PROVE Cardinality(Before(m)) = Rank(K, m.key)
  <2> DEFINE B == Before(m)
             L == Lower(K, m.key)
             h == [o \in B |-> o.key]
  <2>1. h \in [B -> L]
    BY <1>4 DEF Lower
  <2>2. \A x, y \in B : h[x] = h[y] => x = y
    BY <1>1
  <2>3. \A k \in L : \E x \in B : h[x] = k
    BY <1>4 DEF Lower
  <2>4. IsFiniteSet(L)
    <3>1. L \in SUBSET K
      BY DEF Lower
    <3> HIDE DEF K, L
    <3>2. QED
      BY <1>1, <3>1, FS_Subset
  <2> HIDE DEF B, L, h
  <2>5. h \in Injection(B, L) /\ h \in Surjection(B, L)
    BY <2>1, <2>2, <2>3 DEF Injection, Surjection, IsInjective
  <2>6. Cardinality(B) = Cardinality(L)
    BY <2>4, <2>5, FS_Injection
  <2>7. QED
    BY <2>6 DEF B, L, Rank
<1>6. ASSUME NEW i \in 1 .. n PROVE \E m \in R : P(m, i)
  <2>1. i - 1 \in 0 .. n - 1
    BY <1>3
  <2>2. PICK k \in K : Rank(K, k) = i - 1
    BY <1>2, <2>1
  <2>3. PICK m \in R : m.key = k
    BY <1>4
  <2> HIDE DEF Before
  <2>4. QED
    BY <1>5, <2>2, <2>3
<1>7. members(v) = [i \in 1 .. n |-> CHOOSE m \in R : P(m, i)]
  BY <1>3 DEF members
<1>8. ASSUME NEW i \in 1 .. n
      PROVE  members(v)[i] \in R /\ Rank(K, members(v)[i].key) = i - 1
  <2> HIDE DEF P
  <2>1. members(v)[i] \in R /\ P(members(v)[i], i)
    BY <1>6, <1>7
  <2> HIDE DEF Before
  <2>2. QED
    BY <1>5, <2>1 DEF P
<1>9. ASSUME NEW x \in R PROVE \E i \in 1 .. n : members(v)[i] = x
  <2>1. x.key \in K
    BY <1>4
  <2>2. Rank(K, x.key) \in 0 .. n - 1
    BY <1>2, <2>1
  <2>3. PICK i \in 1 .. n : i - 1 = Rank(K, x.key)
    <3>1. Rank(K, x.key) + 1 \in 1 .. n /\ (Rank(K, x.key) + 1) - 1 = Rank(K, x.key)
      BY <1>3, <2>2
    <3>2. QED
      BY <3>1
  <2>4. members(v)[i] \in R /\ Rank(K, members(v)[i].key) = Rank(K, x.key)
    BY <1>8, <2>3
  <2>5. members(v)[i].key \in K
    BY <1>4, <2>4
  <2>6. members(v)[i].key = x.key
    BY <1>2, <2>1, <2>4, <2>5
  <2>7. QED
    BY <1>1, <2>4, <2>6
<1>10. members(v) \in Seq(Member(N)) /\ Len(members(v)) = n /\ DOMAIN members(v) = 1 .. n
  <2>1. \A i \in 1 .. n : members(v)[i] \in Member(N)
    BY <1>1, <1>8
  <2>2. members(v) = [i \in 1 .. n |-> members(v)[i]]
    <3> HIDE DEF P
    <3>1. QED
      BY <1>7
  <2>3. QED
    BY <1>3, <2>1, <2>2
<1>11. QED
  BY <1>3, <1>8, <1>9, <1>10

(***************************************************************************)
(* Equal names are written in the same order, whatever the order they were *)
(* put in.                                                                 *)
(***************************************************************************)
LEMMA SameNamesSameOrder ==
  ASSUME NEW N, NEW v, Keyed(v, N), NEW w, Keyed(w, N), KeySet(v) = KeySet(w)
  PROVE  /\ Len(v.members) = Len(w.members)
         /\ \A i \in DOMAIN v.members : members(v)[i].key = members(w)[i].key
<1> DEFINE K == KeySet(v)
<1>1. K \in SUBSET DOMAIN KeyRank /\ IsFiniteSet(K)
      /\ Cardinality(K) = Len(v.members) /\ Cardinality(K) = Len(w.members)
  BY KeysOf
<1>2. DOMAIN v.members = 1 .. Len(v.members) /\ DOMAIN w.members = 1 .. Len(w.members)
  BY DEF Keyed
<1>3. \A i \in DOMAIN v.members :
        members(v)[i] \in Range(v.members) /\ Rank(K, members(v)[i].key) = i - 1
  BY MembersAre
<1>4. \A i \in DOMAIN w.members :
        members(w)[i] \in Range(w.members) /\ Rank(KeySet(w), members(w)[i].key) = i - 1
  BY MembersAre
<1>5. ASSUME NEW i \in DOMAIN v.members PROVE members(v)[i].key = members(w)[i].key
  <2>1. i \in DOMAIN w.members
    BY <1>1, <1>2
  <2>2. members(v)[i].key \in KeySet(v) /\ members(w)[i].key \in KeySet(w)
    BY <1>3, <1>4, <2>1 DEF KeySet
  <2>3. Rank(K, members(v)[i].key) = Rank(K, members(w)[i].key)
    BY <1>3, <1>4, <2>1
  <2> HIDE DEF K
  <2>4. \A k, l \in K : Rank(K, k) = Rank(K, l) => k = l
    BY <1>1, Ranks
  <2>5. QED
    BY <2>2, <2>3, <2>4 DEF K
<1>6. QED
  BY <1>1, <1>5

-----------------------------------------------------------------------------
(* What is written of a value.                                             *)

Types == {"mark", "string", "number", "null", "boolean", "list", "dict", "other"}

Marks == {"[", "]", "{", "}", ",", ":"}

Tokens(heap) ==
  [type : Types, value : Marks \cup DOMAIN KeyRank \cup {heap[n].value : n \in DOMAIN heap}]

JcsBelow(heap) == [m \in DOMAIN heap |-> IF Json(heap[m]) THEN Inside(heap[m]) ELSE <<>>]

Open(v) ==
  CASE v.kind = "list" -> Mark("[")
    [] v.kind = "dict" -> Mark("{")
    [] OTHER           -> One(Spelled(v))

Close(v) ==
  CASE v.kind = "list" -> Mark("]")
    [] v.kind = "dict" -> Mark("}")
    [] OTHER           -> <<>>

LEMMA MarkType ==
  ASSUME NEW heap, NEW m \in Marks
  PROVE  /\ Token("mark", m) \in Tokens(heap) /\ Mark(m) \in Seq(Tokens(heap))
         /\ Mark(m) = One(Token("mark", m))
<1>1. Token("mark", m) \in Tokens(heap)
  BY DEF Token, Tokens, Types
<1>2. Mark(m) = One(Token("mark", m))
  BY DEF Mark, One
<1>3. QED
  BY <1>1, <1>2, OneType

LEMMA JcsTypes ==
  ASSUME NEW g \in Givens, g.walker = "jcs", NEW n \in DOMAIN g.heap
  PROVE  LET N == DOMAIN g.heap
             v == g.heap[n]
             T == Tokens(g.heap)
         IN  /\ PythonValue(v, N)
             /\ Json(v) /\ v.kind = "dict" => Keyed(v, N)
             /\ Json(v) => JcsBelow(g.heap)[n] = Inside(v) /\ Inside(v) \in Seq(N)
             /\ JcsBelow(g.heap)[n] \in Seq(N)
             /\ Spelled(v) \in T /\ Open(v) \in Seq(T) /\ Close(v) \in Seq(T)
             /\ \A i \in DOMAIN JcsBelow(g.heap)[n] : Lead(v, i) \in Seq(T)
<1> DEFINE N == DOMAIN g.heap
           v == g.heap[n]
           T == Tokens(g.heap)
<1>1. PythonValue(v, N)
  BY GivensAssumption
<1>2. ASSUME Json(v), v.kind = "dict" PROVE Keyed(v, N)
  <2>1. /\ v.members \in Seq([key : DOMAIN KeyRank \cup {Absent}, node : N])
        /\ \A i, j \in DOMAIN v.members :
             v.members[i].key = v.members[j].key => i = j \/ v.members[i].key = Absent
    BY <1>1, <1>2 DEF PythonValue
  <2>2. \A i \in DOMAIN v.members : v.members[i].key # Absent
    BY <1>2 DEF Json
  <2> HIDE DEF N, v
  <2>3. \A i \in DOMAIN v.members : v.members[i] \in Member(N)
    <3> TAKE i \in DOMAIN v.members
    <3> DEFINE M == [key : DOMAIN KeyRank \cup {Absent}, node : N]
    <3>1. PICK x \in M : x = v.members[i]
      <4>1. v.members \in Seq(M)
        BY <2>1
      <4> HIDE DEF M
      <4>2. QED
        BY <4>1
    <3>2. x.key \in DOMAIN KeyRank /\ x.node \in N /\ x = [key |-> x.key, node |-> x.node]
      BY <2>2, <3>1
    <3>3. QED
      BY <3>1, <3>2 DEF Member
  <2>4. v.members \in Seq(Member(N))
    <3>1. DOMAIN v.members = 1 .. Len(v.members) /\ Len(v.members) \in Nat
          /\ v.members = [i \in 1 .. Len(v.members) |-> v.members[i]]
      BY <2>1
    <3>2. QED
      BY <2>3, <3>1
  <2>5. QED
    BY <2>1, <2>2, <2>4 DEF Keyed
<1>3. ASSUME Json(v) PROVE Inside(v) \in Seq(N)
  <2>1. CASE v.kind = "list"
    BY <1>1, <2>1 DEF PythonValue, Inside
  <2>2. CASE v.kind = "dict"
    <3>1. Inside(v) = [i \in DOMAIN v.members |-> members(v)[i].node]
      BY <2>2 DEF Inside
    <3>2. Keyed(v, N)
      BY <1>2, <1>3, <2>2
    <3> HIDE DEF v, N
    <3>3. members(v) \in Seq(Member(N)) /\ DOMAIN members(v) = DOMAIN v.members
      BY <3>2, MembersAre
    <3>4. DOMAIN members(v) = 1 .. Len(members(v)) /\ Len(members(v)) \in Nat
          /\ \A i \in 1 .. Len(members(v)) : members(v)[i] \in Member(N)
      BY <3>3
    <3>5. \A m \in Member(N) : m.node \in N
      BY DEF Member
    <3>6. \A i \in 1 .. Len(members(v)) : members(v)[i].node \in N
      BY <3>4, <3>5
    <3>7. QED
      BY <3>1, <3>3, <3>4, <3>6
  <2>3. CASE v.kind \notin {"list", "dict"}
    <3> HIDE DEF v, N
    <3>1. Inside(v) = <<>>
      BY <2>3 DEF Inside
    <3>2. QED
      BY <3>1
  <2>4. QED
    BY <2>1, <2>2, <2>3
<1>4. JcsBelow(g.heap)[n] = IF Json(v) THEN Inside(v) ELSE <<>>
  BY DEF JcsBelow
<1>5. JcsBelow(g.heap)[n] \in Seq(N)
  <2> HIDE DEF N, v
  <2>1. QED
    BY <1>3, <1>4
<1>6. Spelled(v) \in T
  <2>1. v.kind \in {"null", "boolean", "string", "int", "float", "list", "dict", "other"}
    BY <1>1 DEF PythonValue
  <2>2. QED
    BY <2>1 DEF Spelled, Token, Tokens, Types
<1>7. Open(v) \in Seq(T) /\ Close(v) \in Seq(T)
  <2>1. Mark("[") \in Seq(T) /\ Mark("]") \in Seq(T) /\ Mark("{") \in Seq(T) /\ Mark("}") \in Seq(T)
    BY MarkType DEF Marks
  <2>2. One(Spelled(v)) \in Seq(T)
    BY <1>6, OneType
  <2> HIDE DEF T, v
  <2>3. Open(v) \in {Mark("["), Mark("{"), One(Spelled(v))}
    BY DEF Open
  <2>4. Close(v) \in {Mark("]"), Mark("}"), <<>>}
    BY DEF Close
  <2>5. <<>> \in Seq(T)
    OBVIOUS
  <2>6. QED
    BY <2>1, <2>2, <2>3, <2>4, <2>5
<1>8. ASSUME NEW i \in DOMAIN JcsBelow(g.heap)[n] PROVE Lead(v, i) \in Seq(T)
  <2>1. Mark(",") \in Seq(T) /\ Mark(":") \in Seq(T)
    BY MarkType DEF Marks
  <2>2. Json(v)
    BY <1>4
  <2>3. (IF i = 1 THEN <<>> ELSE Mark(",")) \in Seq(T)
    <3> HIDE DEF T
    <3>1. <<>> \in Seq(T)
      OBVIOUS
    <3>2. QED
      BY <2>1, <3>1
  <2> DEFINE name == <<Token("string", members(v)[i].key)>>
  <2>4. CASE v.kind = "dict"
    <3>1. Keyed(v, N) /\ i \in DOMAIN v.members
      BY <1>2, <1>4, <2>2, <2>4 DEF Inside
    <3>2. members(v)[i] \in Member(N)
      <4> HIDE DEF v, N
      <4>1. QED
        BY <3>1, MembersAre DEF Keyed
    <3>3. Token("string", members(v)[i].key) \in T
      BY <3>2 DEF Member, Token, Tokens, Types
    <3> HIDE DEF T, v
    <3>4. name \in Seq(T)
      BY <3>3
    <3> HIDE DEF name
    <3>5. name \o Mark(":") \in Seq(T)
      BY <2>1, <3>4, ConcatProperties
    <3>6. Lead(v, i) = (IF i = 1 THEN <<>> ELSE Mark(",")) \o (name \o Mark(":"))
      BY <2>4 DEF Lead, name
    <3>7. QED
      BY <2>3, <3>5, <3>6, ConcatProperties
  <2>5. CASE v.kind # "dict"
    <3> HIDE DEF T, v, name
    <3>1. Lead(v, i) = (IF i = 1 THEN <<>> ELSE Mark(",")) \o <<>>
      BY <2>5 DEF Lead
    <3>2. QED
      BY <2>3, <3>1, ConcatEmptySeq
  <2>6. QED
    BY <2>4, <2>5
<1>9. QED
  BY <1>1, <1>2, <1>3, <1>4, <1>5, <1>6, <1>7, <1>8

(***************************************************************************)
(* What a list of parts stands for is what each of them stands for.        *)
(***************************************************************************)
LEMMA SpreadFlatten ==
  ASSUME NEW X, NEW S, NEW F \in Meanings(X, S), NEW ss \in Seq(Seq(X))
  PROVE  /\ [i \in DOMAIN ss |-> Spread(F, ss[i])] \in Seq(Seq(S))
         /\ Spread(F, FlattenSeq(ss)) = FlattenSeq([i \in DOMAIN ss |-> Spread(F, ss[i])])
<1>0. ASSUME NEW a \in Seq(X), NEW b \in Seq(X)
      PROVE  Spread(F, a \o b) = Spread(F, a) \o Spread(F, b)
  BY SpreadAppend
<1> DEFINE n == Len(ss)
           tt == [i \in DOMAIN ss |-> Spread(F, ss[i])]
<1>1. n \in Nat /\ DOMAIN ss = 1 .. n /\ \A i \in 1 .. n : ss[i] \in Seq(X)
  OBVIOUS
<1>2. \A s \in Seq(X) : Spread(F, s) \in Seq(S)
  BY SpreadParts
<1>3. tt \in Seq(Seq(S)) /\ Len(tt) = n /\ \A i \in 1 .. n : tt[i] = Spread(F, ss[i])
  BY <1>1, <1>2
<1>4. PICK f \in [0 .. n -> Seq(X)] :
        f[0] = <<>> /\ f[n] = FlattenSeq(ss) /\ \A i \in 1 .. n : f[i] = f[i - 1] \o ss[i]
  BY FlattenSteps
<1> DEFINE h == [i \in 0 .. n |-> Spread(F, f[i])]
<1>5. h \in [0 .. n -> Seq(S)] /\ h[0] = <<>> /\ h[n] = Spread(F, FlattenSeq(ss))
  BY <1>1, <1>2, <1>4, SpreadEmpty
<1>6. ASSUME NEW i \in 1 .. n PROVE h[i] = h[i - 1] \o tt[i]
  <2>1. i \in 0 .. n /\ i - 1 \in 0 .. n
    BY <1>1
  <2>2. f[i - 1] \in Seq(X) /\ ss[i] \in Seq(X) /\ f[i] = f[i - 1] \o ss[i]
    BY <1>1, <1>4, <2>1
  <2>3. Spread(F, f[i - 1] \o ss[i]) = Spread(F, f[i - 1]) \o Spread(F, ss[i])
    <3>1. PICK a \in Seq(X), b \in Seq(X) : a = f[i - 1] /\ b = ss[i]
      BY <2>2
    <3>2. Spread(F, a \o b) = Spread(F, a) \o Spread(F, b)
      BY <1>0
    <3>3. QED
      BY <3>1, <3>2
  <2>4. h[i] = Spread(F, f[i]) /\ h[i - 1] = Spread(F, f[i - 1])
    BY <2>1
  <2> HIDE DEF h, tt
  <2>5. QED
    BY <1>3, <2>2, <2>3, <2>4
<1> HIDE DEF h, tt
<1>7. FlattenSeq(tt) = h[n]
  <2> HIDE DEF n
  <2>1. h \in [0 .. Len(tt) -> Seq(S)] /\ \A i \in 1 .. Len(tt) : h[i] = h[i - 1] \o tt[i]
    BY <1>3, <1>5, <1>6
  <2>2. QED
    BY <1>3, <1>5, <2>1, FlattenIs
<1>8. QED
  BY <1>3, <1>5, <1>7 DEF tt

LEMMA SpreadQuiet ==
  ASSUME NEW X, NEW S, NEW F \in Meanings(X, S), NEW t \in Seq(X),
         \A i \in DOMAIN t : F[t[i]] = <<>>
  PROVE  Spread(F, t) = <<>>
<1> DEFINE tt == [i \in DOMAIN t |-> F[t[i]]]
           f == [i \in 0 .. Len(t) |-> <<>>]
<1>1. tt \in Seq(Seq(S)) /\ Spread(F, t) = FlattenSeq(tt)
  BY SpreadParts DEF Spread
<1>2. Len(tt) = Len(t) /\ \A i \in 1 .. Len(t) : tt[i] = <<>>
  OBVIOUS
<1>3. f \in [0 .. Len(t) -> Seq(S)] /\ f[0] = <<>> /\ f[Len(t)] = <<>>
  OBVIOUS
<1>4. \A i \in 1 .. Len(t) : f[i] = f[i - 1] \o tt[i]
  <2>1. \A i \in 1 .. Len(t) : f[i] = <<>> /\ f[i - 1] = <<>>
    OBVIOUS
  <2>2. <<>> \o <<>> = <<>>
    OBVIOUS
  <2> HIDE DEF f, tt
  <2>3. QED
    BY <1>2, <2>1, <2>2
<1> HIDE DEF tt, f
<1>5. FlattenSeq(tt) = f[Len(tt)]
  BY <1>1, <1>2, <1>3, <1>4, FlattenIs
<1>6. QED
  BY <1>1, <1>2, <1>3, <1>5

LEMMA SpreadItself ==
  ASSUME NEW X, NEW S, NEW F \in Meanings(X, S), NEW t \in Seq(X), t \in Seq(S),
         \A i \in DOMAIN t : F[t[i]] = One(t[i])
  PROVE  Spread(F, t) = t
<1> DEFINE tt == [i \in DOMAIN t |-> F[t[i]]]
           f == [i \in 0 .. Len(t) |-> SubSeq(t, 1, i)]
<1>1. tt \in Seq(Seq(S)) /\ Spread(F, t) = FlattenSeq(tt)
  BY SpreadParts DEF Spread
<1>2. Len(tt) = Len(t) /\ Len(t) \in Nat /\ \A i \in 1 .. Len(t) : tt[i] = <<t[i]>>
  BY DEF One
<1>3. f \in [0 .. Len(t) -> Seq(S)] /\ f[0] = <<>> /\ f[Len(t)] = t
  <2>1. \A i \in 0 .. Len(t) : SubSeq(t, 1, i) \in Seq(S)
    OBVIOUS
  <2>2. SubSeq(t, 1, 0) = <<>>
    BY SubSeqEmpty
  <2>3. SubSeq(t, 1, Len(t)) = t
    BY SubSeqFull
  <2>4. QED
    BY <1>2, <2>1, <2>2, <2>3
<1>4. \A i \in 1 .. Len(t) : f[i] = f[i - 1] \o tt[i]
  <2> TAKE i \in 1 .. Len(t)
  <2>1. 1 \in 1 .. Len(t) /\ i \in 1 .. Len(t) /\ i - 1 \in 0 .. Len(t) /\ i \in 0 .. Len(t)
    BY <1>2
  <2>2. SubSeq(t, 1, i) = SubSeq(t, 1, i - 1) \o <<t[i]>>
    BY <2>1, SubSeqRecursiveSecond
  <2>3. f[i] = SubSeq(t, 1, i) /\ f[i - 1] = SubSeq(t, 1, i - 1)
    BY <2>1
  <2> HIDE DEF f, tt
  <2>4. QED
    BY <1>2, <2>2, <2>3
<1> HIDE DEF tt, f
<1>5. FlattenSeq(tt) = f[Len(tt)]
  <2>1. tt \in Seq(Seq(S)) /\ f \in [0 .. Len(tt) -> Seq(S)] /\ f[0] = <<>>
    BY <1>1, <1>2, <1>3
  <2>2. \A i \in 1 .. Len(tt) : f[i] = f[i - 1] \o tt[i]
    BY <1>2, <1>4
  <2>3. QED
    BY <2>1, <2>2, FlattenIs
<1>6. QED
  BY <1>1, <1>2, <1>3, <1>5

\* A text is a beginning, its items, and an end.
Enclosed(text, a, items, b) == text = (a \o FlattenSeq(items)) \o b

Said(F, v, d) ==
  [i \in DOMAIN Inside(v) |-> Spread(F, Lead(v, i)) \o F[Node(Inside(v)[i], d)]]

(***************************************************************************)
(* What is left to write of a value stands for its marks and its items.    *)
(***************************************************************************)
LEMMA PartsSpread ==
  ASSUME NEW g \in Givens, g.walker = "jcs", NEW n \in DOMAIN g.heap,
         Inside(g.heap[n]) = JcsBelow(g.heap)[n], NEW depth \in 0 .. JcsDepth,
         NEW X, Pending(DOMAIN g.heap, JcsDepth) \subseteq X, Tokens(g.heap) \subseteq X,
         NEW S, NEW F \in Meanings(X, S)
  PROVE  LET v == g.heap[n]
         IN  /\ Parts(v, depth) \in Seq(X)
             /\ Said(F, v, depth + 1) \in Seq(Seq(S))
             /\ Spread(F, Open(v)) \in Seq(S) /\ Spread(F, Close(v)) \in Seq(S)
             /\ Enclosed(Spread(F, Parts(v, depth)),
                         Spread(F, Open(v)), Said(F, v, depth + 1), Spread(F, Close(v)))
<1> DEFINE N == DOMAIN g.heap
           v == g.heap[n]
           T == Tokens(g.heap)
           I == Inside(v)
           d == depth + 1
           ss == [i \in DOMAIN I |-> Lead(v, i) \o One(Node(I[i], d))]
           a == Open(v)
           b == Close(v)
           p == FlattenSeq(ss)
<1>1. I \in Seq(N) /\ a \in Seq(T) /\ b \in Seq(T) /\ \A i \in DOMAIN I : Lead(v, i) \in Seq(T)
  BY JcsTypes
<1>2. Seq(T) \subseteq Seq(X)
  <2> HIDE DEF T
  <2>1. T \subseteq X
    BY DEF T
  <2>2. \A s \in Seq(T) : s \in Seq(X)
    BY <2>1, SeqMonotonic
  <2>3. QED
    BY <2>2
<1>3. d \in 0 .. JcsDepth + 1
  BY JcsAssumption
<1>4. \A i \in DOMAIN I : Node(I[i], d) \in X /\ One(Node(I[i], d)) \in Seq(X)
  <2> TAKE i \in DOMAIN I
  <2>1. I[i] \in N
    <3> HIDE DEF I, N
    <3>1. QED
      BY <1>1
  <2>2. Node(I[i], d) \in Pending(N, JcsDepth)
    BY <1>3, <2>1 DEF Node, Pending
  <2>3. QED
    BY <2>2, OneType
<1>5. DOMAIN I = 1 .. Len(I) /\ Len(I) \in Nat
  BY <1>1, LenProperties
<1> HIDE DEF N, v, T, I, a, b, d
<1>6. ASSUME NEW i \in DOMAIN I
      PROVE  /\ Lead(v, i) \in Seq(X)
             /\ Lead(v, i) \o One(Node(I[i], d)) \in Seq(X)
             /\ Spread(F, Lead(v, i) \o One(Node(I[i], d)))
                  = Spread(F, Lead(v, i)) \o F[Node(I[i], d)]
  <2>1. PICK l \in Seq(X), x \in X : l = Lead(v, i) /\ x = Node(I[i], d)
    BY <1>1, <1>2, <1>4
  <2>2. One(x) \in Seq(X)
    BY OneType
  <2>3. Spread(F, l \o One(x)) = Spread(F, l) \o Spread(F, One(x))
    BY <2>2, SpreadAppend
  <2>4. Spread(F, One(x)) = F[x]
    BY SpreadOne
  <2>5. l \o One(x) \in Seq(X)
    BY <2>2, ConcatProperties
  <2>6. QED
    BY <2>1, <2>3, <2>4, <2>5
<1>7. ss \in Seq(Seq(X)) /\ DOMAIN ss = DOMAIN I
  BY <1>5, <1>6
<1>8. \A i \in DOMAIN ss : Spread(F, ss[i]) = Spread(F, Lead(v, i)) \o F[Node(I[i], d)]
  BY <1>6
<1> HIDE DEF ss
<1>9. /\ [i \in DOMAIN ss |-> Spread(F, ss[i])] \in Seq(Seq(S))
      /\ Spread(F, p) = FlattenSeq([i \in DOMAIN ss |-> Spread(F, ss[i])])
  BY <1>7, SpreadFlatten
<1>10. [i \in DOMAIN ss |-> Spread(F, ss[i])] = Said(F, v, d)
  BY <1>7, <1>8 DEF Said, I
<1>11. p \in Seq(X) /\ a \in Seq(X) /\ b \in Seq(X)
  BY <1>1, <1>2, <1>7, FlattenType
<1> HIDE DEF p
<1>12. PICK ap \in Seq(X) : ap = a \o p
  BY <1>11, ConcatProperties
<1>13. Parts(v, depth) = ap \o b
  <2>1. p = FlattenSeq([i \in DOMAIN Inside(v) |-> Lead(v, i) \o <<Node(Inside(v)[i], depth + 1)>>])
    BY DEF p, ss, I, d, One
  <2>2. CASE v.kind = "list"
    <3>1. Parts(v, depth) = Mark("[") \o p \o Mark("]")
      BY <2>1, <2>2 DEF Parts
    <3>2. a = Mark("[") /\ b = Mark("]")
      BY <2>2 DEF a, b, Open, Close
    <3>3. QED
      BY <1>12, <3>1, <3>2
  <2>3. CASE v.kind = "dict"
    <3>1. Parts(v, depth) = Mark("{") \o p \o Mark("}")
      BY <2>1, <2>3 DEF Parts
    <3>2. a = Mark("{") /\ b = Mark("}")
      BY <2>3 DEF a, b, Open, Close
    <3>3. QED
      BY <1>12, <3>1, <3>2
  <2>4. CASE v.kind \notin {"list", "dict"}
    <3>1. Parts(v, depth) = One(Spelled(v))
      BY <2>4 DEF Parts, One
    <3>2. a = One(Spelled(v)) /\ b = <<>>
      BY <2>4 DEF a, b, Open, Close
    <3>3. p = <<>>
      <4>1. I = <<>>
        BY <2>4 DEF Inside, I
      <4>2. ss = <<>>
        BY <1>7, <4>1
      <4>3. QED
        BY <4>2, FlattenEmpty DEF p
    <3>4. a \o p = a /\ a \o b = a
      BY <1>11, <3>2, <3>3, ConcatEmptySeq
    <3>5. QED
      BY <1>12, <3>1, <3>2, <3>4
  <2>5. QED
    BY <2>2, <2>3, <2>4
<1>14. Spread(F, ap \o b) = Spread(F, ap) \o Spread(F, b)
  BY <1>11, SpreadAppend
<1>15. Spread(F, ap) = Spread(F, a) \o Spread(F, p)
  BY <1>11, <1>12, SpreadAppend
<1>16. ap \o b \in Seq(X)
  BY <1>11, ConcatProperties
<1>17. Spread(F, a) \in Seq(S) /\ Spread(F, b) \in Seq(S)
  BY <1>11, SpreadParts
<1>18. QED
  BY <1>9, <1>10, <1>13, <1>14, <1>15, <1>16, <1>17 DEF Enclosed, v, d, a, b

-----------------------------------------------------------------------------
(* The text of a value, up to a depth.                                     *)

Pieces(heap, n, texts) ==
  [i \in DOMAIN JcsBelow(heap)[n] |-> Lead(heap[n], i) \o texts[JcsBelow(heap)[n][i]]]

TextOf(heap, n, texts) == (Open(heap[n]) \o FlattenSeq(Pieces(heap, n, texts))) \o Close(heap[n])

TextLevel(heap) == [DOMAIN heap -> Seq(Tokens(heap))]

NoText(heap) == [n \in DOMAIN heap |-> <<>>]

NextTexts(heap) ==
  [k \in Nat |-> [texts \in TextLevel(heap) |-> [n \in DOMAIN heap |-> TextOf(heap, n, texts)]]]

Texts(heap) ==
  CHOOSE f : f \in Recursions(TextLevel(heap), NoText(heap), NextTexts(heap))

LEMMA PiecesType ==
  ASSUME NEW g \in Givens, g.walker = "jcs", NEW n \in DOMAIN g.heap,
         NEW texts \in TextLevel(g.heap)
  PROVE  /\ Pieces(g.heap, n, texts) \in Seq(Seq(Tokens(g.heap)))
         /\ TextOf(g.heap, n, texts) \in Seq(Tokens(g.heap))
<1> DEFINE N == DOMAIN g.heap
           v == g.heap[n]
           T == Tokens(g.heap)
           I == JcsBelow(g.heap)[n]
           ss == Pieces(g.heap, n, texts)
<1>1. I \in Seq(N) /\ Open(v) \in Seq(T) /\ Close(v) \in Seq(T)
      /\ \A i \in DOMAIN I : Lead(v, i) \in Seq(T)
  BY JcsTypes
<1>2. \A m \in N : texts[m] \in Seq(T)
  BY DEF TextLevel
<1>3. ss = [i \in DOMAIN I |-> Lead(v, i) \o texts[I[i]]]
  BY DEF Pieces
<1> HIDE DEF N, v, T, I, ss
<1>4. DOMAIN I = 1 .. Len(I) /\ Len(I) \in Nat /\ \A i \in DOMAIN I : I[i] \in N
  BY <1>1
<1>5. \A i \in DOMAIN I : Lead(v, i) \o texts[I[i]] \in Seq(T)
  <2> TAKE i \in DOMAIN I
  <2>1. PICK a \in Seq(T), b \in Seq(T) : a = Lead(v, i) /\ b = texts[I[i]]
    BY <1>1, <1>2, <1>4
  <2>2. a \o b \in Seq(T)
    BY ConcatProperties
  <2>3. QED
    BY <2>1, <2>2
<1>6. ss \in Seq(Seq(T))
  BY <1>3, <1>4, <1>5
<1>7. FlattenSeq(ss) \in Seq(T)
  BY <1>6, FlattenType
<1>8. (Open(v) \o FlattenSeq(ss)) \o Close(v) \in Seq(T)
  BY <1>1, <1>7, ConcatProperties
<1>9. QED
  BY <1>6, <1>8 DEF TextOf, T, v, ss

LEMMA TextsAre ==
  ASSUME NEW g \in Givens, g.walker = "jcs"
  PROVE  /\ \A k \in Nat : Texts(g.heap)[k] \in TextLevel(g.heap)
         /\ \A k \in Nat, n \in DOMAIN g.heap : Texts(g.heap)[k][n] \in Seq(Tokens(g.heap))
         /\ \A n \in DOMAIN g.heap : Texts(g.heap)[0][n] = <<>>
         /\ \A j, k \in Nat, n \in DOMAIN g.heap : j = k + 1 =>
              Enclosed(Texts(g.heap)[j][n], Open(g.heap[n]),
                       Pieces(g.heap, n, Texts(g.heap)[k]), Close(g.heap[n]))
<1> DEFINE N == DOMAIN g.heap
           V == TextLevel(g.heap)
           X == Texts(g.heap)
           R == Recursions(V, NoText(g.heap), NextTexts(g.heap))
<1>1. NoText(g.heap) \in V
  BY DEF NoText, TextLevel
<1>2. NextTexts(g.heap) \in Steps(V)
  <2>1. \A n \in N, x \in V : TextOf(g.heap, n, x) \in Seq(Tokens(g.heap))
    BY PiecesType
  <2>2. \A x \in V : [n \in N |-> TextOf(g.heap, n, x)] \in V
    BY <2>1 DEF TextLevel
  <2> HIDE DEF V
  <2>3. [k \in Nat |-> [x \in V |-> [n \in N |-> TextOf(g.heap, n, x)]]] \in [Nat -> [V -> V]]
    BY <2>2
  <2>4. QED
    BY <2>3 DEF NextTexts, Steps, V
<1>3. X \in R
  <2>1. \E f : f \in R
    <3> HIDE DEF V
    <3>1. QED
      BY <1>1, <1>2, Recursion
  <2> HIDE DEF R
  <2>2. (CHOOSE f : f \in R) \in R
    BY <2>1
  <2>3. QED
    BY <2>2 DEF Texts, R
<1> HIDE DEF X, V
<1>4. X \in [Nat -> V] /\ X[0] = NoText(g.heap)
      /\ \A k \in Nat : X[k + 1] = NextTexts(g.heap)[k][X[k]]
  BY <1>3 DEF Recursions
<1>5. ASSUME NEW k \in Nat, NEW n \in N
      PROVE  X[k + 1][n] = TextOf(g.heap, n, X[k])
  <2>1. X[k] \in V
    BY <1>4
  <2>2. NextTexts(g.heap)[k][X[k]] = [m \in N |-> TextOf(g.heap, m, X[k])]
    BY <2>1 DEF NextTexts, V
  <2>3. QED
    BY <1>4, <2>2
<1>6. \A j, k \in Nat, n \in N : j = k + 1 =>
        Enclosed(X[j][n], Open(g.heap[n]), Pieces(g.heap, n, X[k]), Close(g.heap[n]))
  BY <1>5 DEF TextOf, Enclosed
<1>7. \A n \in N : X[0][n] = <<>>
  BY <1>4 DEF NoText
<1>8. \A k \in Nat : X[k] \in TextLevel(g.heap)
  BY <1>4 DEF V
<1>9. \A k \in Nat, n \in N : X[k][n] \in Seq(Tokens(g.heap))
  BY <1>8 DEF TextLevel
<1>10. QED
  BY <1>6, <1>7, <1>8, <1>9 DEF X

-----------------------------------------------------------------------------
(* What a stack of calls and tokens stands for.                            *)

Entries(heap) == Pending(DOMAIN heap, JcsDepth) \cup Tokens(heap)

JcsAhead(heap) ==
  [x \in Entries(heap) |->
     IF x \in Tokens(heap) THEN <<>> ELSE Ahead(JcsBelow(heap), JcsDepth)[x]]

TextAhead(heap) ==
  [x \in Entries(heap) |->
     IF x \in Tokens(heap) THEN One(x) ELSE Texts(heap)[JcsDepth + 1 - x.depth][x.node]]

LEMMA EntryKinds ==
  ASSUME NEW heap
  PROVE  /\ \A x \in Tokens(heap) : "type" \in DOMAIN x /\ "node" \notin DOMAIN x
         /\ \A x \in Pending(DOMAIN heap, JcsDepth) : "node" \in DOMAIN x /\ "type" \notin DOMAIN x
BY DEF Tokens, Pending

LEMMA EntryTypes ==
  ASSUME NEW g \in Givens, g.walker = "jcs"
  PROVE  /\ JcsBelow(g.heap) \in Nested(DOMAIN g.heap)
         /\ JcsAhead(g.heap) \in Meanings(Entries(g.heap), Nodes(DOMAIN g.heap))
         /\ \A c \in Pending(DOMAIN g.heap, JcsDepth) :
              JcsAhead(g.heap)[c] = Ahead(JcsBelow(g.heap), JcsDepth)[c]
         /\ TextAhead(g.heap) \in Meanings(Entries(g.heap), Tokens(g.heap))
         /\ \A c \in Pending(DOMAIN g.heap, JcsDepth) :
              TextAhead(g.heap)[c] = Texts(g.heap)[JcsDepth + 1 - c.depth][c.node]
<1> DEFINE N == DOMAIN g.heap
           T == Tokens(g.heap)
           P == Pending(N, JcsDepth)
           B == JcsBelow(g.heap)
           A == Ahead(B, JcsDepth)
<1>1. B \in Nested(N)
  <2>1. \A n \in N : B[n] \in Seq(N)
    BY JcsTypes
  <2>2. B = [n \in N |-> B[n]]
    BY DEF JcsBelow
  <2> HIDE DEF B
  <2>3. QED
    BY <2>1, <2>2 DEF Nested
<1>2. A \in Meanings(P, Nodes(N)) /\ JcsDepth \in Nat
  <2> HIDE DEF B
  <2>1. QED
    BY <1>1, AheadType, JcsAssumption
<1>3. \A x \in T : x \notin P
  BY EntryKinds
<1>4. \A c \in P : c.node \in N /\ JcsDepth + 1 - c.depth \in Nat
  BY <1>2 DEF Pending
<1>5. \A c \in P : Texts(g.heap)[JcsDepth + 1 - c.depth][c.node] \in Seq(T)
  BY <1>4, TextsAre
<1>6. \A x \in T : One(x) \in Seq(T)
  BY OneType
<1> HIDE DEF P, T, N, A
<1>7. JcsAhead(g.heap) \in Meanings(Entries(g.heap), Nodes(N))
      /\ \A c \in P : JcsAhead(g.heap)[c] = A[c]
  <2>1. \A x \in P : A[x] \in Seq(Nodes(N))
    BY <1>2 DEF Meanings
  <2>2. \A x \in Entries(g.heap) : x \in P \/ x \in T
    BY DEF Entries, P, T, N
  <2>3. \A x \in P : x \in Entries(g.heap)
    BY DEF Entries, P, N
  <2>4. JcsAhead(g.heap) = [x \in Entries(g.heap) |-> IF x \in T THEN <<>> ELSE A[x]]
    BY DEF JcsAhead, T, A
  <2>5. \A x \in Entries(g.heap) : (IF x \in T THEN <<>> ELSE A[x]) \in Seq(Nodes(N))
    BY <2>1, <2>2
  <2>6. QED
    BY <1>3, <2>3, <2>4, <2>5 DEF Meanings
<1>8. TextAhead(g.heap) \in Meanings(Entries(g.heap), T)
      /\ \A c \in P : TextAhead(g.heap)[c] = Texts(g.heap)[JcsDepth + 1 - c.depth][c.node]
  <2>1. \A x \in Entries(g.heap) : x \in P \/ x \in T
    BY DEF Entries, P, T, N
  <2>2. \A x \in P : x \in Entries(g.heap)
    BY DEF Entries, P, N
  <2>3. TextAhead(g.heap) = [x \in Entries(g.heap) |->
          IF x \in T THEN One(x) ELSE Texts(g.heap)[JcsDepth + 1 - x.depth][x.node]]
    BY DEF TextAhead, T
  <2>4. \A x \in Entries(g.heap) :
          (IF x \in T THEN One(x) ELSE Texts(g.heap)[JcsDepth + 1 - x.depth][x.node]) \in Seq(T)
    BY <1>5, <1>6, <2>1
  <2>5. QED
    BY <1>3, <2>2, <2>3, <2>4 DEF Meanings
<1>9. QED
  BY <1>1, <1>7, <1>8 DEF P, A, T, N

(***************************************************************************)
(* What a call leaves on the stack stands for the calls it makes, and for  *)
(* the text of its value.                                                  *)
(***************************************************************************)
LEMMA PartsAhead ==
  ASSUME NEW g \in Givens, g.walker = "jcs",
         NEW c \in Pending(DOMAIN g.heap, JcsDepth), c.depth <= JcsDepth,
         Inside(g.heap[c.node]) = JcsBelow(g.heap)[c.node]
  PROVE  LET parts == Parts(g.heap[c.node], c.depth)
         IN  /\ parts \in Seq(Entries(g.heap))
             /\ Spread(JcsAhead(g.heap), parts)
                  = Spread(Ahead(JcsBelow(g.heap), JcsDepth), Within(JcsBelow(g.heap), c))
<1> DEFINE N == DOMAIN g.heap
           T == Tokens(g.heap)
           X == Entries(g.heap)
           F == JcsAhead(g.heap)
           A == Ahead(JcsBelow(g.heap), JcsDepth)
           B == JcsBelow(g.heap)
<1>1. PICK n \in N : n = c.node
  BY DEF Pending
<1> DEFINE v == g.heap[n]
           I == Inside(v)
<1>2. PICK depth \in 0 .. JcsDepth : depth = c.depth
  <2>1. c.depth \in 0 .. JcsDepth + 1 /\ JcsDepth \in Nat
    BY JcsAssumption DEF Pending
  <2>2. QED
    BY <2>1
<1> DEFINE d == depth + 1
<1>3. /\ I \in Seq(N) /\ Open(v) \in Seq(T) /\ Close(v) \in Seq(T)
      /\ \A i \in DOMAIN I : Lead(v, i) \in Seq(T)
  BY <1>1, JcsTypes
<1>4. Pending(N, JcsDepth) \subseteq X /\ T \subseteq X
  BY DEF Entries
<1>5. F \in Meanings(X, Nodes(N)) /\ \A e \in Pending(N, JcsDepth) : F[e] = A[e]
  BY EntryTypes
<1>6. \A t \in T : F[t] = <<>>
  BY DEF JcsAhead, Entries
<1>7. /\ Parts(v, depth) \in Seq(X)
      /\ Enclosed(Spread(F, Parts(v, depth)),
                  Spread(F, Open(v)), Said(F, v, d), Spread(F, Close(v)))
      /\ Said(F, v, d) \in Seq(Seq(Nodes(N)))
  <2> HIDE DEF X, F
  <2>1. Inside(g.heap[n]) = JcsBelow(g.heap)[n]
    BY <1>1
  <2>2. Pending(DOMAIN g.heap, JcsDepth) \subseteq X /\ Tokens(g.heap) \subseteq X
    BY <1>4
  <2>3. QED
    BY <1>5, <2>1, <2>2, PartsSpread
<1>8. ASSUME NEW s \in Seq(T) PROVE Spread(F, s) = <<>>
  <2> HIDE DEF F, T, X, N
  <2>1. s \in Seq(X) /\ \A i \in DOMAIN s : s[i] \in T
    BY <1>4
  <2>2. \A i \in DOMAIN s : F[s[i]] = <<>>
    BY <1>6, <2>1
  <2>3. QED
    BY <1>5, <2>1, <2>2, SpreadQuiet
<1>9. DOMAIN I = 1 .. Len(I) /\ Len(I) \in Nat /\ \A i \in DOMAIN I : I[i] \in N
  <2> HIDE DEF I
  <2>1. QED
    BY <1>3
<1>10. Within(B, c) = [i \in DOMAIN I |-> Node(I[i], d)]
  BY <1>1, <1>2 DEF Within
<1>11. \A i \in DOMAIN I : Node(I[i], d) \in Pending(N, JcsDepth)
  <2>1. d \in 0 .. JcsDepth + 1
    BY JcsAssumption
  <2> HIDE DEF d, I
  <2>2. QED
    BY <1>9, <2>1 DEF Pending, Node
<1>12. Said(F, v, d) = [i \in DOMAIN Within(B, c) |-> A[Within(B, c)[i]]]
  <2>1. ASSUME NEW i \in DOMAIN I
        PROVE  Spread(F, Lead(v, i)) \o F[Node(I[i], d)] = A[Node(I[i], d)]
    <3>1. PICK e \in Pending(N, JcsDepth) : e = Node(I[i], d)
      BY <1>11
    <3> HIDE DEF F, A, N, T, X, I, v, d
    <3>2. Spread(F, Lead(v, i)) = <<>>
      BY <1>3, <1>8
    <3>3. e \in X /\ F[e] = A[e]
      BY <1>4, <1>5
    <3>4. F[e] \in Seq(Nodes(N))
      BY <1>5, <3>3 DEF Meanings
    <3>5. QED
      BY <3>1, <3>2, <3>3, <3>4, ConcatEmptySeq
  <2>2. Said(F, v, d) = [i \in DOMAIN I |-> Spread(F, Lead(v, i)) \o F[Node(I[i], d)]]
    BY DEF Said
  <2> HIDE DEF F, A, B, I, v, d
  <2>3. \A i \in DOMAIN I : Within(B, c)[i] = Node(I[i], d)
    BY <1>10
  <2>4. DOMAIN Within(B, c) = DOMAIN I
    BY <1>10
  <2>5. QED
    BY <2>1, <2>2, <2>3, <2>4
<1> HIDE DEF F, A, B, I, v, d, X, N, T
<1>13. FlattenSeq(Said(F, v, d)) = Spread(A, Within(B, c))
  BY <1>12 DEF Spread
<1>14. Spread(F, Parts(v, depth)) = (<<>> \o FlattenSeq(Said(F, v, d))) \o <<>>
  BY <1>3, <1>7, <1>8 DEF Enclosed
<1>15. PICK whole \in Seq(Nodes(N)) : whole = FlattenSeq(Said(F, v, d))
  BY <1>7, FlattenType
<1>16. (<<>> \o whole) \o <<>> = whole
  BY ConcatEmptySeq
<1>17. Spread(F, Parts(v, depth)) = Spread(A, Within(B, c))
  BY <1>13, <1>14, <1>15, <1>16
<1>18. QED
  BY <1>1, <1>2, <1>7, <1>17 DEF F, A, B, v, X

LEMMA PartsText ==
  ASSUME NEW g \in Givens, g.walker = "jcs",
         NEW c \in Pending(DOMAIN g.heap, JcsDepth), c.depth <= JcsDepth,
         Inside(g.heap[c.node]) = JcsBelow(g.heap)[c.node]
  PROVE  Spread(TextAhead(g.heap), Parts(g.heap[c.node], c.depth)) = TextAhead(g.heap)[c]
<1> DEFINE N == DOMAIN g.heap
           T == Tokens(g.heap)
           X == Entries(g.heap)
           F == TextAhead(g.heap)
           U == Texts(g.heap)
<1>1. PICK n \in N : n = c.node
  BY DEF Pending
<1> DEFINE v == g.heap[n]
           I == Inside(v)
<1>2. PICK depth \in 0 .. JcsDepth : depth = c.depth
  <2>1. c.depth \in 0 .. JcsDepth + 1 /\ JcsDepth \in Nat
    BY JcsAssumption DEF Pending
  <2>2. QED
    BY <2>1
<1> DEFINE d == depth + 1
           k == JcsDepth - depth
<1>3. /\ I \in Seq(N) /\ Open(v) \in Seq(T) /\ Close(v) \in Seq(T)
      /\ \A i \in DOMAIN I : Lead(v, i) \in Seq(T)
  BY <1>1, JcsTypes
<1>4. Pending(N, JcsDepth) \subseteq X /\ T \subseteq X
  BY DEF Entries
<1>5. F \in Meanings(X, T)
      /\ \A e \in Pending(N, JcsDepth) : F[e] = U[JcsDepth + 1 - e.depth][e.node]
  BY EntryTypes
<1>6. \A t \in T : F[t] = One(t)
  BY DEF TextAhead, Entries
<1>7. Enclosed(Spread(F, Parts(v, depth)),
               Spread(F, Open(v)), Said(F, v, d), Spread(F, Close(v)))
  <2> HIDE DEF X, F, T
  <2>1. Inside(g.heap[n]) = JcsBelow(g.heap)[n]
    BY <1>1
  <2>2. Pending(DOMAIN g.heap, JcsDepth) \subseteq X /\ Tokens(g.heap) \subseteq X
    BY <1>4 DEF T
  <2>3. QED
    BY <1>5, <2>1, <2>2, PartsSpread
<1>8. ASSUME NEW s \in Seq(T) PROVE Spread(F, s) = s
  <2> HIDE DEF F, T, X, N
  <2>1. s \in Seq(X) /\ \A i \in DOMAIN s : s[i] \in T
    BY <1>4
  <2>2. \A i \in DOMAIN s : F[s[i]] = One(s[i])
    BY <1>6, <2>1
  <2>3. QED
    BY <1>5, <2>1, <2>2, SpreadItself
<1>9. DOMAIN I = 1 .. Len(I) /\ Len(I) \in Nat /\ \A i \in DOMAIN I : I[i] \in N
  <2> HIDE DEF I
  <2>1. QED
    BY <1>3
<1>10. k \in Nat /\ JcsDepth + 1 - d = k /\ JcsDepth + 1 - depth = k + 1 /\ d \in 0 .. JcsDepth + 1
       /\ k + 1 \in Nat
  BY JcsAssumption
<1>11. \A i \in DOMAIN I : Node(I[i], d) \in Pending(N, JcsDepth)
         /\ Node(I[i], d).node = I[i] /\ Node(I[i], d).depth = d
  <2> HIDE DEF d, I
  <2>1. QED
    BY <1>9, <1>10 DEF Pending, Node
<1>12. Said(F, v, d) = Pieces(g.heap, n, U[k])
  <2>1. ASSUME NEW i \in DOMAIN I
        PROVE  Spread(F, Lead(v, i)) \o F[Node(I[i], d)] = Lead(v, i) \o U[k][I[i]]
    <3> HIDE DEF F, U, N, T, X, I, v, d, k
    <3>1. Spread(F, Lead(v, i)) = Lead(v, i)
      BY <1>3, <1>8
    <3>2. F[Node(I[i], d)] = U[k][I[i]]
      BY <1>5, <1>10, <1>11
    <3>3. QED
      BY <3>1, <3>2
  <2>2. Said(F, v, d) = [i \in DOMAIN I |-> Spread(F, Lead(v, i)) \o F[Node(I[i], d)]]
    BY DEF Said
  <2>3. Pieces(g.heap, n, U[k]) = [i \in DOMAIN I |-> Lead(v, i) \o U[k][I[i]]]
    BY <1>1 DEF Pieces
  <2> HIDE DEF F, U, I, v, d, k
  <2>4. QED
    BY <2>1, <2>2, <2>3
<1>13. Enclosed(U[k + 1][n], Open(v), Pieces(g.heap, n, U[k]), Close(v))
  <2> HIDE DEF k
  <2>1. PICK kk \in Nat, j \in Nat : kk = k /\ j = kk + 1
    BY <1>10
  <2>2. Enclosed(U[j][n], Open(v), Pieces(g.heap, n, U[kk]), Close(v))
    BY <2>1, TextsAre
  <2>3. QED
    BY <2>1, <2>2
<1>14. F[c] = U[k + 1][n]
  BY <1>1, <1>2, <1>5, <1>10
<1> HIDE DEF F, U, I, v, d, X, N, T, k
<1>15. Spread(F, Open(v)) = Open(v) /\ Spread(F, Close(v)) = Close(v)
  BY <1>3, <1>8
<1>16. Spread(F, Parts(v, depth)) = F[c]
  BY <1>7, <1>12, <1>13, <1>14, <1>15 DEF Enclosed
<1>17. QED
  BY <1>1, <1>2, <1>16 DEF F, v

LoneToken(t) == t.type = "string" /\ t.value \in Lone

Unpaired(heap) ==
  [x \in Entries(heap) |-> IF x \in Tokens(heap) /\ LoneToken(x) THEN One(x) ELSE <<>>]

LEMMA MarksAreNoStrings ==
  /\ \A m : \A j \in DOMAIN Mark(m) : ~ LoneToken(Mark(m)[j])
  /\ \A j \in DOMAIN <<>> : ~ LoneToken(<<>>[j])
BY DEF Mark, Token, LoneToken

\* A value that _serialize writes, which fails at the latest when the text is
\* encoded.
Writable(v) == Json(v) \/ v.kind = "string"

(***************************************************************************)
(* What is written of a value has a surrogate without a partner exactly    *)
(* when the value is a string that has one.                                *)
(***************************************************************************)
LEMMA PartsUnpaired ==
  ASSUME NEW g \in Givens, g.walker = "jcs", NEW n \in DOMAIN g.heap, Writable(g.heap[n]),
         NEW depth \in 0 .. JcsDepth
  PROVE  /\ Inside(g.heap[n]) = JcsBelow(g.heap)[n]
         /\ Unpaired(g.heap) \in Meanings(Entries(g.heap), Tokens(g.heap))
         /\ Spread(Unpaired(g.heap), Parts(g.heap[n], depth)) = <<>> <=> Json(g.heap[n])
<1> DEFINE N == DOMAIN g.heap
           T == Tokens(g.heap)
           X == Entries(g.heap)
           F == Unpaired(g.heap)
           v == g.heap[n]
           I == Inside(v)
           d == depth + 1
<1>1. I = JcsBelow(g.heap)[n]
  BY DEF Writable, JcsBelow, Inside
<1>2. /\ I \in Seq(N) /\ Open(v) \in Seq(T) /\ Close(v) \in Seq(T) /\ Spelled(v) \in T
      /\ \A i \in DOMAIN I : Lead(v, i) \in Seq(T)
  BY <1>1, JcsTypes
<1>3. Pending(N, JcsDepth) \subseteq X /\ T \subseteq X
  BY DEF Entries
<1>4. F \in Meanings(X, T)
  <2>1. \A x \in X : F[x] \in Seq(T)
    <3>1. \A x \in T : One(x) \in Seq(T)
      BY OneType
    <3>2. \A x \in X : F[x] = IF x \in T /\ LoneToken(x) THEN One(x) ELSE <<>>
      BY DEF Unpaired
    <3>3. <<>> \in Seq(T)
      OBVIOUS
    <3> HIDE DEF F, X, T
    <3>4. QED
      BY <3>1, <3>2, <3>3
  <2>2. F = [x \in X |-> F[x]]
    BY DEF Unpaired
  <2> HIDE DEF F, X, T
  <2>3. QED
    BY <2>1, <2>2 DEF Meanings
<1>5. \A x \in X : ~ (x \in T /\ LoneToken(x)) => F[x] = <<>>
  BY DEF Unpaired
<1>6. \A e \in Pending(N, JcsDepth) : F[e] = <<>>
  <2>1. \A e \in Pending(N, JcsDepth) : e \notin T
    BY EntryKinds
  <2> HIDE DEF F, X, T
  <2>2. QED
    BY <1>3, <1>5, <2>1
<1>7. /\ Enclosed(Spread(F, Parts(v, depth)),
                  Spread(F, Open(v)), Said(F, v, d), Spread(F, Close(v)))
      /\ Said(F, v, d) \in Seq(Seq(T))
  <2> HIDE DEF X, F, T
  <2>1. Pending(DOMAIN g.heap, JcsDepth) \subseteq X /\ Tokens(g.heap) \subseteq X
    BY <1>3 DEF T
  <2>2. QED
    BY <1>1, <1>4, <2>1, PartsSpread
<1>8. ASSUME NEW s \in Seq(T), \A i \in DOMAIN s : ~ LoneToken(s[i])
      PROVE  Spread(F, s) = <<>>
  <2> HIDE DEF F, T, X, N
  <2>1. s \in Seq(X) /\ \A i \in DOMAIN s : s[i] \in T
    BY <1>3
  <2>2. \A i \in DOMAIN s : F[s[i]] = <<>>
    BY <1>3, <1>5, <1>8, <2>1
  <2>3. QED
    BY <1>4, <2>1, <2>2, SpreadQuiet
<1>9. \A i \in DOMAIN I : \A j \in DOMAIN Lead(v, i) : ~ LoneToken(Lead(v, i)[j])
  <2> TAKE i \in DOMAIN I
  <2> DEFINE comma == Token("mark", ",")
             colon == Token("mark", ":")
             name == Token("string", members(v)[i].key)
  <2>1. ~ LoneToken(comma) /\ ~ LoneToken(colon)
    BY DEF LoneToken, Token
  <2>2. CASE v.kind = "dict"
    <3>1. Json(v) /\ Keyed(v, N) /\ DOMAIN I = DOMAIN v.members
      BY <2>2, JcsTypes DEF Writable, Inside
    <3>2. members(v)[i] \in Range(v.members)
      BY <3>1, MembersAre
    <3>3. PICK j \in DOMAIN v.members : v.members[j] = members(v)[i]
      BY <3>2 DEF Range
    <3>4. members(v)[i].key \notin Lone
      BY <2>2, <3>1, <3>3 DEF Json
    <3>5. ~ LoneToken(name)
      BY <3>4 DEF LoneToken, Token
    <3>6. Lead(v, i) = (IF i = 1 THEN <<>> ELSE One(comma)) \o (One(name) \o One(colon))
      BY <2>2 DEF Lead, Mark, One
    <3> DEFINE Q == {name, comma, colon}
    <3>7. \A t \in Q : ~ LoneToken(t)
      BY <2>1, <3>5
    <3> HIDE DEF name, comma, colon
    <3>8. One(name) \in Seq(Q) /\ One(comma) \in Seq(Q) /\ One(colon) \in Seq(Q) /\ <<>> \in Seq(Q)
      BY OneType
    <3>9. PICK nc \in Seq(Q) : nc = One(name) \o One(colon)
      BY <3>8, ConcatProperties
    <3>10. PICK sep \in Seq(Q) : sep = IF i = 1 THEN <<>> ELSE One(comma)
      BY <3>8
    <3>11. Lead(v, i) = sep \o nc /\ sep \o nc \in Seq(Q)
      BY <3>6, <3>9, <3>10, ConcatProperties
    <3> HIDE DEF Q
    <3>12. \A l \in DOMAIN Lead(v, i) : Lead(v, i)[l] \in Q
      BY <3>11
    <3>13. QED
      BY <3>7, <3>12
  <2>3. CASE v.kind # "dict"
    <3>1. Lead(v, i) = (IF i = 1 THEN <<>> ELSE <<comma>>) \o <<>>
      BY <2>3 DEF Lead, Mark
    <3> HIDE DEF comma, colon
    <3>2. Lead(v, i) = IF i = 1 THEN <<>> ELSE <<comma>>
      BY <3>1
    <3>3. CASE i = 1
      BY <3>2, <3>3
    <3>4. CASE i # 1
      <4>1. Lead(v, i) = <<comma>>
        BY <3>2, <3>4
      <4>2. QED
        BY <2>1, <4>1
    <3>5. QED
      BY <3>3, <3>4
  <2>4. QED
    BY <2>2, <2>3
<1>10. Spread(F, Close(v)) = <<>>
  <2>1. \A j \in DOMAIN Close(v) : ~ LoneToken(Close(v)[j])
    <3>1. Close(v) \in {Mark("]"), Mark("}"), <<>>}
      BY DEF Close
    <3> HIDE DEF v
    <3>2. QED
      BY <3>1, MarksAreNoStrings
  <2> HIDE DEF F, T, v
  <2>2. QED
    BY <1>2, <1>8, <2>1
<1>11. Spread(F, Open(v)) = <<>> <=> Json(v)
  <2>1. CASE v.kind \in {"list", "dict"}
    <3>1. Json(v)
      BY <2>1 DEF Writable
    <3>2. \A j \in DOMAIN Open(v) : ~ LoneToken(Open(v)[j])
      <4>1. Open(v) \in {Mark("["), Mark("{")}
        BY <2>1 DEF Open
      <4> HIDE DEF v
      <4>2. QED
        BY <4>1, MarksAreNoStrings
    <3> HIDE DEF F, T, v
    <3>3. QED
      BY <1>2, <1>8, <3>1, <3>2
  <2>2. CASE v.kind \notin {"list", "dict"}
    <3>1. Open(v) = One(Spelled(v))
      BY <2>2 DEF Open
    <3>2. PICK x \in X : x = Spelled(v)
      BY <1>2, <1>3
    <3>3. Spread(F, One(x)) = F[x]
      <4> HIDE DEF F, X, T
      <4>1. QED
        BY <1>4, SpreadOne
    <3>4. F[x] = IF LoneToken(x) THEN One(x) ELSE <<>>
      BY <1>2, <3>2 DEF Unpaired
    <3>5. One(x) # <<>>
      BY DEF One
    <3>6. LoneToken(x) <=> v.kind = "string" /\ v.value \in Lone
      BY <3>2 DEF LoneToken, Spelled, Token
    <3>7. Json(v) <=> ~ (v.kind = "string" /\ v.value \in Lone)
      BY <2>2 DEF Json, Writable
    <3> HIDE DEF F, X, v
    <3>8. QED
      BY <3>1, <3>2, <3>3, <3>4, <3>5, <3>6, <3>7
  <2>3. QED
    BY <2>1, <2>2
<1>12. FlattenSeq(Said(F, v, d)) = <<>>
  <2> DEFINE ss == Said(F, v, d)
             f == [i \in 0 .. Len(ss) |-> <<>>]
  <2>1. ASSUME NEW i \in DOMAIN I
        PROVE  Spread(F, Lead(v, i)) \o F[Node(I[i], d)] = <<>>
    <3>1. I[i] \in N
      <4> HIDE DEF I
      <4>1. QED
        BY <1>2
    <3>2. d \in 0 .. JcsDepth + 1
      BY JcsAssumption
    <3>3. Node(I[i], d) \in Pending(N, JcsDepth)
      BY <3>1, <3>2 DEF Pending, Node
    <3> HIDE DEF F, T, X, N, I, v, d
    <3>4. F[Node(I[i], d)] = <<>>
      BY <1>6, <3>3
    <3>5. Spread(F, Lead(v, i)) = <<>>
      BY <1>2, <1>8, <1>9
    <3>6. <<>> \o <<>> = <<>>
      OBVIOUS
    <3>7. QED
      BY <3>4, <3>5, <3>6
  <2>2. ss = [i \in DOMAIN I |-> <<>>]
    <3>1. ss = [i \in DOMAIN I |-> Spread(F, Lead(v, i)) \o F[Node(I[i], d)]]
      BY DEF Said
    <3> HIDE DEF F, I, v, d, ss
    <3>2. QED
      BY <2>1, <3>1
  <2> HIDE DEF ss, F, T, I, v, d
  <2>3. ss \in Seq(Seq(T))
    BY <1>7 DEF ss
  <2>4. DOMAIN ss = 1 .. Len(ss) /\ Len(ss) \in Nat /\ \A i \in DOMAIN ss : ss[i] = <<>>
    BY <2>2, <2>3
  <2>5. f \in [0 .. Len(ss) -> Seq(T)] /\ f[0] = <<>> /\ f[Len(ss)] = <<>>
    BY <2>4
  <2>6. \A i \in 1 .. Len(ss) : f[i] = f[i - 1] \o ss[i]
    <3>1. \A i \in 1 .. Len(ss) : f[i] = <<>> /\ f[i - 1] = <<>> /\ ss[i] = <<>>
      BY <2>4
    <3>2. <<>> \o <<>> = <<>>
      OBVIOUS
    <3> HIDE DEF f
    <3>3. QED
      BY <3>1, <3>2
  <2> HIDE DEF f
  <2>7. FlattenSeq(ss) = f[Len(ss)]
    BY <2>3, <2>5, <2>6, FlattenIs
  <2>8. QED
    BY <2>5, <2>7 DEF ss
<1> HIDE DEF F, I, v, d, X, N, T
<1>13. Spread(F, Parts(v, depth)) = (Spread(F, Open(v)) \o <<>>) \o <<>>
  BY <1>7, <1>10, <1>12 DEF Enclosed
<1>14. Spread(F, Open(v)) \in Seq(T)
  <2>1. Open(v) \in Seq(X)
    <3>1. \A s \in Seq(T) : s \in Seq(X)
      BY <1>3, SeqMonotonic
    <3>2. QED
      BY <1>2, <3>1
  <2>2. QED
    BY <1>4, <2>1, SpreadParts
<1>15. Spread(F, Parts(v, depth)) = Spread(F, Open(v))
  BY <1>13, <1>14, ConcatEmptySeq
<1>16. QED
  BY <1>1, <1>4, <1>11, <1>15 DEF I, v, F, X, T

(***************************************************************************)
(* What refuses one call refuses the value it is made for.                 *)
(***************************************************************************)
LEMMA IllegalWhole ==
  ASSUME NEW heap, NEW past \in Seq(Nodes(DOMAIN heap)), NEW c \in Nodes(DOMAIN heap),
         NEW after \in Seq(Nodes(DOMAIN heap)),
         Len(past) + 1 > JcsVisits \/ c.depth > JcsDepth \/ ~ Json(heap[c.node])
  PROVE  ~ Legal(heap, (past \o One(c)) \o after)
<1> DEFINE N == DOMAIN heap
           all == (past \o One(c)) \o after
<1>1. all \in Seq(Nodes(N)) /\ Len(all) = Len(past) + 1 + Len(after)
      /\ Len(past) + 1 \in DOMAIN all /\ all[Len(past) + 1] = c
  BY DEF One
<1>2. Len(after) \in Nat /\ Len(past) \in Nat /\ c.depth \in Int /\ {JcsDepth, JcsVisits} \subseteq Nat
  BY JcsAssumption DEF Nodes
<1> HIDE DEF all
<1> SUFFICES ASSUME Legal(heap, all) PROVE FALSE
  BY DEF all
<1>3. c.depth <= JcsDepth /\ Json(heap[c.node]) /\ Len(all) <= JcsVisits
  BY <1>1 DEF Legal
<1>4. QED
  BY <1>1, <1>2, <1>3

(***************************************************************************)
(* Under way: the calls made and those ahead are all calls of the value,   *)
(* what is written and what is ahead is its text, and what was let through *)
(* without being JSON is still to be seen in the text.                     *)
(***************************************************************************)
JcsPast(g, n, past, stack, made, written) ==
  /\ past \in Seq(Nodes(DOMAIN g.heap))
  /\ Covers(JcsAhead(g.heap), JcsCalls(g.heap, n), past, stack)
  /\ Len(past) = made /\ made <= JcsVisits
  /\ \A i \in DOMAIN past : past[i].depth <= JcsDepth
  /\ (\A i \in DOMAIN past : Json(g.heap[past[i].node]))
       <=> /\ Spread(Unpaired(g.heap), stack) = <<>>
           /\ \A i \in DOMAIN written : ~ LoneToken(written[i])

JcsUnderWay(g, n, stack, made, written) ==
  /\ stack \in Seq(Entries(g.heap)) /\ written \in Seq(Tokens(g.heap))
  /\ Covers(TextAhead(g.heap), Texts(g.heap)[JcsDepth + 1][n], written, stack)
  /\ \E past : JcsPast(g, n, past, stack, made, written)

JcsRight(g, n, verdict, written) ==
  /\ verdict = OK <=> Legal(g.heap, JcsCalls(g.heap, n))
  /\ verdict = OK => written = Texts(g.heap)[JcsDepth + 1][n]

LEMMA UnpairedType ==
  ASSUME NEW g \in Givens, g.walker = "jcs"
  PROVE  /\ Unpaired(g.heap) \in Meanings(Entries(g.heap), Tokens(g.heap))
         /\ \A c \in Pending(DOMAIN g.heap, JcsDepth) : Unpaired(g.heap)[c] = <<>>
         /\ \A t \in Tokens(g.heap) :
              Unpaired(g.heap)[t] = IF LoneToken(t) THEN One(t) ELSE <<>>
<1> DEFINE T == Tokens(g.heap)
           P == Pending(DOMAIN g.heap, JcsDepth)
           X == Entries(g.heap)
           F == Unpaired(g.heap)
<1>1. \A x \in X : F[x] = IF x \in T /\ LoneToken(x) THEN One(x) ELSE <<>>
  BY DEF Unpaired
<1>2. F = [x \in X |-> F[x]]
  BY DEF Unpaired
<1>3. \A e \in P : e \notin T
  BY EntryKinds
<1>4. \A t \in T : One(t) \in Seq(T)
  BY OneType
<1>5. P \subseteq X /\ T \subseteq X
  BY DEF Entries
<1> HIDE DEF F, X, T, P
<1>6. <<>> \in Seq(T)
  OBVIOUS
<1>7. \A x \in X : F[x] \in Seq(T)
  BY <1>1, <1>4, <1>6
<1>8. F \in Meanings(X, T)
  BY <1>2, <1>7 DEF Meanings
<1>9. QED
  BY <1>1, <1>3, <1>5, <1>8 DEF F, X, T, P

LEMMA JcsAheadIs ==
  ASSUME NEW g \in Givens, g.walker = "jcs", NEW n \in DOMAIN g.heap
  PROVE  /\ Node(n, 0) \in Pending(DOMAIN g.heap, JcsDepth) /\ Node(n, 0) \in Entries(g.heap)
         /\ JcsAhead(g.heap)[Node(n, 0)] = JcsCalls(g.heap, n)
         /\ TextAhead(g.heap)[Node(n, 0)] = Texts(g.heap)[JcsDepth + 1][n]
<1>1. JcsBelow(g.heap) \in Nested(DOMAIN g.heap) /\ JcsDepth \in Nat
  BY EntryTypes, JcsAssumption
<1>2. JcsCalls(g.heap, n) = Unfold(JcsBelow(g.heap), JcsDepth)[JcsDepth + 1][n]
  BY DEF JcsCalls, JcsBelow
<1>3. /\ Node(n, 0) \in Pending(DOMAIN g.heap, JcsDepth)
      /\ Ahead(JcsBelow(g.heap), JcsDepth)[Node(n, 0)]
           = Unfold(JcsBelow(g.heap), JcsDepth)[JcsDepth + 1][n]
  BY <1>1, AheadType
<1>4. Node(n, 0).node = n /\ Node(n, 0).depth = 0 /\ JcsDepth + 1 - 0 = JcsDepth + 1
  BY <1>1 DEF Node
<1>5. QED
  BY <1>2, <1>3, <1>4, EntryTypes DEF Entries

LEMMA JcsBegun ==
  ASSUME NEW g \in Givens, g.walker = "jcs", NEW n \in DOMAIN g.heap
  PROVE  JcsUnderWay(g, n, One(Node(n, 0)), 0, <<>>)
<1> DEFINE N == DOMAIN g.heap
           A == JcsAhead(g.heap)
           F == TextAhead(g.heap)
           L == Unpaired(g.heap)
           X == Entries(g.heap)
           T == Tokens(g.heap)
<1>1. PICK c \in X : c = Node(n, 0) /\ c \in Pending(N, JcsDepth)
                     /\ A[c] = JcsCalls(g.heap, n) /\ F[c] = Texts(g.heap)[JcsDepth + 1][n]
  BY JcsAheadIs
<1>2. /\ A \in Meanings(X, Nodes(N)) /\ F \in Meanings(X, T) /\ L \in Meanings(X, T)
      /\ L[c] = <<>>
  BY <1>1, EntryTypes, UnpairedType
<1> HIDE DEF N, A, F, L, X, T
<1>3. Spread(A, One(c)) = A[c] /\ Spread(F, One(c)) = F[c] /\ Spread(L, One(c)) = <<>>
  BY <1>2, SpreadOne
<1>4. A[c] \in Seq(Nodes(N)) /\ F[c] \in Seq(T)
  BY <1>2 DEF Meanings
<1>5. <<>> \o A[c] = A[c] /\ <<>> \o F[c] = F[c]
  BY <1>4, ConcatEmptySeq
<1>6. One(c) \in Seq(X) /\ <<>> \in Seq(T) /\ <<>> \in Seq(Nodes(N)) /\ Len(<<>>) = 0
      /\ 0 <= JcsVisits /\ DOMAIN <<>> = {}
  BY OneType, JcsAssumption
<1>7. JcsPast(g, n, <<>>, One(c), 0, <<>>)
  BY <1>1, <1>3, <1>5, <1>6 DEF JcsPast, Covers, N, A, L
<1>8. Covers(F, Texts(g.heap)[JcsDepth + 1][n], <<>>, One(c))
  BY <1>1, <1>3, <1>5 DEF Covers
<1>9. QED
  BY <1>1, <1>6, <1>7, <1>8 DEF JcsUnderWay, F, X, T

(***************************************************************************)
(* One call more: it refuses the value, or the walk is under way as        *)
(* before.                                                                 *)
(***************************************************************************)
LEMMA JcsCall ==
  ASSUME NEW g \in Givens, g.walker = "jcs", NEW n \in DOMAIN g.heap,
         NEW stack, NEW made, NEW written, JcsUnderWay(g, n, stack, made, written),
         stack # <<>>, "node" \in DOMAIN Head(stack)
  PROVE  LET c == Head(stack)
             v == g.heap[c.node]
             refused == made + 1 > JcsVisits \/ c.depth > JcsDepth \/ ~ Writable(v)
         IN  /\ c \in Pending(DOMAIN g.heap, JcsDepth)
             /\ refused => ~ Legal(g.heap, JcsCalls(g.heap, n))
             /\ ~ refused => JcsUnderWay(g, n, Parts(v, c.depth) \o Tail(stack), made + 1, written)
<1> DEFINE N == DOMAIN g.heap
           B == JcsBelow(g.heap)
           G == JcsAhead(g.heap)
           F == TextAhead(g.heap)
           L == Unpaired(g.heap)
           P == Pending(N, JcsDepth)
           X == Entries(g.heap)
           T == Tokens(g.heap)
           W == JcsCalls(g.heap, n)
           D == Texts(g.heap)[JcsDepth + 1][n]
<1>1. PICK past : JcsPast(g, n, past, stack, made, written)
  BY DEF JcsUnderWay
<1>2. /\ B \in Nested(N) /\ JcsDepth \in Nat /\ G \in Meanings(X, Nodes(N))
      /\ F \in Meanings(X, T) /\ L \in Meanings(X, T)
      /\ P \subseteq X /\ T \subseteq X /\ P \subseteq Nodes(N)
      /\ \A d \in P : G[d] = Ahead(B, JcsDepth)[d]
      /\ \A d \in P : L[d] = <<>>
  <2>1. P \subseteq X /\ T \subseteq X
    BY DEF Entries
  <2>2. P \subseteq Nodes(N)
    BY DEF Pending, Nodes
  <2>3. QED
    BY <2>1, <2>2, EntryTypes, JcsAssumption, UnpairedType
<1>3. \A x \in X : "node" \in DOMAIN x => x \in P
  BY EntryKinds DEF Entries
<1>4. stack \in Seq(X) /\ written \in Seq(T) /\ Covers(F, D, written, stack)
  BY DEF JcsUnderWay
<1>5. /\ past \in Seq(Nodes(N)) /\ Covers(G, W, past, stack)
      /\ Len(past) = made /\ made <= JcsVisits
      /\ \A i \in DOMAIN past : past[i].depth <= JcsDepth
      /\ (\A i \in DOMAIN past : Json(g.heap[past[i].node]))
           <=> Spread(L, stack) = <<>> /\ \A i \in DOMAIN written : ~ LoneToken(written[i])
  BY <1>1 DEF JcsPast
<1> HIDE DEF B, G, F, L, X, T, W, D
<1>6. PICK c \in X, rest \in Seq(X) : c = Head(stack) /\ rest = Tail(stack) /\ stack = One(c) \o rest
  BY <1>4, FirstAndRest
<1>7. c \in P
  BY <1>3, <1>6
<1> HIDE DEF P
<1>8. /\ c \in Nodes(N) /\ past \o One(c) \in Seq(Nodes(N))
      /\ \E after \in Seq(Nodes(N)) : W = (past \o One(c)) \o after
      /\ c.depth <= JcsDepth => \A parts \in Seq(X) :
           Spread(G, parts) = Spread(Ahead(B, JcsDepth), Within(B, c)) =>
             Covers(G, W, past \o One(c), parts \o rest)
  <2>1. c \in Pending(N, JcsDepth) /\ Pending(N, JcsDepth) \subseteq X
        /\ \A d \in Pending(N, JcsDepth) : G[d] = Ahead(B, JcsDepth)[d]
    BY <1>2, <1>7 DEF P
  <2>2. Covers(G, W, past, One(c) \o rest)
    BY <1>5, <1>6
  <2>3. B \in Nested(N) /\ JcsDepth \in Nat /\ G \in Meanings(X, Nodes(N)) /\ past \in Seq(Nodes(N))
    BY <1>2, <1>5
  <2> HIDE DEF N
  <2>4. QED
    BY <2>1, <2>2, <2>3, NextCall
<1> DEFINE v == g.heap[c.node]
           refused == made + 1 > JcsVisits \/ c.depth > JcsDepth \/ ~ Writable(v)
<1>9. ASSUME refused PROVE ~ Legal(g.heap, W)
  <2>1. PICK after \in Seq(Nodes(N)) : W = (past \o One(c)) \o after
    BY <1>8
  <2>2. Len(past) + 1 > JcsVisits \/ c.depth > JcsDepth \/ ~ Json(v)
    BY <1>5, <1>9 DEF Writable
  <2>3. ~ Legal(g.heap, (past \o One(c)) \o after)
    BY <1>5, <1>8, <2>2, IllegalWhole
  <2>4. QED
    BY <2>1, <2>3
<1>10. ASSUME ~ refused
       PROVE  JcsUnderWay(g, n, Parts(v, c.depth) \o rest, made + 1, written)
  <2> DEFINE more == past \o One(c)
  <2>1. c.depth \in 0 .. JcsDepth /\ c.depth <= JcsDepth /\ c.node \in N
    BY <1>2, <1>7, <1>10 DEF P, Pending
  <2>2. PICK depth \in 0 .. JcsDepth, m \in N : depth = c.depth /\ m = c.node
    BY <2>1
  <2>3. /\ Inside(v) = B[c.node]
        /\ Spread(L, Parts(v, c.depth)) = <<>> <=> Json(v)
    <3>1. Writable(g.heap[m])
      BY <1>10, <2>2
    <3>2. QED
      BY <2>2, <3>1, PartsUnpaired DEF L, B
  <2>4. PICK parts \in Seq(X) : /\ parts = Parts(v, c.depth)
                                /\ Spread(G, parts) = Spread(Ahead(B, JcsDepth), Within(B, c))
                                /\ Spread(F, parts) = F[c]
    <3>1. c \in Pending(DOMAIN g.heap, JcsDepth) /\ Inside(g.heap[c.node]) = JcsBelow(g.heap)[c.node]
      BY <1>7, <2>3 DEF P, B
    <3>2. QED
      BY <2>1, <3>1, PartsAhead, PartsText DEF G, F, B, X
  <2> HIDE DEF v
  <2>5. Covers(G, W, more, parts \o rest)
    BY <1>8, <2>1, <2>4
  <2>6. parts \o rest \in Seq(X)
    BY ConcatProperties
  <2>7. Spread(F, parts \o rest) = Spread(F, stack)
    <3>1. Spread(F, parts \o rest) = Spread(F, parts) \o Spread(F, rest)
      BY <1>2, SpreadAppend
    <3>2. Spread(F, One(c) \o rest) = F[c] \o Spread(F, rest)
      BY <1>2, SpreadCons
    <3>3. QED
      BY <1>6, <2>4, <3>1, <3>2
  <2>8. Covers(F, D, written, parts \o rest)
    BY <1>4, <2>7 DEF Covers
  <2>9. Spread(L, parts \o rest) = <<>> <=> Json(v) /\ Spread(L, stack) = <<>>
    <3>1. Spread(L, parts \o rest) = Spread(L, parts) \o Spread(L, rest)
      BY <1>2, SpreadAppend
    <3>2. Spread(L, One(c) \o rest) = <<>> \o Spread(L, rest)
      <4>1. L[c] = <<>>
        BY <1>2, <1>7
      <4>2. Spread(L, One(c) \o rest) = L[c] \o Spread(L, rest)
        BY <1>2, SpreadCons
      <4>3. QED
        BY <4>1, <4>2
    <3>3. PICK a \in Seq(T), b \in Seq(T) : a = Spread(L, parts) /\ b = Spread(L, rest)
      BY <1>2, SpreadParts
    <3>4. <<>> \o b = b /\ (a \o b = <<>> <=> a = <<>> /\ b = <<>>)
      BY ConcatEmptySeq
    <3>5. QED
      BY <1>6, <2>3, <2>4, <3>1, <3>2, <3>3, <3>4
  <2>10. /\ more \in Seq(Nodes(N)) /\ Len(more) = made + 1
         /\ \A i \in DOMAIN more : (i \in DOMAIN past /\ more[i] = past[i]) \/ more[i] = c
         /\ \A i \in DOMAIN past : i \in DOMAIN more /\ more[i] = past[i]
         /\ \E i \in DOMAIN more : more[i] = c
    <3>1. PICK M : M = Nodes(N)
      OBVIOUS
    <3>2. past \in Seq(M) /\ c \in M /\ Len(past) = made
      BY <1>5, <1>8, <3>1
    <3>3. past \o <<c>> \in Seq(M) /\ Len(past \o <<c>>) = Len(past) + 1
          /\ \A i \in 1 .. Len(past) + 1 :
               (past \o <<c>>)[i] = IF i <= Len(past) THEN past[i] ELSE c
      BY <3>2
    <3>4. DOMAIN more = 1 .. Len(past) + 1 /\ DOMAIN past = 1 .. Len(past) /\ Len(past) \in Nat
      BY <3>2, <3>3 DEF One
    <3>5. Len(past) + 1 \in DOMAIN more /\ more[Len(past) + 1] = c
          /\ \A i \in DOMAIN past : i \in DOMAIN more /\ more[i] = past[i]
      BY <3>3, <3>4 DEF One
    <3>6. \A i \in DOMAIN more : (i \in DOMAIN past /\ more[i] = past[i]) \/ more[i] = c
      BY <3>3, <3>4 DEF One
    <3>7. QED
      BY <3>1, <3>2, <3>3, <3>5, <3>6 DEF One
  <2>11. \A i \in DOMAIN more : more[i].depth <= JcsDepth
    BY <1>5, <2>1, <2>10
  <2>12. (\A i \in DOMAIN more : Json(g.heap[more[i].node]))
           <=> (\A i \in DOMAIN past : Json(g.heap[past[i].node])) /\ Json(v)
    <3> HIDE DEF more
    <3>1. QED
      BY <2>10 DEF v
  <2>13. made + 1 <= JcsVisits
    <3>1. made \in Nat /\ JcsVisits \in Nat
      BY <1>5, JcsAssumption
    <3>2. QED
      BY <1>10, <3>1
  <2> HIDE DEF more
  <2>14. JcsPast(g, n, more, parts \o rest, made + 1, written)
    BY <1>5, <2>5, <2>9, <2>10, <2>11, <2>12, <2>13 DEF JcsPast, G, W, L
  <2>15. JcsUnderWay(g, n, parts \o rest, made + 1, written)
    BY <1>4, <2>6, <2>8, <2>14 DEF JcsUnderWay, X, T, F, D
  <2>16. QED
    BY <2>4, <2>15
<1>11. QED
  BY <1>6, <1>7, <1>9, <1>10 DEF P, W

(***************************************************************************)
(* What is on top of the stack and no call is written.                     *)
(***************************************************************************)
LEMMA JcsWrite ==
  ASSUME NEW g \in Givens, g.walker = "jcs", NEW n \in DOMAIN g.heap,
         NEW stack, NEW made, NEW written, JcsUnderWay(g, n, stack, made, written),
         stack # <<>>, "type" \in DOMAIN Head(stack)
  PROVE  JcsUnderWay(g, n, Tail(stack), made, Append(written, Head(stack)))
<1> DEFINE N == DOMAIN g.heap
           G == JcsAhead(g.heap)
           F == TextAhead(g.heap)
           L == Unpaired(g.heap)
           X == Entries(g.heap)
           T == Tokens(g.heap)
           W == JcsCalls(g.heap, n)
           D == Texts(g.heap)[JcsDepth + 1][n]
<1>1. PICK past : JcsPast(g, n, past, stack, made, written)
  BY DEF JcsUnderWay
<1>2. /\ G \in Meanings(X, Nodes(N)) /\ F \in Meanings(X, T) /\ L \in Meanings(X, T)
      /\ T \subseteq X
      /\ \A t \in T : G[t] = <<>> /\ F[t] = One(t)
      /\ \A t \in T : L[t] = IF LoneToken(t) THEN One(t) ELSE <<>>
  <2>1. T \subseteq X
    BY DEF Entries
  <2>2. \A t \in T : G[t] = <<>> /\ F[t] = One(t)
    BY <2>1 DEF JcsAhead, TextAhead
  <2>3. QED
    BY <2>1, <2>2, EntryTypes, UnpairedType
<1>3. \A x \in X : "type" \in DOMAIN x => x \in T
  BY EntryKinds DEF Entries
<1>4. stack \in Seq(X) /\ written \in Seq(T) /\ Covers(F, D, written, stack)
  BY DEF JcsUnderWay
<1>5. /\ past \in Seq(Nodes(N)) /\ Covers(G, W, past, stack)
      /\ Len(past) = made /\ made <= JcsVisits
      /\ \A i \in DOMAIN past : past[i].depth <= JcsDepth
      /\ (\A i \in DOMAIN past : Json(g.heap[past[i].node]))
           <=> Spread(L, stack) = <<>> /\ \A i \in DOMAIN written : ~ LoneToken(written[i])
  BY <1>1 DEF JcsPast
<1> HIDE DEF G, F, L, X, T, W, D, N
<1>6. PICK t \in X, rest \in Seq(X) : t = Head(stack) /\ rest = Tail(stack) /\ stack = One(t) \o rest
  BY <1>4, FirstAndRest
<1>7. t \in T
  BY <1>3, <1>6
<1>8. PICK more \in Seq(T) : more = Append(written, t) /\ more = written \o One(t)
  <2>1. Append(written, t) \in Seq(T)
    BY <1>4, <1>7, AppendProperties
  <2>2. Append(written, t) = written \o <<t>>
    BY <1>4, <1>7, AppendIsConcat
  <2>3. QED
    BY <2>1, <2>2 DEF One
<1>9. /\ Spread(G, stack) = G[t] \o Spread(G, rest)
      /\ Spread(F, stack) = F[t] \o Spread(F, rest)
      /\ Spread(L, stack) = L[t] \o Spread(L, rest)
  <2>1. Spread(G, One(t) \o rest) = G[t] \o Spread(G, rest)
    BY <1>2, SpreadCons
  <2>2. Spread(F, One(t) \o rest) = F[t] \o Spread(F, rest)
    BY <1>2, SpreadCons
  <2>3. Spread(L, One(t) \o rest) = L[t] \o Spread(L, rest)
    BY <1>2, SpreadCons
  <2>4. QED
    BY <1>6, <2>1, <2>2, <2>3
<1>10. PICK a \in Seq(Nodes(N)), b \in Seq(T), l \in Seq(T), o \in Seq(T) :
         a = Spread(G, rest) /\ b = Spread(F, rest) /\ l = Spread(L, rest) /\ o = One(t)
  <2>1. One(t) \in Seq(T)
    BY <1>7, OneType
  <2>2. QED
    BY <1>2, <2>1, SpreadParts
<1>11. Covers(G, W, past, rest)
  <2>1. <<>> \o a = a
    BY <1>10, ConcatEmptySeq
  <2>2. QED
    BY <1>2, <1>5, <1>7, <1>9, <1>10, <2>1 DEF Covers
<1>12. Covers(F, D, more, rest)
  <2>1. (written \o o) \o b = written \o (o \o b)
    <3>1. PICK w \in Seq(T) : w = written
      BY <1>4
    <3>2. (w \o o) \o b = w \o (o \o b)
      BY ConcatAssociative
    <3>3. QED
      BY <3>1, <3>2
  <2>2. F[t] = o
    BY <1>2, <1>7, <1>10
  <2>3. QED
    BY <1>4, <1>8, <1>9, <1>10, <2>1, <2>2 DEF Covers
<1>13. Spread(L, stack) = <<>> <=> Spread(L, rest) = <<>> /\ ~ LoneToken(t)
  <2>1. <<>> \o l = l
    BY <1>10, ConcatEmptySeq
  <2>2. One(t) \o l # <<>>
    BY <1>7, <1>10 DEF One
  <2>3. L[t] = IF LoneToken(t) THEN One(t) ELSE <<>>
    BY <1>2, <1>7
  <2>4. QED
    BY <1>9, <1>10, <2>1, <2>2, <2>3
<1>14. (\A i \in DOMAIN more : ~ LoneToken(more[i]))
         <=> (\A i \in DOMAIN written : ~ LoneToken(written[i])) /\ ~ LoneToken(t)
  <2>1. /\ Len(written) \in Nat /\ DOMAIN written = 1 .. Len(written)
        /\ DOMAIN more = 1 .. Len(written) + 1
        /\ \A i \in 1 .. Len(written) : more[i] = written[i]
        /\ more[Len(written) + 1] = t
    <3>1. PICK w \in Seq(T), u \in T : w = written /\ u = t /\ more = Append(w, u)
      BY <1>4, <1>7, <1>8
    <3>2. Len(w) \in Nat /\ DOMAIN w = 1 .. Len(w) /\ DOMAIN Append(w, u) = 1 .. Len(w) + 1
          /\ Append(w, u)[Len(w) + 1] = u /\ \A i \in 1 .. Len(w) : Append(w, u)[i] = w[i]
      OBVIOUS
    <3>3. QED
      BY <3>1, <3>2
  <2>2. \A i \in DOMAIN more : i \in DOMAIN written \/ i = Len(written) + 1
    BY <2>1
  <2>3. \A i \in DOMAIN written : i \in DOMAIN more
    BY <2>1
  <2>4. Len(written) + 1 \in DOMAIN more
    BY <2>1
  <2>5. QED
    BY <2>1, <2>2, <2>3, <2>4
<1>15. JcsPast(g, n, past, rest, made, more)
  BY <1>5, <1>11, <1>13, <1>14 DEF JcsPast, G, W, L, N
<1>16. QED
  BY <1>6, <1>8, <1>12, <1>15 DEF JcsUnderWay, X, T, F, D

(***************************************************************************)
(* When nothing is left the whole text is written, and encoding it finds   *)
(* what is not JSON.                                                       *)
(***************************************************************************)
LEMMA JcsEnd ==
  ASSUME NEW g \in Givens, g.walker = "jcs", NEW n \in DOMAIN g.heap,
         NEW made, NEW written, JcsUnderWay(g, n, <<>>, made, written)
  PROVE  /\ written = Texts(g.heap)[JcsDepth + 1][n]
         /\ Legal(g.heap, JcsCalls(g.heap, n))
              <=> ~ \E i \in DOMAIN written : written[i].type = "string" /\ written[i].value \in Lone
<1>1. PICK past : JcsPast(g, n, past, <<>>, made, written)
  BY DEF JcsUnderWay
<1>2. JcsCalls(g.heap, n) = past /\ past \in Seq(Nodes(DOMAIN g.heap))
  BY <1>1, SpreadEmpty, ConcatEmptySeq DEF JcsPast, Covers
<1>3. written = Texts(g.heap)[JcsDepth + 1][n]
  BY SpreadEmpty, ConcatEmptySeq DEF JcsUnderWay, Covers
<1>4. Len(past) <= JcsVisits /\ \A i \in DOMAIN past : past[i].depth <= JcsDepth
  BY <1>1 DEF JcsPast
<1>5. (\A i \in DOMAIN past : Json(g.heap[past[i].node]))
        <=> \A i \in DOMAIN written : ~ LoneToken(written[i])
  BY <1>1, SpreadEmpty DEF JcsPast
<1>6. Legal(g.heap, past) <=> \A i \in DOMAIN past : Json(g.heap[past[i].node])
  BY <1>4 DEF Legal
<1>7. QED
  BY <1>2, <1>3, <1>5, <1>6 DEF LoneToken

-----------------------------------------------------------------------------
(* One walk after the other.                                               *)

Reported ==
  {OK, "ValueError", "RecursionError", "JcsError", "AttributeError", "UnicodeEncodeError"}

Outputs(g) == IF g.walker = "jcs" THEN Seq(Tokens(g.heap)) ELSE Seq(Candidates(g.heap))

WalkTypeOK ==
  /\ given \in Givens
  /\ results \in Seq([verdict : Reported, out : Outputs(given)])
  /\ Len(results) <= Len(given.roots)

UnderWay(g, n, stack, made, written) ==
  IF g.walker = "jcs" THEN JcsUnderWay(g, n, stack, made, written)
  ELSE KeysUnderWay(g, n, stack, made, written)

Right(g, n, verdict, written) ==
  IF g.walker = "jcs" THEN JcsRight(g, n, verdict, written) ELSE KeysRight(g, n, verdict, written)

ResultsRight ==
  \A i \in DOMAIN results :
    /\ Right(given, given.roots[i], results[i].verdict, results[i].out)
    /\ results[i].verdict # "RecursionError"

\* What every state of the walks satisfies: the walks that are over ended
\* rightly, and the one under way is on a right way.
WalkInvariant ==
  /\ WalkTypeOK
  /\ ResultsRight
  /\ Walking => UnderWay(given, Root, todo, visits, out)

LEMMA GivenFacts ==
  ASSUME NEW g \in Givens
  PROVE  /\ g.roots \in Seq(DOMAIN g.heap) /\ g.roots # <<>> /\ Len(g.roots) \in Nat
         /\ g.walker \in {"jcs", "keys"}
         /\ \A i \in 1 .. Len(g.roots) : g.roots[i] \in DOMAIN g.heap
<1>1. g.roots \in Seq(DOMAIN g.heap) /\ g.roots # <<>> /\ g.walker \in {"jcs", "keys"}
  BY GivensAssumption
<1>2. PICK N : N = DOMAIN g.heap
  OBVIOUS
<1>3. PICK s \in Seq(N) : s = g.roots
  BY <1>1, <1>2
<1>4. Len(s) \in Nat /\ \A i \in 1 .. Len(s) : s[i] \in N
  OBVIOUS
<1>5. QED
  BY <1>1, <1>2, <1>3, <1>4

LEMMA Begun ==
  ASSUME NEW g \in Givens, NEW n \in DOMAIN g.heap
  PROVE  UnderWay(g, n, <<Node(n, 0)>>, 0, <<>>)
<1>1. <<Node(n, 0)>> = One(Node(n, 0))
  BY DEF One
<1>2. QED
  BY <1>1, GivenFacts, JcsBegun, KeysBegun DEF UnderWay

LEMMA WhileWalking ==
  ASSUME WalkInvariant, Walking
  PROVE  /\ given \in Givens /\ given.walker \in {"jcs", "keys"}
         /\ Root \in DOMAIN given.heap /\ Root = given.roots[Len(results) + 1]
         /\ UnderWay(given, Root, todo, visits, out)
         /\ out \in Outputs(given)
         /\ given.walker = "jcs" => JcsUnderWay(given, Root, todo, visits, out)
         /\ given.walker = "keys" => KeysUnderWay(given, Root, todo, visits, out)
<1>1. given \in Givens /\ UnderWay(given, Root, todo, visits, out) /\ given.walker \in {"jcs", "keys"}
  BY GivenFacts DEF WalkInvariant, WalkTypeOK
<1>2. Root \in DOMAIN given.heap
  <2>1. Len(results) \in Nat /\ Len(results) < Len(given.roots)
    BY DEF WalkInvariant, WalkTypeOK, Walking
  <2>2. Len(given.roots) \in Nat /\ \A i \in 1 .. Len(given.roots) : given.roots[i] \in DOMAIN given.heap
    BY <1>1, GivenFacts
  <2>3. Len(results) + 1 \in 1 .. Len(given.roots)
    BY <2>1, <2>2
  <2>4. QED
    BY <2>2, <2>3 DEF Root
<1>3. CASE given.walker = "jcs"
  BY <1>1, <1>2, <1>3 DEF UnderWay, JcsUnderWay, Outputs, Root
<1>4. CASE given.walker = "keys"
  <2>1. KeysUnderWay(given, Root, todo, visits, out)
    BY <1>1, <1>4 DEF UnderWay
  <2>2. PICK past : KeysPast(given, Root, past, todo, visits, out)
    BY <2>1 DEF KeysUnderWay
  <2>3. past \in Seq(Nodes(DOMAIN given.heap)) /\ out = Carried(given.heap, past)
    BY <2>2 DEF KeysPast
  <2>4. out \in Seq(Candidates(given.heap))
    <3>1. PICK c \in Nodes(DOMAIN given.heap) : c.depth = 0
      <4>1. PICK n \in DOMAIN given.heap : n = Root
        BY <1>2
      <4>2. Node(n, 0) \in Nodes(DOMAIN given.heap) /\ Node(n, 0).depth = 0
        BY DEF Nodes, Node
      <4>3. QED
        BY <4>2
    <3>2. <<>> \in Seq(Nodes(DOMAIN given.heap))
      OBVIOUS
    <3>3. QED
      BY <1>1, <1>4, <2>3, <3>1, <3>2, CarriedParts
  <2>5. QED
    BY <1>1, <1>2, <1>4, <2>1, <2>4 DEF Outputs, Root
<1>5. QED
  BY <1>1, <1>3, <1>4

(***************************************************************************)
(* A walk that ends rightly leaves the next one to begin.                  *)
(***************************************************************************)
LEMMA Ended ==
  ASSUME WalkInvariant, Walking, NEW verdict \in Reported \ {"RecursionError"}, End(verdict),
         Right(given, Root, verdict, out)
  PROVE  WalkInvariant'
<1> DEFINE R == [verdict : Reported, out : Outputs(given)]
           r == [verdict |-> verdict, out |-> out]
           k == Len(results)
<1>1. given' = given /\ given \in Givens /\ out \in Outputs(given) /\ Root = given.roots[k + 1]
  BY WhileWalking DEF End
<1>2. results \in Seq(R) /\ r \in R /\ k \in Nat /\ k < Len(given.roots) /\ Len(given.roots) \in Nat
  BY <1>1, GivenFacts DEF WalkInvariant, WalkTypeOK, Walking
<1>3. /\ results' = Append(results, r) /\ visits' = 0 /\ out' = <<>>
      /\ todo' = IF Len(results') < Len(given.roots)
                 THEN <<Node(given.roots[Len(results') + 1], 0)>> ELSE <<>>
  BY DEF End
<1> HIDE DEF R
<1>4. /\ results' \in Seq(R) /\ Len(results') = k + 1 /\ DOMAIN results' = 1 .. k + 1
      /\ \A i \in 1 .. k : results'[i] = results[i]
      /\ results'[k + 1] = r /\ DOMAIN results = 1 .. k
  <2> HIDE DEF r
  <2>1. QED
    BY <1>2, <1>3
<1>5. WalkTypeOK'
  BY <1>1, <1>2, <1>4 DEF WalkTypeOK, R
<1>6. ResultsRight'
  <2>1. \A i \in 1 .. k : Right(given, given.roots[i], results[i].verdict, results[i].out)
                          /\ results[i].verdict # "RecursionError"
    BY <1>4 DEF WalkInvariant, ResultsRight
  <2>2. r.verdict = verdict /\ r.out = out
    OBVIOUS
  <2> HIDE DEF r
  <2>3. \A i \in 1 .. k + 1 : /\ Right(given, given.roots[i], results'[i].verdict, results'[i].out)
                              /\ results'[i].verdict # "RecursionError"
    <3> TAKE i \in 1 .. k + 1
    <3>1. CASE i = k + 1
      BY <1>1, <1>4, <2>2, <3>1
    <3>2. CASE i # k + 1
      <4>1. i \in 1 .. k
        BY <1>2, <3>2
      <4>2. QED
        BY <1>4, <2>1, <4>1
    <3>3. QED
      BY <3>1, <3>2
  <2>4. (\A i \in DOMAIN results :
           /\ Right(given, given.roots[i], results[i].verdict, results[i].out)
           /\ results[i].verdict # "RecursionError")'
    BY <1>1, <1>4, <2>3 DEF Right, JcsRight, KeysRight
  <2>5. QED
    BY <2>4 DEF ResultsRight
<1>7. Walking' => UnderWay(given, Root, todo, visits, out)'
  <2> SUFFICES ASSUME Walking' PROVE UnderWay(given, Root, todo, visits, out)'
    OBVIOUS
  <2>1. Len(results') < Len(given.roots) /\ Root' = given.roots[k + 2]
    BY <1>1, <1>2, <1>4 DEF Walking, Root
  <2>2. k + 2 \in 1 .. Len(given.roots)
    BY <1>2, <1>4, <2>1
  <2>3. PICK n \in DOMAIN given.heap : n = given.roots[k + 2]
    BY <1>1, <2>2, GivenFacts
  <2>4. todo' = <<Node(n, 0)>>
    BY <1>2, <1>3, <1>4, <2>1, <2>3
  <2>5. UnderWay(given, n, <<Node(n, 0)>>, 0, <<>>)
    BY <1>1, Begun
  <2>6. QED
    BY <1>1, <1>3, <2>1, <2>3, <2>4, <2>5
      DEF UnderWay, JcsUnderWay, KeysUnderWay, JcsPast, KeysPast
<1>8. QED
  BY <1>5, <1>6, <1>7 DEF WalkInvariant

(***************************************************************************)
(* A walk that goes on is still on a right way.                            *)
(***************************************************************************)
LEMMA GoneOn ==
  ASSUME WalkInvariant, Walking, UNCHANGED <<given, results>>,
         UnderWay(given, Root, todo', visits', out')
  PROVE  WalkInvariant'
<1>1. WalkTypeOK'
  BY DEF WalkInvariant, WalkTypeOK
<1>2. ResultsRight'
  BY DEF WalkInvariant, ResultsRight, Right, JcsRight, KeysRight
<1>3. Root' = Root
  BY DEF Root
<1>4. UnderWay(given, Root, todo, visits, out)'
  BY <1>3 DEF UnderWay, JcsUnderWay, KeysUnderWay, JcsPast, KeysPast
<1>5. QED
  BY <1>1, <1>2, <1>4 DEF WalkInvariant

LEMMA WalkBegins == WalkInit => WalkInvariant
<1> SUFFICES ASSUME NEW g \in Givens, Begin(g) PROVE WalkInvariant
  BY DEF WalkInit
<1>1. given = g /\ todo = <<Node(g.roots[1], 0)>> /\ visits = 0 /\ out = <<>> /\ results = <<>>
  BY DEF Begin
<1>2. Len(g.roots) \in Nat /\ g.roots # <<>> /\ g.roots \in Seq(DOMAIN g.heap)
      /\ \A i \in 1 .. Len(g.roots) : g.roots[i] \in DOMAIN g.heap
  BY GivenFacts
<1>3. Len(g.roots) > 0
  <2>1. PICK N : N = DOMAIN g.heap
    OBVIOUS
  <2>2. g.roots \in Seq(N) /\ g.roots # <<>>
    BY <1>2, <2>1
  <2>3. QED
    BY <2>2, EmptySeq
<1>4. WalkTypeOK
  <2>1. <<>> \in Seq([verdict : Reported, out : Outputs(g)]) /\ Len(<<>>) = 0
    OBVIOUS
  <2>2. QED
    BY <1>1, <1>2, <2>1 DEF WalkTypeOK
<1>5. ResultsRight
  BY <1>1 DEF ResultsRight
<1>6. UnderWay(given, Root, todo, visits, out)
  <2>1. Len(<<>>) + 1 = 1
    OBVIOUS
  <2>2. Root = g.roots[1]
    BY <1>1, <2>1 DEF Root
  <2>3. g.roots[1] \in DOMAIN g.heap
    BY <1>2, <1>3
  <2>4. QED
    BY <1>1, <2>2, <2>3, Begun
<1>7. QED
  BY <1>4, <1>5, <1>6 DEF WalkInvariant

LEMMA Resolved ==
  ASSUME WalkInvariant, given.walker = "keys", Resolve
  PROVE  WalkInvariant'
<1> DEFINE call == Head(todo)
           v == given.heap[call.node]
           found == CandidatesOf(v)
           refused == \/ visits + 1 > KeyVisits \/ call.depth > KeyDepth
                      \/ ~ well_shaped(v)
                      \/ ~ Len(out) + Len(found) <= MaxCandidates
                      \/ \E i \in DOMAIN found : found[i] = Absent
<1>1. Walking /\ todo # <<>>
  BY DEF Resolve
<1>2. given \in Givens /\ Root \in DOMAIN given.heap /\ KeysUnderWay(given, Root, todo, visits, out)
  BY <1>1, WhileWalking
<1>3. /\ call \in Pending(DOMAIN given.heap, KeyDepth)
      /\ refused => ~ Acceptable(given.heap, KeyCalls(given.heap, Root))
      /\ ~ refused => KeysUnderWay(given, Root, Within(KeysBelow(given.heap), call) \o Tail(todo),
                                   visits + 1, out \o found)
  BY <1>1, <1>2, KeysCall
<1>4. call.depth < StackLimit /\ ~ (call.depth >= StackLimit) /\ call.node \in DOMAIN given.heap
  BY <1>3, KeysAssumption, StackAssumption DEF Pending
<1>5. \/ refused /\ End("ValueError")
      \/ /\ ~ refused
         /\ visits' = visits + 1 /\ out' = out \o found
         /\ todo' = [i \in DOMAIN Items(v) |-> Node(Items(v)[i], call.depth + 1)] \o Tail(todo)
         /\ UNCHANGED <<given, results>>
  BY <1>4 DEF Resolve, reserved
<1>6. CASE refused /\ End("ValueError")
  <2>1. Right(given, Root, "ValueError", out)
    BY <1>3, <1>6 DEF Right, KeysRight, OK
  <2>2. QED
    BY <1>1, <1>6, <2>1, Ended DEF Reported
<1>7. CASE /\ ~ refused
           /\ visits' = visits + 1 /\ out' = out \o found
           /\ todo' = [i \in DOMAIN Items(v) |-> Node(Items(v)[i], call.depth + 1)] \o Tail(todo)
           /\ UNCHANGED <<given, results>>
  <2>1. Within(KeysBelow(given.heap), call)
          = [i \in DOMAIN Items(v) |-> Node(Items(v)[i], call.depth + 1)]
    BY <1>4 DEF Within, KeysBelow
  <2>2. UnderWay(given, Root, todo', visits', out')
    BY <1>3, <1>7, <2>1 DEF UnderWay
  <2>3. QED
    BY <1>1, <1>7, <2>2, GoneOn
<1>8. QED
  BY <1>5, <1>6, <1>7

LEMMA Returned ==
  ASSUME WalkInvariant, given.walker = "keys", Return
  PROVE  WalkInvariant'
<1>1. Walking /\ todo = <<>> /\ End(OK)
  BY DEF Return
<1>2. given \in Givens /\ Root \in DOMAIN given.heap /\ KeysUnderWay(given, Root, todo, visits, out)
  BY <1>1, WhileWalking
<1>3. Right(given, Root, OK, out)
  BY <1>1, <1>2, KeysEnd DEF Right, KeysRight
<1>4. QED
  BY <1>1, <1>3, Ended DEF Reported, OK

LEMMA Serialized ==
  ASSUME WalkInvariant, given.walker = "jcs", Serialize
  PROVE  WalkInvariant'
<1> DEFINE c == Head(todo)
           v == given.heap[c.node]
           refused == visits + 1 > JcsVisits \/ c.depth > JcsDepth \/ ~ Writable(v)
           verdict == refusal(v, c.depth)
<1>1. Walking /\ todo # <<>> /\ "node" \in DOMAIN c
  BY DEF Serialize
<1>2. given \in Givens /\ Root \in DOMAIN given.heap /\ JcsUnderWay(given, Root, todo, visits, out)
  BY <1>1, WhileWalking
<1>3. /\ c \in Pending(DOMAIN given.heap, JcsDepth)
      /\ refused => ~ Legal(given.heap, JcsCalls(given.heap, Root))
      /\ ~ refused => JcsUnderWay(given, Root, Parts(v, c.depth) \o Tail(todo), visits + 1, out)
  BY <1>1, <1>2, JcsCall
<1>4. ~ (c.depth >= StackLimit)
  BY <1>3, JcsAssumption, StackAssumption DEF Pending
<1>5. /\ verdict \in {"none"} \cup (Reported \ {"RecursionError", OK})
      /\ verdict = "none" <=> ~ refused
  <2> DEFINE bad == v.kind = "other" \/ (v.kind \in {"int", "float"} /\ v.value = HugeNumber)
             nameless ==
               /\ v.kind = "dict"
               /\ \E i \in DOMAIN v.members :
                    /\ v.members[i].key = Absent
                    /\ \A j \in DOMAIN v.members : j < i => v.members[j].key \notin Lone
             lone == v.kind = "dict" /\ \E i \in DOMAIN v.members : v.members[i].key \in Lone
  <2>1. verdict = IF over(c.depth) \/ bad THEN "JcsError"
                  ELSE IF nameless THEN "AttributeError"
                  ELSE IF lone THEN "UnicodeEncodeError" ELSE "none"
    BY <1>4, Zenon DEF refusal
  <2>2. over(c.depth) <=> visits + 1 > JcsVisits \/ c.depth > JcsDepth
    BY DEF over
  <2>3. ~ Writable(v) <=> bad \/ nameless \/ lone
    BY DEF Writable, Json
  <2> HIDE DEF bad, nameless, lone, verdict, v
  <2>4. QED
    BY <2>1, <2>2, <2>3 DEF Reported, OK
<1>6. \/ /\ verdict = "none" /\ visits' = visits + 1
         /\ todo' = Parts(v, c.depth) \o Tail(todo)
         /\ UNCHANGED <<given, out, results>>
      \/ verdict # "none" /\ End(verdict)
  BY DEF Serialize
<1>7. CASE verdict # "none" /\ End(verdict)
  <2>1. verdict # OK /\ verdict \in Reported \ {"RecursionError"}
    BY <1>5, <1>7
  <2>2. Right(given, Root, verdict, out)
    BY <1>3, <1>5, <1>7, <2>1 DEF Right, JcsRight
  <2> HIDE DEF verdict
  <2>3. QED
    BY <1>1, <1>7, <2>1, <2>2, Ended
<1>8. CASE /\ verdict = "none" /\ visits' = visits + 1
           /\ todo' = Parts(v, c.depth) \o Tail(todo)
           /\ UNCHANGED <<given, out, results>>
  <2>1. UnderWay(given, Root, todo', visits', out')
    BY <1>3, <1>5, <1>8 DEF UnderWay
  <2>2. QED
    BY <1>1, <1>8, <2>1, GoneOn
<1>9. QED
  BY <1>6, <1>7, <1>8

LEMMA Written ==
  ASSUME WalkInvariant, given.walker = "jcs", Write
  PROVE  WalkInvariant'
<1>1. /\ Walking /\ todo # <<>> /\ "type" \in DOMAIN Head(todo)
      /\ out' = Append(out, Head(todo)) /\ todo' = Tail(todo)
      /\ UNCHANGED <<given, visits, results>>
  BY DEF Write
<1>2. given \in Givens /\ Root \in DOMAIN given.heap /\ JcsUnderWay(given, Root, todo, visits, out)
  BY <1>1, WhileWalking
<1>3. UnderWay(given, Root, todo', visits', out')
  BY <1>1, <1>2, JcsWrite DEF UnderWay
<1>4. QED
  BY <1>1, <1>3, GoneOn

LEMMA Encoded ==
  ASSUME WalkInvariant, given.walker = "jcs", Encode
  PROVE  WalkInvariant'
<1> DEFINE lone == \E i \in DOMAIN out : out[i].type = "string" /\ out[i].value \in Lone
           verdict == IF lone THEN "UnicodeEncodeError" ELSE OK
<1>1. Walking /\ todo = <<>> /\ End(verdict)
  BY DEF Encode
<1>2. given \in Givens /\ Root \in DOMAIN given.heap /\ JcsUnderWay(given, Root, todo, visits, out)
  BY <1>1, WhileWalking
<1>3. /\ out = Texts(given.heap)[JcsDepth + 1][Root]
      /\ Legal(given.heap, JcsCalls(given.heap, Root)) <=> ~ lone
  BY <1>1, <1>2, JcsEnd
<1> HIDE DEF lone
<1>4. verdict \in Reported \ {"RecursionError"} /\ (verdict = OK <=> ~ lone)
  BY DEF Reported, OK
<1> HIDE DEF verdict
<1>5. Right(given, Root, verdict, out)
  BY <1>3, <1>4 DEF Right, JcsRight
<1>6. QED
  BY <1>1, <1>4, <1>5, Ended

(***************************************************************************)
(* Every state of the walks is on a right way, or rightly ended.           *)
(***************************************************************************)
THEOREM WalksAreRight == WalkSpec => []WalkInvariant
<1>1. ASSUME WalkInvariant, [WalkNext]_walk PROVE WalkInvariant'
  <2>1. CASE WalkNext
    BY <1>1, <2>1, Resolved, Returned, Serialized, Written, Encoded DEF WalkNext, JcsNext, KeysNext
  <2>2. CASE UNCHANGED walk
    BY <1>1, <2>2
      DEF walk, WalkInvariant, WalkTypeOK, ResultsRight, Walking, Root, Right, JcsRight, KeysRight,
          UnderWay, JcsUnderWay, KeysUnderWay, JcsPast, KeysPast
  <2>3. QED
    BY <1>1, <2>1, <2>2
<1>2. QED
  BY <1>1, WalkBegins, PTL DEF WalkSpec

(***************************************************************************)
(* Neither walk ever comes near the interpreter's limit: no value, however *)
(* deep and even if it holds itself, ends in a RecursionError (jcs.py,     *)
(* jwk.py).                                                                *)
(***************************************************************************)
THEOREM CapsAlwaysComeFirst == WalkSpec => []CapsComeFirst
<1>1. WalkInvariant => CapsComeFirst
  BY DEF WalkInvariant, ResultsRight, CapsComeFirst
<1>2. QED
  BY <1>1, WalksAreRight, PTL

(***************************************************************************)
(* The keys of an issuer are exactly those the value carries, whatever the *)
(* value, and a value is refused only when it must be (jwk.py).            *)
(***************************************************************************)
THEOREM KeysAreAlwaysExact == WalkSpec => []KeysAreExact
<1>1. WalkInvariant => KeysAreExact
  <2> SUFFICES ASSUME WalkInvariant, given.walker = "keys", NEW i \in DOMAIN results
               PROVE  LET calls == KeyCalls(given.heap, given.roots[i])
                      IN  /\ results[i].verdict = OK <=> Acceptable(given.heap, calls)
                          /\ results[i].verdict = OK => results[i].out = Carried(given.heap, calls)
    BY DEF KeysAreExact
  <2>1. KeysRight(given, given.roots[i], results[i].verdict, results[i].out)
    BY DEF WalkInvariant, ResultsRight, Right
  <2>2. QED
    BY <2>1 DEF KeysRight
<1>2. QED
  BY <1>1, WalksAreRight, PTL

-----------------------------------------------------------------------------
(* Reading a text.                                                         *)

\* Two texts that begin with a and with b are one text.
OneText(a, x, b, y) == a \o x = b \o y

\* A text that begins with b begins with no s.
Apart(S, b, s) == \A x, y \in Seq(S) : ~ OneText(b, x, s, y)

\* What texts that begin with s and with t have in common tells R of i.
ReadsBack(S, s, t, i, R) ==
  \A x, y \in Seq(S) : OneText(s, x, t, y) => i \in R /\ x = y

LEMMA Cancel ==
  ASSUME NEW S, NEW a \in Seq(S), NEW x \in Seq(S), NEW y \in Seq(S), OneText(a, x, a, y)
  PROVE  x = y
<1>1. a \o x = a \o y
  BY DEF OneText
<1>2. /\ Len(a) \in Nat /\ Len(x) \in Nat /\ Len(y) \in Nat
      /\ Len(a \o x) = Len(a) + Len(x) /\ Len(a \o y) = Len(a) + Len(y)
      /\ \A i \in 1 .. Len(x) : (a \o x)[Len(a) + i] = x[i]
      /\ \A i \in 1 .. Len(y) : (a \o y)[Len(a) + i] = y[i]
  OBVIOUS
<1>3. Len(x) = Len(y)
  BY <1>1, <1>2
<1>4. \A i \in 1 .. Len(x) : x[i] = y[i]
  BY <1>1, <1>2, <1>3
<1>5. QED
  BY <1>3, <1>4, SeqEqual

LEMMA SameFront ==
  ASSUME NEW S, NEW a \in Seq(S), NEW b \in Seq(S), NEW x \in Seq(S), NEW y \in Seq(S),
         OneText(a, x, b, y), Len(a) = Len(b)
  PROVE  a = b /\ x = y
<1>1. a \o x = b \o y
  BY DEF OneText
<1>2. /\ Len(a) \in Nat
      /\ \A i \in 1 .. Len(a) : (a \o x)[i] = a[i]
      /\ \A i \in 1 .. Len(b) : (b \o y)[i] = b[i]
  OBVIOUS
<1>3. \A i \in 1 .. Len(a) : a[i] = b[i]
  BY <1>1, <1>2
<1>4. a = b
  BY <1>3, SeqEqual
<1>5. QED
  BY <1>4, Cancel

(***************************************************************************)
(* What is left of a sequence of parts, from each of them on.              *)
(***************************************************************************)
LEMMA FlattenSuffixes ==
  ASSUME NEW S, NEW ss \in Seq(Seq(S))
  PROVE  \E g \in [0 .. Len(ss) -> Seq(S)] :
           /\ g[0] = FlattenSeq(ss) /\ g[Len(ss)] = <<>>
           /\ \A i \in 1 .. Len(ss) : g[i - 1] = ss[i] \o g[i]
<1> DEFINE n == Len(ss)
           rest(i) == SubSeq(ss, i + 1, n)
           g == [i \in 0 .. n |-> FlattenSeq(rest(i))]
<1>1. n \in Nat /\ \A i \in 1 .. n : ss[i] \in Seq(S)
  OBVIOUS
<1>2. \A i \in 0 .. n : rest(i) \in Seq(Seq(S))
  BY <1>1, SubSeqProperties
<1>3. \A i \in 0 .. n : FlattenSeq(rest(i)) \in Seq(S)
  BY <1>2, FlattenType
<1>4. g \in [0 .. n -> Seq(S)]
  BY <1>3
<1>5. g[0] = FlattenSeq(ss)
  <2>1. rest(0) = ss
    BY <1>1, SubSeqFull
  <2>2. 0 \in 0 .. n
    BY <1>1
  <2> HIDE DEF rest, n
  <2>3. QED
    BY <2>1, <2>2
<1>6. g[n] = <<>>
  <2>1. rest(n) = <<>>
    BY <1>1, SubSeqEmpty
  <2>2. n \in 0 .. n
    BY <1>1
  <2> HIDE DEF rest, n
  <2>3. QED
    BY <2>1, <2>2, FlattenEmpty
<1>7. ASSUME NEW i \in 1 .. n PROVE g[i - 1] = ss[i] \o g[i]
  <2>1. i - 1 \in 0 .. n /\ i \in 0 .. n /\ n \in i .. n /\ (i - 1) + 1 = i
    BY <1>1
  <2>2. SubSeq(ss, i, n) = <<ss[i]>> \o SubSeq(ss, i + 1, n)
    BY <2>1, SubSeqRecursiveFirst
  <2>3. PICK s \in Seq(S), tt \in Seq(Seq(S)) : s = ss[i] /\ tt = rest(i)
    BY <1>1, <1>2, <2>1
  <2>4. FlattenSeq(<<s>> \o tt) = s \o FlattenSeq(tt)
    BY FlattenCons
  <2>5. g[i - 1] = FlattenSeq(SubSeq(ss, i, n)) /\ g[i] = FlattenSeq(rest(i))
    BY <2>1
  <2> HIDE DEF g
  <2>6. QED
    BY <2>2, <2>3, <2>4, <2>5
<1> HIDE DEF g
<1>8. QED
  BY <1>4, <1>5, <1>6, <1>7

LEMMA Prolong ==
  ASSUME NEW S, NEW f \in Seq(S), NEW s \in Seq(S), NEW t \in Seq(S), NEW z \in Seq(S), f = s \o t
  PROVE  \E u \in Seq(S) : u = t \o z /\ OneText(f, z, s, u)
<1>1. PICK u \in Seq(S) : u = t \o z
  BY ConcatProperties
<1>2. (s \o t) \o z = s \o (t \o z)
  BY ConcatAssociative
<1>3. f \o z = s \o u
  BY <1>1, <1>2
<1>4. QED
  BY <1>1, <1>3 DEF OneText

(***************************************************************************)
(* Items that can be told apart one by one, and from what comes after the  *)
(* last of them, can be read back from their text.                         *)
(***************************************************************************)
LEMMA ItemsReadBack ==
  ASSUME NEW S, NEW ss \in Seq(Seq(S)), NEW tt \in Seq(Seq(S)), NEW b \in Seq(S), NEW R,
         \A i \in DOMAIN ss \cap DOMAIN tt : ReadsBack(S, ss[i], tt[i], i, R),
         \A i \in DOMAIN ss : Apart(S, b, ss[i]),
         \A i \in DOMAIN tt : Apart(S, b, tt[i]),
         NEW bx \in Seq(S), NEW by \in Seq(S), NEW x \in Seq(S), NEW y \in Seq(S),
         bx = b \o x, by = b \o y, OneText(FlattenSeq(ss), bx, FlattenSeq(tt), by)
  PROVE  Len(ss) = Len(tt) /\ x = y /\ \A i \in DOMAIN ss : i \in R
<1>1. PICK g \in [0 .. Len(ss) -> Seq(S)] :
        /\ g[0] = FlattenSeq(ss) /\ g[Len(ss)] = <<>>
        /\ \A i \in 1 .. Len(ss) : g[i - 1] = ss[i] \o g[i]
  BY FlattenSuffixes
<1>2. PICK h \in [0 .. Len(tt) -> Seq(S)] :
        /\ h[0] = FlattenSeq(tt) /\ h[Len(tt)] = <<>>
        /\ \A i \in 1 .. Len(tt) : h[i - 1] = tt[i] \o h[i]
  BY FlattenSuffixes
<1>3. /\ Len(ss) \in Nat /\ DOMAIN ss = 1 .. Len(ss) /\ \A i \in 1 .. Len(ss) : ss[i] \in Seq(S)
      /\ Len(tt) \in Nat /\ DOMAIN tt = 1 .. Len(tt) /\ \A i \in 1 .. Len(tt) : tt[i] \in Seq(S)
  OBVIOUS
<1> DEFINE Q == {j \in Nat : j <= Len(ss) /\ j <= Len(tt) =>
                   OneText(g[j], bx, h[j], by) /\ \A i \in 1 .. j : i \in R}
<1>4. 0 \in Q
  BY <1>1, <1>2
<1>5. ASSUME NEW j \in Q PROVE j + 1 \in Q
  <2>1. j \in Nat /\ j + 1 \in Nat
    OBVIOUS
  <2> SUFFICES ASSUME j + 1 <= Len(ss), j + 1 <= Len(tt)
               PROVE  OneText(g[j + 1], bx, h[j + 1], by) /\ \A i \in 1 .. j + 1 : i \in R
    BY <2>1
  <2>2. OneText(g[j], bx, h[j], by) /\ \A i \in 1 .. j : i \in R
    BY <1>3, <2>1
  <2> DEFINE i == j + 1
  <2>3. /\ i \in 1 .. Len(ss) /\ i \in 1 .. Len(tt) /\ i - 1 = j
        /\ i \in 0 .. Len(ss) /\ i \in 0 .. Len(tt) /\ j \in 0 .. Len(ss) /\ j \in 0 .. Len(tt)
    BY <1>3, <2>1
  <2> HIDE DEF i, Q
  <2>4. /\ g[j] = ss[i] \o g[i] /\ g[j] \in Seq(S) /\ ss[i] \in Seq(S) /\ g[i] \in Seq(S)
        /\ h[j] = tt[i] \o h[i] /\ h[j] \in Seq(S) /\ tt[i] \in Seq(S) /\ h[i] \in Seq(S)
    BY <1>1, <1>2, <1>3, <2>3
  <2>5. PICK u \in Seq(S) : u = g[i] \o bx /\ OneText(g[j], bx, ss[i], u)
    <3>1. PICK f \in Seq(S), s \in Seq(S), t \in Seq(S) :
            f = g[j] /\ s = ss[i] /\ t = g[i] /\ f = s \o t
      BY <2>4
    <3>2. \E u \in Seq(S) : u = t \o bx /\ OneText(f, bx, s, u)
      BY <3>1, Prolong
    <3>3. QED
      BY <3>1, <3>2
  <2>6. PICK w \in Seq(S) : w = h[i] \o by /\ OneText(h[j], by, tt[i], w)
    <3>1. PICK f \in Seq(S), s \in Seq(S), t \in Seq(S) :
            f = h[j] /\ s = tt[i] /\ t = h[i] /\ f = s \o t
      BY <2>4
    <3>2. \E w \in Seq(S) : w = t \o by /\ OneText(f, by, s, w)
      BY <3>1, Prolong
    <3>3. QED
      BY <3>1, <3>2
  <2>7. OneText(ss[i], u, tt[i], w)
    BY <2>2, <2>5, <2>6 DEF OneText
  <2>8. i \in R /\ u = w
    <3>1. ReadsBack(S, ss[i], tt[i], i, R)
      BY <1>3, <2>3
    <3>2. QED
      BY <2>7, <3>1 DEF ReadsBack
  <2>9. OneText(g[i], bx, h[i], by)
    BY <2>5, <2>6, <2>8 DEF OneText
  <2>10. \A l \in 1 .. j + 1 : l \in R
    <3>1. \A l \in 1 .. j + 1 : l \in 1 .. j \/ l = j + 1
      BY <2>1
    <3>2. QED
      BY <2>2, <2>8, <3>1 DEF i
  <2>11. QED
    BY <2>9, <2>10 DEF i
<1>6. \A j \in Nat : j <= Len(ss) /\ j <= Len(tt) =>
        OneText(g[j], bx, h[j], by) /\ \A i \in 1 .. j : i \in R
  <2>1. Q \in SUBSET Nat
    OBVIOUS
  <2> HIDE DEF Q
  <2>2. \A j \in Nat : j \in Q
    BY <1>4, <1>5, <2>1, Induction
  <2>3. QED
    BY <2>2 DEF Q
<1> HIDE DEF Q
<1>7. ~ Len(ss) < Len(tt)
  <2> SUFFICES ASSUME Len(ss) < Len(tt) PROVE FALSE
    OBVIOUS
  <2> DEFINE j == Len(ss)
             i == Len(ss) + 1
  <2>1. /\ i \in 1 .. Len(tt) /\ i \in DOMAIN tt /\ i - 1 = j /\ i \in 0 .. Len(tt)
        /\ j \in 0 .. Len(tt) /\ j \in Nat /\ j <= Len(ss) /\ j <= Len(tt)
    BY <1>3
  <2>2. OneText(g[j], bx, h[j], by)
    BY <1>6, <2>1
  <2>3. g[j] = <<>>
    BY <1>1
  <2> HIDE DEF i, j
  <2>4. h[j] = tt[i] \o h[i] /\ h[j] \in Seq(S) /\ tt[i] \in Seq(S) /\ h[i] \in Seq(S)
    BY <1>2, <1>3, <2>1
  <2>5. PICK w \in Seq(S) : w = h[i] \o by /\ OneText(h[j], by, tt[i], w)
    <3>1. PICK f \in Seq(S), s \in Seq(S), t \in Seq(S) :
            f = h[j] /\ s = tt[i] /\ t = h[i] /\ f = s \o t
      BY <2>4
    <3>2. \E w \in Seq(S) : w = t \o by /\ OneText(f, by, s, w)
      BY <3>1, Prolong
    <3>3. QED
      BY <3>1, <3>2
  <2>6. <<>> \o bx = bx
    BY ConcatEmptySeq
  <2>7. OneText(b, x, tt[i], w)
    BY <2>2, <2>3, <2>5, <2>6 DEF OneText
  <2>8. Apart(S, b, tt[i])
    BY <2>1
  <2>9. QED
    BY <2>7, <2>8 DEF Apart
<1>8. ~ Len(tt) < Len(ss)
  <2> SUFFICES ASSUME Len(tt) < Len(ss) PROVE FALSE
    OBVIOUS
  <2> DEFINE j == Len(tt)
             i == Len(tt) + 1
  <2>1. /\ i \in 1 .. Len(ss) /\ i \in DOMAIN ss /\ i - 1 = j /\ i \in 0 .. Len(ss)
        /\ j \in 0 .. Len(ss) /\ j \in Nat /\ j <= Len(ss) /\ j <= Len(tt)
    BY <1>3
  <2>2. OneText(g[j], bx, h[j], by)
    BY <1>6, <2>1
  <2>3. h[j] = <<>>
    BY <1>2
  <2> HIDE DEF i, j
  <2>4. g[j] = ss[i] \o g[i] /\ g[j] \in Seq(S) /\ ss[i] \in Seq(S) /\ g[i] \in Seq(S)
    BY <1>1, <1>3, <2>1
  <2>5. PICK w \in Seq(S) : w = g[i] \o bx /\ OneText(g[j], bx, ss[i], w)
    <3>1. PICK f \in Seq(S), s \in Seq(S), t \in Seq(S) :
            f = g[j] /\ s = ss[i] /\ t = g[i] /\ f = s \o t
      BY <2>4
    <3>2. \E w \in Seq(S) : w = t \o bx /\ OneText(f, bx, s, w)
      BY <3>1, Prolong
    <3>3. QED
      BY <3>1, <3>2
  <2>6. <<>> \o by = by
    BY ConcatEmptySeq
  <2>7. OneText(b, y, ss[i], w)
    BY <2>2, <2>3, <2>5, <2>6 DEF OneText
  <2>8. Apart(S, b, ss[i])
    BY <2>1
  <2>9. QED
    BY <2>7, <2>8 DEF Apart
<1>9. Len(ss) = Len(tt)
  <2>1. PICK m \in Nat, n \in Nat : m = Len(ss) /\ n = Len(tt)
    BY <1>3
  <2>2. ~ m < n /\ ~ n < m
    BY <1>7, <1>8, <2>1
  <2>3. m = n
    BY <2>2
  <2>4. QED
    BY <2>1, <2>3
<1>10. OneText(g[Len(ss)], bx, h[Len(ss)], by) /\ \A i \in 1 .. Len(ss) : i \in R
  BY <1>3, <1>6, <1>9
<1>11. x = y
  <2>1. g[Len(ss)] = <<>> /\ h[Len(ss)] = <<>>
    BY <1>1, <1>2, <1>9
  <2>2. <<>> \o bx = bx /\ <<>> \o by = by
    BY ConcatEmptySeq
  <2>3. OneText(b, x, b, y)
    BY <1>10, <2>1, <2>2 DEF OneText
  <2>4. QED
    BY <2>3, Cancel
<1>12. QED
  BY <1>3, <1>9, <1>10, <1>11

-----------------------------------------------------------------------------
(* The values that are JSON all through.                                   *)

LEMMA ConcatWithin ==
  ASSUME NEW S, NEW Q \in SUBSET S, NEW a \in Seq(S), NEW b \in Seq(S),
         NEW ab \in Seq(Q), ab = a \o b
  PROVE  a \in Seq(Q) /\ b \in Seq(Q)
<1>1. /\ Len(a) \in Nat /\ Len(b) \in Nat /\ Len(ab) = Len(a) + Len(b)
      /\ \A i \in 1 .. Len(a) : ab[i] = a[i]
      /\ \A i \in 1 .. Len(b) : ab[Len(a) + i] = b[i]
  OBVIOUS
<1>2. \A i \in 1 .. Len(ab) : ab[i] \in Q
  OBVIOUS
<1>3. \A i \in 1 .. Len(a) : a[i] \in Q
  <2>1. \A i \in 1 .. Len(a) : i \in 1 .. Len(ab)
    BY <1>1
  <2>2. QED
    BY <1>1, <1>2, <2>1
<1>4. \A i \in 1 .. Len(b) : b[i] \in Q
  <2>1. \A i \in 1 .. Len(b) : Len(a) + i \in 1 .. Len(ab)
    BY <1>1
  <2>2. QED
    BY <1>1, <1>2, <2>1
<1>5. a = [i \in 1 .. Len(a) |-> a[i]] /\ b = [i \in 1 .. Len(b) |-> b[i]]
  OBVIOUS
<1>6. QED
  BY <1>1, <1>3, <1>4, <1>5

LEMMA FlattenWithin ==
  ASSUME NEW S, NEW Q \in SUBSET S, NEW ss \in Seq(Seq(S)), FlattenSeq(ss) \in Seq(Q)
  PROVE  \A i \in DOMAIN ss : ss[i] \in Seq(Q)
<1>1. PICK g \in [0 .. Len(ss) -> Seq(S)] :
        /\ g[0] = FlattenSeq(ss) /\ g[Len(ss)] = <<>>
        /\ \A i \in 1 .. Len(ss) : g[i - 1] = ss[i] \o g[i]
  BY FlattenSuffixes
<1>2. Len(ss) \in Nat /\ DOMAIN ss = 1 .. Len(ss) /\ \A i \in 1 .. Len(ss) : ss[i] \in Seq(S)
  OBVIOUS
<1> DEFINE R == {j \in Nat : j <= Len(ss) => g[j] \in Seq(Q)}
<1>3. ASSUME NEW i \in 1 .. Len(ss), g[i - 1] \in Seq(Q)
      PROVE  ss[i] \in Seq(Q) /\ g[i] \in Seq(Q)
  <2>1. i \in 0 .. Len(ss)
    BY <1>2
  <2>2. PICK a \in Seq(S), b \in Seq(S), ab \in Seq(Q) :
          a = ss[i] /\ b = g[i] /\ ab = g[i - 1] /\ ab = a \o b
    BY <1>1, <1>2, <1>3, <2>1
  <2>3. a \in Seq(Q) /\ b \in Seq(Q)
    BY <2>2, ConcatWithin
  <2>4. QED
    BY <2>2, <2>3
<1>4. 0 \in R
  BY <1>1
<1>5. ASSUME NEW j \in R PROVE j + 1 \in R
  <2> SUFFICES ASSUME j + 1 <= Len(ss) PROVE g[j + 1] \in Seq(Q)
    OBVIOUS
  <2>1. j \in Nat /\ (j <= Len(ss) => g[j] \in Seq(Q))
    OBVIOUS
  <2>2. PICK i \in 1 .. Len(ss) : i = j + 1 /\ i - 1 = j
    BY <1>2, <2>1
  <2>3. g[i - 1] \in Seq(Q)
    BY <1>2, <2>1, <2>2
  <2>4. QED
    BY <1>3, <2>2, <2>3
<1>6. \A j \in Nat : j <= Len(ss) => g[j] \in Seq(Q)
  <2>1. R \in SUBSET Nat
    OBVIOUS
  <2> HIDE DEF R
  <2>2. \A j \in Nat : j \in R
    BY <1>4, <1>5, <2>1, Induction
  <2>3. QED
    BY <2>2 DEF R
<1>7. ASSUME NEW i \in 1 .. Len(ss) PROVE ss[i] \in Seq(Q)
  <2>1. PICK j \in Nat : j = i - 1 /\ j <= Len(ss)
    BY <1>2
  <2>2. g[i - 1] \in Seq(Q)
    BY <1>6, <2>1
  <2>3. QED
    BY <1>3, <2>2
<1>8. QED
  BY <1>2, <1>7

Fine(heap) == {c \in Nodes(DOMAIN heap) : c.depth <= JcsDepth /\ Json(heap[c.node])}

\* The nodes that are JSON all through, up to a level.
Sound(heap) ==
  [k \in Nat |->
     {n \in DOMAIN heap : Unfold(JcsBelow(heap), JcsDepth)[k][n] \in Seq(Fine(heap))}]

LEMMA SoundDown ==
  ASSUME NEW g \in Givens, g.walker = "jcs"
  PROVE  /\ \A n : n \notin Sound(g.heap)[0]
         /\ \A j, k \in Nat : j = k + 1 => \A n \in Sound(g.heap)[j] :
              /\ n \in DOMAIN g.heap /\ Json(g.heap[n]) /\ JcsBelow(g.heap)[n] = Inside(g.heap[n])
              /\ \A i \in DOMAIN JcsBelow(g.heap)[n] : JcsBelow(g.heap)[n][i] \in Sound(g.heap)[k]
         /\ \A n \in DOMAIN g.heap : Legal(g.heap, JcsCalls(g.heap, n)) =>
              n \in Sound(g.heap)[JcsDepth + 1]
<1> DEFINE N == DOMAIN g.heap
           B == JcsBelow(g.heap)
           U == Unfold(B, JcsDepth)
           Q == Fine(g.heap)
           S == Nodes(N)
<1>1. B \in Nested(N) /\ JcsDepth \in Nat /\ JcsDepth + 1 \in Nat
  BY EntryTypes, JcsAssumption
<1>2. Q \in SUBSET S
  BY DEF Fine
<1>3. \A k \in Nat : \A n : n \in Sound(g.heap)[k] <=> n \in N /\ U[k][n] \in Seq(Q)
  BY DEF Sound
<1>4. \A k \in Nat, n \in N : U[k][n] \in Seq(S)
  <2> HIDE DEF B, N
  <2>1. QED
    BY <1>1, UnfoldSteps
<1> HIDE DEF B, U, Q
<1>5. ASSUME NEW n \in Sound(g.heap)[0] PROVE FALSE
  <2>1. n \in N /\ U[0][n] \in Seq(Q)
    BY <1>3
  <2>2. PICK d \in Int : d = JcsDepth + 1
    BY <1>1
  <2>3. U[0][n] = One(Node(n, d))
    <3> HIDE DEF N
    <3>1. QED
      BY <1>1, <2>1, <2>2, UnfoldSteps DEF U
  <2>4. One(Node(n, d))[1] = Node(n, d) /\ 1 \in 1 .. Len(One(Node(n, d)))
    BY DEF One
  <2>5. Node(n, d) \in Q
    BY <2>1, <2>3, <2>4
  <2>6. d <= JcsDepth
    BY <2>5 DEF Q, Fine, Node
  <2>7. QED
    BY <1>1, <2>2, <2>6
<1>6. ASSUME NEW j \in Nat, NEW k \in Nat, j = k + 1, NEW n \in Sound(g.heap)[j]
      PROVE  /\ n \in N /\ Json(g.heap[n]) /\ B[n] = Inside(g.heap[n])
             /\ \A i \in DOMAIN B[n] : B[n][i] \in Sound(g.heap)[k]
  <2>1. n \in N /\ U[j][n] \in Seq(Q)
    BY <1>3
  <2>2. PICK d \in Int : d = JcsDepth - k
    BY <1>1
  <2>3. Starts(U[j][n], Node(n, d), Spread(U[k], B[n]))
    <3> HIDE DEF N
    <3>1. QED
      BY <1>1, <1>6, <2>1, <2>2, UnfoldSteps DEF U
  <2>4. B[n] \in Seq(N)
    BY <1>1, <2>1 DEF Nested
  <2> DEFINE ss == [i \in DOMAIN B[n] |-> U[k][B[n][i]]]
  <2>5. ss \in Seq(Seq(S)) /\ DOMAIN ss = DOMAIN B[n] /\ \A i \in DOMAIN B[n] : B[n][i] \in N
    <3>1. DOMAIN B[n] = 1 .. Len(B[n]) /\ Len(B[n]) \in Nat /\ \A i \in 1 .. Len(B[n]) : B[n][i] \in N
      <4> HIDE DEF N
      <4>1. QED
        BY <2>4
    <3> HIDE DEF N, S
    <3>2. QED
      BY <1>4, <3>1
  <2>6. Spread(U[k], B[n]) = FlattenSeq(ss)
    BY DEF Spread
  <2> HIDE DEF ss
  <2>7. PICK flat \in Seq(S) : flat = FlattenSeq(ss)
    BY <2>5, FlattenType
  <2>8. Node(n, d) \in S
    BY <2>1 DEF Nodes, Node
  <2> HIDE DEF S, N
  <2>9. PICK a \in Seq(S), all \in Seq(Q) : a = One(Node(n, d)) /\ all = U[j][n] /\ all = a \o flat
    <3>1. One(Node(n, d)) \in Seq(S)
      BY <2>8, OneType
    <3>2. U[j][n] = One(Node(n, d)) \o flat
      BY <2>3, <2>6, <2>7 DEF Starts
    <3>3. QED
      BY <2>1, <3>1, <3>2
  <2>10. a \in Seq(Q) /\ flat \in Seq(Q)
    BY <1>2, <2>9, ConcatWithin
  <2>11. Node(n, d) \in Q
    <3>1. One(Node(n, d))[1] = Node(n, d) /\ 1 \in 1 .. Len(One(Node(n, d)))
      BY DEF One
    <3>2. QED
      BY <2>9, <2>10, <3>1
  <2>12. Json(g.heap[n])
    BY <2>11 DEF Q, Fine, Node
  <2>13. B[n] = Inside(g.heap[n])
    BY <2>1, <2>12 DEF B, JcsBelow, N
  <2>14. \A i \in DOMAIN ss : ss[i] \in Seq(Q)
    BY <1>2, <2>5, <2>7, <2>10, FlattenWithin
  <2>15. \A i \in DOMAIN B[n] : U[k][B[n][i]] \in Seq(Q)
    BY <2>5, <2>14 DEF ss
  <2>16. QED
    BY <1>3, <2>1, <2>5, <2>12, <2>13, <2>15
<1>7. ASSUME NEW n \in N, Legal(g.heap, JcsCalls(g.heap, n))
      PROVE  n \in Sound(g.heap)[JcsDepth + 1]
  <2>1. PICK calls \in Seq(S) : calls = JcsCalls(g.heap, n) /\ calls = U[JcsDepth + 1][n]
    <3>1. JcsCalls(g.heap, n) = U[JcsDepth + 1][n]
      BY DEF JcsCalls, U, B, JcsBelow
    <3> HIDE DEF N, S
    <3>2. QED
      BY <1>1, <1>4, <3>1
  <2>2. \A i \in DOMAIN calls : calls[i].depth <= JcsDepth /\ Json(g.heap[calls[i].node])
    BY <1>7, <2>1 DEF Legal
  <2>3. DOMAIN calls = 1 .. Len(calls) /\ Len(calls) \in Nat /\ (\A i \in DOMAIN calls : calls[i] \in S)
        /\ calls = [i \in 1 .. Len(calls) |-> calls[i]]
    <3> HIDE DEF S
    <3>1. QED
      OBVIOUS
  <2>4. \A i \in DOMAIN calls : calls[i] \in Q
    BY <2>2, <2>3 DEF Q, Fine
  <2>5. calls \in Seq(Q)
    BY <2>3, <2>4
  <2>6. QED
    BY <1>1, <1>3, <2>1, <2>5
<1>8. QED
  BY <1>5, <1>6, <1>7 DEF B

LEMMA SoundBelow ==
  ASSUME NEW g \in Givens, g.walker = "jcs", NEW k \in Nat, NEW j \in Nat, j = k + 1,
         NEW n \in Sound(g.heap)[j]
  PROVE  /\ n \in DOMAIN g.heap /\ Json(g.heap[n]) /\ JcsBelow(g.heap)[n] = Inside(g.heap[n])
         /\ \A i \in DOMAIN JcsBelow(g.heap)[n] : JcsBelow(g.heap)[n][i] \in Sound(g.heap)[k]
<1>1. \A l \in Nat : j = l + 1 => \A m \in Sound(g.heap)[j] :
        /\ m \in DOMAIN g.heap /\ Json(g.heap[m]) /\ JcsBelow(g.heap)[m] = Inside(g.heap[m])
        /\ \A i \in DOMAIN JcsBelow(g.heap)[m] : JcsBelow(g.heap)[m][i] \in Sound(g.heap)[l]
  BY SoundDown
<1>2. QED
  BY <1>1

-----------------------------------------------------------------------------
(* Equal values, level by level.                                           *)

SameLists(E, v, w) ==
  /\ v.kind = "list" /\ w.kind = "list" /\ Len(w.items) = Len(v.items)
  /\ \A i \in DOMAIN v.items : E[v.items[i]][w.items[i]]

SameDicts(E, v, w) ==
  /\ v.kind = "dict" /\ w.kind = "dict"
  /\ {x.key : x \in Range(v.members)} = {x.key : x \in Range(w.members)}
  /\ \A x \in Range(v.members), y \in Range(w.members) : x.key = y.key => E[x.node][y.node]

SameLeaves(v, w) == {v.kind, w.kind} \cap {"list", "dict"} = {} /\ Spelled(v) = Spelled(w)

SameStep(heap, E, m, n) ==
  \/ SameLists(E, heap[m], heap[n])
  \/ SameDicts(E, heap[m], heap[n])
  \/ SameLeaves(heap[m], heap[n])

LEMMA SameSteps ==
  ASSUME NEW heap
  PROVE  \A j, k \in Nat : j = k + 1 => \A m, n \in DOMAIN heap :
           Same(heap)[j][m][n] <=> SameStep(heap, Same(heap)[k], m, n)
<1> DEFINE N == DOMAIN heap
           V == [N -> [N -> BOOLEAN]]
           base == [m \in N |-> [n \in N |-> TRUE]]
           Step == [k \in Nat |-> [E \in V |->
                      [m \in N |-> [n \in N |-> SameStep(heap, E, m, n)]]]]
           Body(F, left, m, n) ==
             \/ left = 0
             \/ SameLists(F[left - 1], heap[m], heap[n])
             \/ SameDicts(F[left - 1], heap[m], heap[n])
             \/ SameLeaves(heap[m], heap[n])
           Is(F) == F = [left \in Nat |-> [m \in N |-> [n \in N |-> Body(F, left, m, n)]]]
           C == CHOOSE F : Is(F)
<1>1. base \in V
  OBVIOUS
<1>2. Step \in Steps(V)
  <2>1. \A E, m, n : SameStep(heap, E, m, n) \in BOOLEAN
    BY DEF SameStep
  <2>2. \A E \in V : [m \in N |-> [n \in N |-> SameStep(heap, E, m, n)]] \in V
    BY <2>1
  <2> HIDE DEF V
  <2>3. QED
    BY <2>2 DEF Steps
<1>3. PICK f \in [Nat -> V] : f[0] = base /\ \A k \in Nat : f[k + 1] = Step[k][f[k]]
  <2> HIDE DEF V, Step, base
  <2>1. \E f : f \in Recursions(V, base, Step)
    BY <1>1, <1>2, Recursion
  <2>2. QED
    BY <2>1 DEF Recursions
<1>4. ASSUME NEW k \in Nat
      PROVE  f[k + 1] = [m \in N |-> [n \in N |-> SameStep(heap, f[k], m, n)]]
  <2> HIDE DEF V
  <2>1. f[k] \in V
    OBVIOUS
  <2>2. QED
    BY <1>3, <2>1
<1>5. ASSUME NEW F, NEW left, NEW m, NEW n, left # 0
      PROVE  Body(F, left, m, n) = SameStep(heap, F[left - 1], m, n)
  BY <1>5, Zenon DEF SameStep
<1>6. ASSUME NEW left \in Nat
      PROVE  f[left] = [m \in N |-> [n \in N |-> Body(f, left, m, n)]]
  <2>1. CASE left = 0
    <3>1. \A m, n : Body(f, left, m, n) = TRUE
      BY <2>1
    <3> HIDE DEF Body
    <3>2. QED
      BY <1>3, <2>1, <3>1
  <2>2. CASE left # 0
    <3>1. PICK k \in Nat : k = left - 1 /\ left = k + 1
      BY <2>2
    <3>2. f[left] = [m \in N |-> [n \in N |-> SameStep(heap, f[k], m, n)]]
      BY <1>4, <3>1
    <3>3. \A m, n : Body(f, left, m, n) = SameStep(heap, f[k], m, n)
      <4> HIDE DEF Body
      <4>1. QED
        BY <1>5, <2>2, <3>1
    <3> HIDE DEF Body
    <3>4. QED
      BY <3>2, <3>3
  <2>3. QED
    BY <2>1, <2>2
<1>7. Is(f)
  <2>1. f = [left \in Nat |-> f[left]]
    OBVIOUS
  <2> HIDE DEF Body
  <2>2. QED
    BY <1>6, <2>1, Zenon
<1>8. Is(C)
  <2> HIDE DEF Is
  <2>1. QED
    BY <1>7
<1>9. Same(heap) = C
  BY DEF Same, SameLists, SameDicts, SameLeaves
<1> HIDE DEF C
<1>10. ASSUME NEW j \in Nat, NEW k \in Nat, j = k + 1, NEW m \in N, NEW n \in N
       PROVE  C[j][m][n] <=> SameStep(heap, C[k], m, n)
  <2>1. j # 0 /\ j - 1 = k
    BY <1>10
  <2>2. Body(C, j, m, n) = SameStep(heap, C[j - 1], m, n)
    <3> HIDE DEF Body
    <3>1. QED
      BY <1>5, <2>1
  <2> HIDE DEF Body
  <2>3. C[j] = [o \in N |-> [p \in N |-> Body(C, j, o, p)]]
    BY <1>8, Zenon
  <2>4. C[j][m][n] = Body(C, j, m, n)
    BY <2>3
  <2>5. QED
    BY <2>1, <2>2, <2>4
<1>11. QED
  BY <1>9, <1>10

(***************************************************************************)
(* Objects are equal when they have the same names and equal values under  *)
(* each, in whatever order they were put in.                               *)
(***************************************************************************)
LEMMA DictsAlike ==
  ASSUME NEW N, NEW v, NEW w, v.kind = "dict", w.kind = "dict", Keyed(v, N), Keyed(w, N), NEW E
  PROVE  SameDicts(E, v, w) <=>
           /\ Len(v.members) = Len(w.members)
           /\ \A i \in DOMAIN v.members :
                /\ members(v)[i].key = members(w)[i].key
                /\ E[members(v)[i].node][members(w)[i].node]
<1> DEFINE Rv == Range(v.members)
           Rw == Range(w.members)
           mv == members(v)
           mw == members(w)
<1>1. /\ DOMAIN mv = DOMAIN v.members /\ DOMAIN v.members = 1 .. Len(v.members)
      /\ \A i \in DOMAIN v.members : mv[i] \in Rv
      /\ \A x \in Rv : \E i \in DOMAIN v.members : mv[i] = x
  <2>1. v.members \in Seq(Member(N))
    BY DEF Keyed
  <2>2. DOMAIN v.members = 1 .. Len(v.members)
    BY <2>1
  <2>3. QED
    BY <2>2, MembersAre
<1>2. /\ DOMAIN mw = DOMAIN w.members /\ DOMAIN w.members = 1 .. Len(w.members)
      /\ \A i \in DOMAIN w.members : mw[i] \in Rw
      /\ \A x \in Rw : \E i \in DOMAIN w.members : mw[i] = x
  <2>1. w.members \in Seq(Member(N))
    BY DEF Keyed
  <2>2. DOMAIN w.members = 1 .. Len(w.members)
    BY <2>1
  <2>3. QED
    BY <2>2, MembersAre
<1>3. \A x, y \in Rw : x.key = y.key => x = y
  BY KeysOf
<1>4. KeySet(v) = KeySet(w) =>
        /\ Len(v.members) = Len(w.members)
        /\ \A i \in DOMAIN v.members : mv[i].key = mw[i].key
  BY SameNamesSameOrder
<1>5. KeySet(v) = {x.key : x \in Rv} /\ KeySet(w) = {x.key : x \in Rw}
  BY DEF KeySet
<1>6. SameDicts(E, v, w) <=>
        /\ KeySet(v) = KeySet(w)
        /\ \A x \in Rv, y \in Rw : x.key = y.key => E[x.node][y.node]
  BY DEF SameDicts, KeySet
<1> HIDE DEF Rv, Rw, mv, mw
<1>7. ASSUME SameDicts(E, v, w)
      PROVE  /\ Len(v.members) = Len(w.members)
             /\ \A i \in DOMAIN v.members : mv[i].key = mw[i].key /\ E[mv[i].node][mw[i].node]
  <2>1. /\ KeySet(v) = KeySet(w) /\ Len(v.members) = Len(w.members)
        /\ \A i \in DOMAIN v.members : mv[i].key = mw[i].key
    BY <1>4, <1>6, <1>7
  <2>2. ASSUME NEW i \in DOMAIN v.members PROVE E[mv[i].node][mw[i].node]
    <3>1. i \in DOMAIN w.members
      BY <1>1, <1>2, <2>1
    <3>2. PICK x \in Rv, y \in Rw : x = mv[i] /\ y = mw[i]
      BY <1>1, <1>2, <3>1
    <3>3. x.key = y.key
      BY <2>1, <3>2
    <3>4. E[x.node][y.node]
      BY <1>6, <1>7, <3>3
    <3>5. QED
      BY <3>2, <3>4
  <2>3. QED
    BY <2>1, <2>2
<1>8. ASSUME Len(v.members) = Len(w.members),
             \A i \in DOMAIN v.members : mv[i].key = mw[i].key /\ E[mv[i].node][mw[i].node]
      PROVE  SameDicts(E, v, w)
  <2>1. DOMAIN v.members = DOMAIN w.members
    BY <1>1, <1>2, <1>8
  <2>2. KeySet(v) = KeySet(w)
    <3>1. \A x \in Rv : \E y \in Rw : x.key = y.key
      BY <1>1, <1>2, <1>8, <2>1
    <3>2. \A y \in Rw : \E x \in Rv : x.key = y.key
      BY <1>1, <1>2, <1>8, <2>1
    <3>3. QED
      BY <1>5, <3>1, <3>2
  <2>3. ASSUME NEW x \in Rv, NEW y \in Rw, x.key = y.key PROVE E[x.node][y.node]
    <3>1. PICK i \in DOMAIN v.members : mv[i] = x
      BY <1>1
    <3>2. mw[i] \in Rw /\ mw[i].key = y.key
      BY <1>2, <1>8, <2>1, <2>3, <3>1
    <3>3. mw[i] = y
      BY <1>3, <3>2
    <3>4. E[mv[i].node][mw[i].node]
      BY <1>8
    <3>5. QED
      BY <3>1, <3>3, <3>4
  <2>4. QED
    BY <1>6, <2>2, <2>3
<1>9. QED
  BY <1>7, <1>8 DEF mv, mw

(***************************************************************************)
(* The first token of a text tells what the value is.                      *)
(***************************************************************************)
LEMMA Openings ==
  ASSUME NEW N, NEW v, NEW w, PythonValue(v, N), PythonValue(w, N)
  PROVE  /\ Len(Open(v)) = 1
         /\ Open(v)[1] # Token("mark", "]") /\ Open(v)[1] # Token("mark", "}")
         /\ Open(v) = Open(w) =>
              \/ v.kind = "list" /\ w.kind = "list"
              \/ v.kind = "dict" /\ w.kind = "dict"
              \/ v.kind \notin {"list", "dict"} /\ SameLeaves(v, w)
<1> DEFINE tok(u) == CASE u.kind = "list" -> Token("mark", "[")
                       [] u.kind = "dict" -> Token("mark", "{")
                       [] OTHER           -> Spelled(u)
<1>1. ASSUME NEW u, PythonValue(u, N)
      PROVE  /\ Open(u) = One(tok(u))
             /\ tok(u) # Token("mark", "]") /\ tok(u) # Token("mark", "}")
             /\ tok(u) = Token("mark", "[") <=> u.kind = "list"
             /\ tok(u) = Token("mark", "{") <=> u.kind = "dict"
             /\ u.kind \notin {"list", "dict"} => tok(u) = Spelled(u)
  <2>1. Spelled(u).type # "mark"
    BY <1>1 DEF Spelled, Token, PythonValue
  <2>2. \A m : Token("mark", m).type = "mark" /\ Token("mark", m).value = m
    BY DEF Token
  <2>3. \A m : Mark(m) = One(Token("mark", m))
    BY DEF Mark, One
  <2>4. CASE u.kind = "list"
    <3>1. tok(u) = Token("mark", "[") /\ Open(u) = Mark("[")
      BY <2>4 DEF Open
    <3> HIDE DEF tok
    <3>2. QED
      BY <2>2, <2>3, <2>4, <3>1
  <2>5. CASE u.kind = "dict"
    <3>1. tok(u) = Token("mark", "{") /\ Open(u) = Mark("{")
      BY <2>5 DEF Open
    <3> HIDE DEF tok
    <3>2. QED
      BY <2>2, <2>3, <2>5, <3>1
  <2>6. CASE u.kind \notin {"list", "dict"}
    <3>1. tok(u) = Spelled(u) /\ Open(u) = One(Spelled(u))
      BY <2>6 DEF Open
    <3> HIDE DEF tok
    <3>2. QED
      BY <2>1, <2>2, <2>6, <3>1
  <2>7. QED
    BY <2>4, <2>5, <2>6
<1> HIDE DEF tok
<1>2. \A x : Len(One(x)) = 1 /\ One(x)[1] = x
  BY DEF One
<1>3. Open(v) = Open(w) => tok(v) = tok(w)
  <2>1. Open(v) = One(tok(v)) /\ Open(w) = One(tok(w))
    BY <1>1
  <2>2. One(tok(v))[1] = tok(v) /\ One(tok(w))[1] = tok(w)
    BY <1>2
  <2>3. QED
    BY <2>1, <2>2
<1>4. QED
  BY <1>1, <1>2, <1>3 DEF SameLeaves

-----------------------------------------------------------------------------
(* No two values have one text.                                            *)

LEMMA ApartFirst ==
  ASSUME NEW S, NEW b \in Seq(S), NEW s \in Seq(S), b # <<>>, s # <<>>, b[1] # s[1]
  PROVE  Apart(S, b, s)
<1> SUFFICES ASSUME NEW x \in Seq(S), NEW y \in Seq(S), OneText(b, x, s, y) PROVE FALSE
  BY DEF Apart
<1>1. b \o x = s \o y
  BY DEF OneText
<1>2. (b \o x)[1] = b[1] /\ (s \o y)[1] = s[1]
  <2>1. Len(b) \in Nat \ {0} /\ Len(s) \in Nat \ {0}
    BY EmptySeq
  <2>2. QED
    BY <2>1
<1>3. QED
  BY <1>1, <1>2

LEMMA TwoParts ==
  ASSUME NEW X, NEW x \in Seq(X), NEW y \in Seq(X), NEW xy, xy = x \o y, Len(x) = 1, Len(y) \in {1, 2}
  PROVE  /\ xy \in Seq(X) /\ xy # <<>>
         /\ Len(y) = 1 => Len(xy) = 2
         /\ Len(y) = 2 => Len(xy) = 3
         /\ xy[1] = x[1] /\ xy[2] = y[1]
<1>1. xy \in Seq(X) /\ Len(xy) = Len(x) + Len(y)
  BY ConcatProperties
<1>2. \A i \in 1 .. Len(x) + Len(y) : xy[i] = IF i <= Len(x) THEN x[i] ELSE y[i - Len(x)]
  BY ConcatProperties
<1>3. xy[1] = x[1] /\ xy[2] = y[1]
  <2>1. 1 \in 1 .. Len(x) + Len(y) /\ 2 \in 1 .. Len(x) + Len(y) /\ 2 - Len(x) = 1
        /\ 1 <= Len(x) /\ ~ 2 <= Len(x)
    OBVIOUS
  <2>2. QED
    BY <1>2, <2>1
<1>4. Len(xy) # 0
  BY <1>1
<1>5. QED
  BY <1>1, <1>3, <1>4, EmptySeq

LEMMA Two ==
  ASSUME NEW X, NEW a \in X, NEW b \in X
  PROVE  \E s \in Seq(X) : s = One(a) \o One(b) /\ Len(s) = 2 /\ s[1] = a /\ s # <<>>
<1>1. PICK x \in Seq(X), y \in Seq(X) :
        x = One(a) /\ Len(x) = 1 /\ x[1] = a /\ y = One(b) /\ Len(y) = 1
  <2>1. One(a) \in Seq(X) /\ Len(One(a)) = 1 /\ One(a)[1] = a
    BY OneType
  <2>2. One(b) \in Seq(X) /\ Len(One(b)) = 1
    BY OneType
  <2>3. QED
    BY <2>1, <2>2
<1>2. PICK s : s = x \o y
  OBVIOUS
<1>3. s \in Seq(X) /\ Len(s) = 2 /\ s[1] = x[1] /\ s # <<>>
  <2>1. Len(x) = 1 /\ Len(y) = 1 /\ Len(y) \in {1, 2}
    BY <1>1
  <2>2. QED
    BY <1>2, <2>1, TwoParts
<1>4. Len(s) = 2 /\ s[1] = a /\ s = One(a) \o One(b)
  BY <1>1, <1>2, <1>3
<1>5. QED
  BY <1>3, <1>4

LEMMA Three ==
  ASSUME NEW X, NEW a \in X, NEW s \in Seq(X), Len(s) = 2
  PROVE  \E t \in Seq(X) : t = One(a) \o s /\ Len(t) = 3 /\ t[1] = a /\ t[2] = s[1] /\ t # <<>>
<1>1. PICK x \in Seq(X) : x = One(a) /\ Len(x) = 1 /\ x[1] = a
  <2>1. One(a) \in Seq(X) /\ Len(One(a)) = 1 /\ One(a)[1] = a
    BY OneType
  <2>2. QED
    BY <2>1
<1>2. PICK t : t = x \o s
  OBVIOUS
<1>3. t \in Seq(X) /\ Len(t) = 3 /\ t[1] = x[1] /\ t[2] = s[1] /\ t # <<>>
  <2>1. Len(s) \in {1, 2}
    OBVIOUS
  <2>2. QED
    BY <1>1, <1>2, <2>1, TwoParts
<1>4. Len(t) = 3 /\ t[1] = a /\ t = One(a) \o s
  BY <1>1, <1>2, <1>3
<1>5. QED
  BY <1>3, <1>4

(***************************************************************************)
(* What comes before an item tells its name, and never ends the value.     *)
(***************************************************************************)
LEMMA LeadIs ==
  ASSUME NEW v, NEW i, NEW T,
         Token("mark", ",") \in T, Token("mark", ":") \in T,
         v.kind = "dict" => Token("string", members(v)[i].key) \in T
  PROVE  /\ v.kind # "dict" /\ i = 1 => Lead(v, i) = <<>>
         /\ v.kind # "dict" /\ i # 1 => Lead(v, i) = One(Token("mark", ","))
         /\ v.kind = "dict" =>
              /\ Lead(v, i) \in Seq(T) /\ Lead(v, i) # <<>>
              /\ Len(Lead(v, i)) = IF i = 1 THEN 2 ELSE 3
              /\ Lead(v, i)[IF i = 1 THEN 1 ELSE 2] = Token("string", members(v)[i].key)
              /\ i # 1 => Lead(v, i)[1] = Token("mark", ",")
<1>1. PICK comma \in T, colon \in T : comma = Token("mark", ",") /\ colon = Token("mark", ":")
  OBVIOUS
<1>2. ASSUME v.kind # "dict"
      PROVE  /\ i = 1 => Lead(v, i) = <<>>
             /\ i # 1 => Lead(v, i) = One(comma)
  <2>1. Lead(v, i) = (IF i = 1 THEN <<>> ELSE One(comma)) \o <<>>
    BY <1>1, <1>2 DEF Lead, Mark, One
  <2>2. PICK c \in Seq(T), e \in Seq(T) : c = One(comma) /\ e = <<>>
    <3>1. One(comma) \in Seq(T)
      BY OneType
    <3>2. <<>> \in Seq(T)
      BY EmptySeq
    <3>3. QED
      BY <3>1, <3>2
  <2>3. c \o <<>> = c /\ e \o <<>> = e
    BY ConcatEmptySeq
  <2>4. QED
    BY <2>1, <2>2, <2>3
<1>3. ASSUME v.kind = "dict"
      PROVE  /\ Lead(v, i) \in Seq(T) /\ Lead(v, i) # <<>>
             /\ Len(Lead(v, i)) = IF i = 1 THEN 2 ELSE 3
             /\ Lead(v, i)[IF i = 1 THEN 1 ELSE 2] = Token("string", members(v)[i].key)
             /\ i # 1 => Lead(v, i)[1] = comma
  <2>1. PICK name \in T : name = Token("string", members(v)[i].key)
    BY <1>3
  <2>2. Lead(v, i) = (IF i = 1 THEN <<>> ELSE One(comma)) \o (One(name) \o One(colon))
    BY <1>1, <1>3, <2>1 DEF Lead, Mark, One
  <2>3. PICK nc \in Seq(T) : nc = One(name) \o One(colon) /\ Len(nc) = 2 /\ nc[1] = name /\ nc # <<>>
    BY Two
  <2>4. CASE i = 1
    <3>1. <<>> \o nc = nc
      BY ConcatEmptySeq
    <3>2. Lead(v, i) = nc
      BY <2>2, <2>3, <2>4, <3>1
    <3>3. QED
      BY <2>1, <2>3, <2>4, <3>2
  <2>5. CASE i # 1
    <3>1. PICK c \in Seq(T) : c = One(comma) \o nc /\ Len(c) = 3 /\ c[1] = comma
                              /\ c[2] = nc[1] /\ c # <<>>
      <4>1. Len(nc) = 2
        BY <2>3
      <4>2. QED
        BY <4>1, Three
    <3>2. Lead(v, i) = c
      BY <2>2, <2>3, <2>5, <3>1
    <3>3. QED
      BY <2>1, <2>3, <2>5, <3>1, <3>2
  <2>6. QED
    BY <2>4, <2>5
<1>4. QED
  BY <1>1, <1>2, <1>3

LEMMA LeadTokens ==
  ASSUME NEW g \in Givens, g.walker = "jcs", NEW n \in DOMAIN g.heap, Json(g.heap[n]),
         NEW i \in DOMAIN Inside(g.heap[n])
  PROVE  LET v == g.heap[n]
             T == Tokens(g.heap)
         IN  /\ Token("mark", ",") \in T /\ Token("mark", ":") \in T
             /\ v.kind = "dict" => Token("string", members(v)[i].key) \in T
             /\ Lead(v, i) # <<>> => /\ Lead(v, i)[1] # Token("mark", "]")
                                     /\ Lead(v, i)[1] # Token("mark", "}")
             /\ v.kind = "dict" => Lead(v, i) # <<>>
<1> DEFINE v == g.heap[n]
           T == Tokens(g.heap)
           N == DOMAIN g.heap
<1>1. Token("mark", ",") \in T /\ Token("mark", ":") \in T
  BY MarkType DEF Marks
<1>2. v.kind = "dict" => Token("string", members(v)[i].key) \in T
  <2> SUFFICES ASSUME v.kind = "dict" PROVE Token("string", members(v)[i].key) \in T
    OBVIOUS
  <2>1. Keyed(v, N) /\ i \in DOMAIN v.members
    BY JcsTypes DEF Inside
  <2>2. members(v)[i] \in Range(v.members) /\ Range(v.members) \subseteq Member(N)
    BY <2>1, MembersAre, KeysOf
  <2>3. members(v)[i].key \in DOMAIN KeyRank
    BY <2>2 DEF Member
  <2>4. QED
    BY <2>3 DEF Token, Tokens, Types
<1> HIDE DEF v, T, N
<1>3. /\ v.kind # "dict" /\ i = 1 => Lead(v, i) = <<>>
      /\ v.kind # "dict" /\ i # 1 => Lead(v, i) = One(Token("mark", ","))
      /\ v.kind = "dict" =>
           /\ Lead(v, i) \in Seq(T) /\ Lead(v, i) # <<>>
           /\ Lead(v, i)[IF i = 1 THEN 1 ELSE 2] = Token("string", members(v)[i].key)
           /\ i # 1 => Lead(v, i)[1] = Token("mark", ",")
  BY <1>1, <1>2, LeadIs
<1>4. /\ Token("mark", ",") # Token("mark", "]") /\ Token("mark", ",") # Token("mark", "}")
      /\ Token("string", members(v)[i].key) # Token("mark", "]")
      /\ Token("string", members(v)[i].key) # Token("mark", "}")
  BY DEF Token
<1>5. One(Token("mark", ","))[1] = Token("mark", ",")
  BY DEF One
<1>6. Lead(v, i) # <<>> => Lead(v, i)[1] # Token("mark", "]") /\ Lead(v, i)[1] # Token("mark", "}")
  BY <1>3, <1>4, <1>5
<1>7. QED
  BY <1>1, <1>2, <1>3, <1>6 DEF v, T

LEMMA LeadsAlike ==
  ASSUME NEW g \in Givens, g.walker = "jcs",
         NEW n \in DOMAIN g.heap, Json(g.heap[n]), NEW m \in DOMAIN g.heap, Json(g.heap[m]),
         g.heap[n].kind = "dict" <=> g.heap[m].kind = "dict",
         NEW i \in DOMAIN Inside(g.heap[n]), i \in DOMAIN Inside(g.heap[m])
  PROVE  LET v == g.heap[n]
             w == g.heap[m]
         IN  /\ Len(Lead(v, i)) = Len(Lead(w, i))
             /\ v.kind # "dict" => Lead(v, i) = Lead(w, i)
             /\ v.kind = "dict" => (Lead(v, i) = Lead(w, i)
                                      <=> members(v)[i].key = members(w)[i].key)
<1> DEFINE v == g.heap[n]
           w == g.heap[m]
           T == Tokens(g.heap)
<1>1. /\ Token("mark", ",") \in T /\ Token("mark", ":") \in T
      /\ v.kind = "dict" => Token("string", members(v)[i].key) \in T
      /\ w.kind = "dict" => Token("string", members(w)[i].key) \in T
  BY LeadTokens
<1>2. v.kind = "dict" <=> w.kind = "dict"
  OBVIOUS
<1>3. v.kind = "dict" /\ members(v)[i].key = members(w)[i].key => Lead(v, i) = Lead(w, i)
  BY DEF Lead
<1> HIDE DEF v, w, T
<1>4. /\ v.kind # "dict" /\ i = 1 => Lead(v, i) = <<>>
      /\ v.kind # "dict" /\ i # 1 => Lead(v, i) = One(Token("mark", ","))
      /\ v.kind = "dict" =>
           /\ Len(Lead(v, i)) = IF i = 1 THEN 2 ELSE 3
           /\ Lead(v, i)[IF i = 1 THEN 1 ELSE 2] = Token("string", members(v)[i].key)
  BY <1>1, LeadIs
<1>5. /\ w.kind # "dict" /\ i = 1 => Lead(w, i) = <<>>
      /\ w.kind # "dict" /\ i # 1 => Lead(w, i) = One(Token("mark", ","))
      /\ w.kind = "dict" =>
           /\ Len(Lead(w, i)) = IF i = 1 THEN 2 ELSE 3
           /\ Lead(w, i)[IF i = 1 THEN 1 ELSE 2] = Token("string", members(w)[i].key)
  BY <1>1, LeadIs
<1>6. \A k, l : Token("string", k) = Token("string", l) => k = l
  BY DEF Token
<1>7. v.kind # "dict" => Lead(v, i) = Lead(w, i)
  BY <1>2, <1>4, <1>5
<1>8. Len(Lead(v, i)) = Len(Lead(w, i))
  BY <1>2, <1>4, <1>5, <1>7
<1>9. v.kind = "dict" /\ Lead(v, i) = Lead(w, i) => members(v)[i].key = members(w)[i].key
  <2> SUFFICES ASSUME v.kind = "dict", Lead(v, i) = Lead(w, i)
               PROVE  members(v)[i].key = members(w)[i].key
    OBVIOUS
  <2>1. Token("string", members(v)[i].key) = Token("string", members(w)[i].key)
    BY <1>2, <1>4, <1>5
  <2>2. QED
    BY <1>6, <2>1
<1>10. QED
  BY <1>3, <1>7, <1>8, <1>9 DEF v, w

LEMMA FirstFirst ==
  ASSUME NEW S, NEW a \in Seq(S), NEW b \in Seq(S), NEW ab \in Seq(S), ab = a \o b, a # <<>>
  PROVE  ab # <<>> /\ ab[1] = a[1]
<1>1. Len(a) \in Nat \ {0} /\ Len(b) \in Nat
  BY EmptySeq
<1>2. Len(ab) = Len(a) + Len(b) /\ ab[1] = a[1]
  BY <1>1, ConcatProperties
<1>3. Len(ab) # 0
  BY <1>1, <1>2
<1>4. QED
  BY <1>2, <1>3, EmptySeq

LEMMA OneLong ==
  ASSUME NEW s, Len(s) = 1
  PROVE  s # <<>>
<1>1. Len(<<>>) = 0
  OBVIOUS
<1>2. QED
  BY <1>1

LEMMA Regroup ==
  ASSUME NEW S, NEW a \in Seq(S), NEW b \in Seq(S), NEW x \in Seq(S),
         NEW ab, ab = a \o b, NEW bx, bx = b \o x
  PROVE  ab \o x = a \o bx
<1>1. (a \o b) \o x = a \o (b \o x)
  BY ConcatAssociative
<1>2. QED
  BY <1>1

LEMMA Unwrapped ==
  ASSUME NEW S, NEW a \in Seq(S), NEW items \in Seq(Seq(S)), NEW b \in Seq(S), NEW text \in Seq(S),
         Enclosed(text, a, items, b), NEW x \in Seq(S), NEW f \in Seq(S), f = FlattenSeq(items),
         NEW bx \in Seq(S), bx = b \o x, NEW rest \in Seq(S), rest = f \o bx
  PROVE  OneText(text, x, a, rest)
<1>1. f = FlattenSeq(items)
  OBVIOUS
<1>2. text = (a \o f) \o b
  BY <1>1 DEF Enclosed
<1>3. bx = b \o x
  OBVIOUS
<1>4. rest = f \o bx
  OBVIOUS
<1>5. PICK af \in Seq(S) : af = a \o f
  BY ConcatProperties
<1>6. text = af \o b
  BY <1>2, <1>5
<1>7. text \o x = af \o bx
  BY <1>3, <1>6, Regroup
<1>8. af \o bx = a \o rest
  <2>1. PICK c \in Seq(S) : c = bx
    OBVIOUS
  <2>2. rest = f \o c
    BY <1>4, <2>1
  <2>3. af \o c = a \o rest
    BY <1>5, <2>2, Regroup
  <2>4. QED
    BY <2>1, <2>3
<1>9. QED
  BY <1>1, <1>3, <1>4, <1>7, <1>8 DEF OneText

\* The text of a value begins as the value does.
LEMMA TextFirst ==
  ASSUME NEW S, NEW a \in Seq(S), NEW items \in Seq(Seq(S)), NEW b \in Seq(S), NEW text \in Seq(S),
         Enclosed(text, a, items, b), a # <<>>
  PROVE  text # <<>> /\ text[1] = a[1]
<1>1. PICK f \in Seq(S) : f = FlattenSeq(items)
  BY FlattenType
<1>2. PICK af \in Seq(S) : af = a \o f
  BY ConcatProperties
<1>3. text = af \o b
  BY <1>1, <1>2 DEF Enclosed
<1>4. af # <<>> /\ af[1] = a[1]
  BY <1>2, FirstFirst
<1>5. text # <<>> /\ text[1] = af[1]
  BY <1>3, <1>4, FirstFirst
<1>6. QED
  BY <1>4, <1>5

LEMMA CloseFirst ==
  ASSUME NEW v
  PROVE  /\ v.kind = "list" => Close(v) # <<>> /\ Close(v)[1] = Token("mark", "]")
         /\ v.kind = "dict" => Close(v) # <<>> /\ Close(v)[1] = Token("mark", "}")
<1>1. \A m : Mark(m) # <<>> /\ Mark(m)[1] = Token("mark", m)
  BY DEF Mark
<1>2. v.kind = "list" => Close(v) = Mark("]")
  BY DEF Close
<1>3. v.kind = "dict" => Close(v) = Mark("}")
  BY DEF Close
<1>4. QED
  BY <1>1, <1>2, <1>3

(***************************************************************************)
(* No item begins as a value ends.                                         *)
(***************************************************************************)
LEMMA PieceApart ==
  ASSUME NEW g \in Givens, g.walker = "jcs", NEW k \in Nat, NEW j \in Nat, j = k + 1,
         NEW n \in Sound(g.heap)[j], NEW i \in DOMAIN JcsBelow(g.heap)[n]
  PROVE  LET piece == Pieces(g.heap, n, Texts(g.heap)[k])[i]
             T     == Tokens(g.heap)
         IN  /\ piece = Lead(g.heap[n], i) \o Texts(g.heap)[k][JcsBelow(g.heap)[n][i]]
             /\ Apart(T, Close(g.heap[n]), piece)
<1> DEFINE N == DOMAIN g.heap
           v == g.heap[n]
           T == Tokens(g.heap)
           I == JcsBelow(g.heap)[n]
           piece == Pieces(g.heap, n, Texts(g.heap)[k])[i]
           ends == {Token("mark", "]"), Token("mark", "}")}
<1>1. n \in N /\ Json(v) /\ I = Inside(v) /\ I[i] \in Sound(g.heap)[k]
  BY SoundBelow
<1>2. PICK c \in N : c = I[i]
  <2>1. k # 0
    BY <1>1, SoundDown
  <2>2. PICK l \in Nat : k = l + 1
    BY <2>1
  <2>3. QED
    BY <1>1, <2>2, SoundBelow
<1>3. PICK l \in Nat : k = l + 1
  <2>1. k # 0
    BY <1>1, SoundDown
  <2>2. QED
    BY <2>1
<1>4. piece = Lead(v, i) \o Texts(g.heap)[k][c]
  BY <1>2 DEF Pieces
<1>5. v.kind \in {"list", "dict"}
  <2>1. i \in DOMAIN Inside(v)
    BY <1>1
  <2>2. v.kind \notin {"list", "dict"} => Inside(v) = <<>>
    BY DEF Inside
  <2>3. DOMAIN <<>> = {}
    OBVIOUS
  <2> HIDE DEF v
  <2>4. QED
    BY <2>1, <2>2, <2>3
<1>6. Lead(v, i) \in Seq(T) /\ Close(v) \in Seq(T) /\ Open(g.heap[c]) \in Seq(T)
      /\ Close(g.heap[c]) \in Seq(T)
  BY <1>1, JcsTypes
<1>7. Lead(v, i) # <<>> => Lead(v, i)[1] \notin ends
  BY <1>1, LeadTokens
<1>8. Open(g.heap[c]) # <<>> /\ Open(g.heap[c])[1] \notin ends
  <2>1. PICK u : u = g.heap[c]
    OBVIOUS
  <2>2. PythonValue(u, N) /\ Open(u) \in Seq(T)
    BY <1>6, <2>1, JcsTypes
  <2> HIDE DEF T, N
  <2>3. Len(Open(u)) = 1 /\ Open(u)[1] \notin ends
    BY <2>2, Openings
  <2>4. Open(u) # <<>>
    BY <2>3, OneLong
  <2>5. QED
    BY <2>1, <2>3, <2>4
<1>9. Close(v) # <<>> /\ Close(v)[1] \in ends
  <2>1. PICK u : u = v
    OBVIOUS
  <2>2. u.kind \in {"list", "dict"}
    BY <1>5, <2>1
  <2> HIDE DEF v
  <2>3. /\ u.kind = "list" => Close(u) # <<>> /\ Close(u)[1] = Token("mark", "]")
        /\ u.kind = "dict" => Close(u) # <<>> /\ Close(u)[1] = Token("mark", "}")
    BY CloseFirst
  <2>4. QED
    BY <2>1, <2>2, <2>3
<1> HIDE DEF v, piece, T, N, ends, I
<1>10. PICK text \in Seq(T) : text = Texts(g.heap)[k][c]
  BY TextsAre DEF T, N
<1>11. text # <<>> /\ text[1] \notin ends
  <2>1. Enclosed(text, Open(g.heap[c]), Pieces(g.heap, c, Texts(g.heap)[l]), Close(g.heap[c]))
    BY <1>3, <1>10, TextsAre DEF N
  <2>2. Texts(g.heap)[l] \in TextLevel(g.heap)
    BY TextsAre
  <2>3. Pieces(g.heap, c, Texts(g.heap)[l]) \in Seq(Seq(T))
    BY <2>2, PiecesType DEF T, N
  <2>4. text # <<>> /\ text[1] = Open(g.heap[c])[1]
    BY <1>6, <1>8, <2>1, <2>3, TextFirst
  <2>5. QED
    BY <1>8, <2>4
<1>12. PICK lead \in Seq(T) : lead = Lead(v, i)
  BY <1>6
<1>13. piece \in Seq(T) /\ piece # <<>> /\ piece[1] \notin ends
  <2>1. piece = lead \o text
    BY <1>4, <1>10, <1>12
  <2>2. piece \in Seq(T)
    BY <2>1, ConcatProperties
  <2>3. CASE lead = <<>>
    <3>1. <<>> \o text = text
      BY ConcatEmptySeq
    <3>2. piece = text
      BY <2>1, <2>3, <3>1
    <3>3. QED
      BY <1>11, <2>2, <3>2
  <2>4. CASE lead # <<>>
    <3>1. piece # <<>> /\ piece[1] = lead[1]
      BY <2>1, <2>2, <2>4, FirstFirst
    <3>2. QED
      BY <1>7, <1>12, <2>2, <2>4, <3>1
  <2>5. QED
    BY <2>3, <2>4
<1>14. Apart(T, Close(v), piece)
  <2>1. Close(v)[1] # piece[1]
    BY <1>9, <1>13
  <2>2. QED
    BY <1>6, <1>9, <1>13, <2>1, ApartFirst
<1>15. QED
  BY <1>2, <1>4, <1>14 DEF v, piece, T, I

\* No text of n, whatever comes after it, is a text of another value m.
Told(heap, k, n, m) ==
  \A x, y \in Seq(Tokens(heap)) :
    OneText(Texts(heap)[k][n], x, Texts(heap)[k][m], y) => Same(heap)[k][n][m] /\ x = y

AllTold(heap, k) == \A n, m \in Sound(heap)[k] : Told(heap, k, n, m)

\* The i-th parts of n and of m are equal, and so are their names.
SameParts(heap, k, n, m) ==
  {i \in Nat :
     /\ Same(heap)[k][JcsBelow(heap)[n][i]][JcsBelow(heap)[m][i]]
     /\ heap[n].kind = "dict" => members(heap[n])[i].key = members(heap[m])[i].key}

LEMMA PieceReadsBack ==
  ASSUME NEW g \in Givens, g.walker = "jcs", NEW k \in Nat, NEW j \in Nat, j = k + 1,
         AllTold(g.heap, k), NEW n \in Sound(g.heap)[j], NEW m \in Sound(g.heap)[j],
         g.heap[n].kind = "dict" <=> g.heap[m].kind = "dict",
         NEW i \in Nat, i \in DOMAIN JcsBelow(g.heap)[n], i \in DOMAIN JcsBelow(g.heap)[m]
  PROVE  ReadsBack(Tokens(g.heap), Pieces(g.heap, n, Texts(g.heap)[k])[i],
                   Pieces(g.heap, m, Texts(g.heap)[k])[i], i, SameParts(g.heap, k, n, m))
<1> DEFINE N == DOMAIN g.heap
           v == g.heap[n]
           w == g.heap[m]
           T == Tokens(g.heap)
           I == JcsBelow(g.heap)[n]
           J == JcsBelow(g.heap)[m]
           p == Pieces(g.heap, n, Texts(g.heap)[k])[i]
           q == Pieces(g.heap, m, Texts(g.heap)[k])[i]
           R == SameParts(g.heap, k, n, m)
<1>1. n \in N /\ Json(v) /\ I = Inside(v) /\ I[i] \in Sound(g.heap)[k]
  BY SoundBelow
<1>2. m \in N /\ Json(w) /\ J = Inside(w) /\ J[i] \in Sound(g.heap)[k]
  BY SoundBelow
<1>3. I[i] \in N /\ J[i] \in N
  <2>1. Sound(g.heap)[k] \subseteq N
    BY DEF Sound
  <2>2. QED
    BY <1>1, <1>2, <2>1
<1>4. PICK a \in Seq(T), b \in Seq(T) : a = Lead(v, i) /\ b = Lead(w, i)
  <2>1. Lead(v, i) \in Seq(T)
    BY <1>1, JcsTypes
  <2>2. Lead(w, i) \in Seq(T)
    BY <1>2, JcsTypes
  <2>3. QED
    BY <2>1, <2>2
<1>5. PICK s \in Seq(T), t \in Seq(T) : s = Texts(g.heap)[k][I[i]] /\ t = Texts(g.heap)[k][J[i]]
  BY <1>3, TextsAre
<1>6. p = a \o s /\ q = b \o t
  BY <1>4, <1>5 DEF Pieces
<1>7. /\ Len(a) = Len(b)
      /\ a = b => (v.kind = "dict" => members(v)[i].key = members(w)[i].key)
  <2>1. /\ Len(Lead(v, i)) = Len(Lead(w, i))
        /\ v.kind = "dict" => (Lead(v, i) = Lead(w, i) <=> members(v)[i].key = members(w)[i].key)
    BY <1>1, <1>2, LeadsAlike
  <2>2. QED
    BY <1>4, <2>1
<1>8. Told(g.heap, k, I[i], J[i])
  BY <1>1, <1>2 DEF AllTold
<1>9. p \in Seq(T) /\ q \in Seq(T)
  BY <1>6, ConcatProperties
<1>10. Same(g.heap)[k][I[i]][J[i]] /\ a = b => i \in R
  BY <1>7 DEF SameParts
<1>11. \A x, y \in Seq(T) : OneText(s, x, t, y) => Same(g.heap)[k][I[i]][J[i]] /\ x = y
  BY <1>5, <1>8 DEF Told
<1> HIDE DEF N, v, w, T, I, J, p, q, R
<1>12. ASSUME NEW x \in Seq(T), NEW y \in Seq(T), OneText(p, x, q, y)
       PROVE  i \in R /\ x = y
  <2>1. PICK u \in Seq(T) : u = s \o x /\ OneText(p, x, a, u)
    BY <1>6, <1>9, Prolong
  <2>2. PICK z \in Seq(T) : z = t \o y /\ OneText(q, y, b, z)
    BY <1>6, <1>9, Prolong
  <2>3. OneText(a, u, b, z)
    BY <1>12, <2>1, <2>2 DEF OneText
  <2>4. a = b /\ u = z
    BY <1>7, <2>3, SameFront
  <2>5. OneText(s, x, t, y)
    BY <2>1, <2>2, <2>4 DEF OneText
  <2>6. QED
    BY <1>10, <1>11, <2>4, <2>5
<1>13. QED
  BY <1>12 DEF ReadsBack, T, p, q, R

LEMMA SameLength ==
  ASSUME NEW S, NEW U, NEW s \in Seq(S), NEW t \in Seq(U), DOMAIN s = DOMAIN t
  PROVE  Len(s) = Len(t)
<1>1. PICK a \in Nat, b \in Nat : a = Len(s) /\ b = Len(t)
  OBVIOUS
<1>2. \A i \in Nat : i \in 1 .. a <=> i \in 1 .. b
  <2>1. DOMAIN s = 1 .. Len(s) /\ DOMAIN t = 1 .. Len(t)
    OBVIOUS
  <2>2. 1 .. a = 1 .. b
    BY <1>1, <2>1
  <2>3. QED
    BY <2>2
<1>3. a \in 1 .. a => a <= b
  BY <1>2
<1>4. b \in 1 .. b => b <= a
  BY <1>2
<1>5. a = b
  BY <1>3, <1>4
<1>6. QED
  BY <1>1, <1>5

\* What a value consists of, level by level.
LEMMA SoundText ==
  ASSUME NEW g \in Givens, g.walker = "jcs", NEW k \in Nat, NEW j \in Nat, j = k + 1,
         NEW n \in Sound(g.heap)[j]
  PROVE  /\ n \in DOMAIN g.heap /\ PythonValue(g.heap[n], DOMAIN g.heap)
         /\ JcsBelow(g.heap)[n] = Inside(g.heap[n])
         /\ JcsBelow(g.heap)[n] \in Seq(DOMAIN g.heap)
         /\ g.heap[n].kind = "dict" => Keyed(g.heap[n], DOMAIN g.heap)
         /\ Open(g.heap[n]) \in Seq(Tokens(g.heap)) /\ Close(g.heap[n]) \in Seq(Tokens(g.heap))
         /\ Pieces(g.heap, n, Texts(g.heap)[k]) \in Seq(Seq(Tokens(g.heap)))
         /\ DOMAIN Pieces(g.heap, n, Texts(g.heap)[k]) = DOMAIN JcsBelow(g.heap)[n]
         /\ Len(Pieces(g.heap, n, Texts(g.heap)[k])) = Len(JcsBelow(g.heap)[n])
         /\ Texts(g.heap)[j][n] \in Seq(Tokens(g.heap))
         /\ Enclosed(Texts(g.heap)[j][n], Open(g.heap[n]), Pieces(g.heap, n, Texts(g.heap)[k]),
                     Close(g.heap[n]))
<1>1. /\ n \in DOMAIN g.heap /\ Json(g.heap[n]) /\ JcsBelow(g.heap)[n] = Inside(g.heap[n])
  BY SoundBelow
<1>2. /\ PythonValue(g.heap[n], DOMAIN g.heap)
      /\ JcsBelow(g.heap)[n] \in Seq(DOMAIN g.heap)
      /\ g.heap[n].kind = "dict" => Keyed(g.heap[n], DOMAIN g.heap)
      /\ Open(g.heap[n]) \in Seq(Tokens(g.heap)) /\ Close(g.heap[n]) \in Seq(Tokens(g.heap))
  BY <1>1, JcsTypes
<1>3. /\ Texts(g.heap)[k] \in TextLevel(g.heap)
      /\ Texts(g.heap)[j][n] \in Seq(Tokens(g.heap))
      /\ Enclosed(Texts(g.heap)[j][n], Open(g.heap[n]), Pieces(g.heap, n, Texts(g.heap)[k]),
                  Close(g.heap[n]))
  BY <1>1, TextsAre
<1>4. Pieces(g.heap, n, Texts(g.heap)[k]) \in Seq(Seq(Tokens(g.heap)))
  BY <1>1, <1>3, PiecesType
<1>5. DOMAIN Pieces(g.heap, n, Texts(g.heap)[k]) = DOMAIN JcsBelow(g.heap)[n]
  BY DEF Pieces
<1>6. Len(Pieces(g.heap, n, Texts(g.heap)[k])) = Len(JcsBelow(g.heap)[n])
  <2>1. PICK p \in Seq(Seq(Tokens(g.heap))), I \in Seq(DOMAIN g.heap) :
          p = Pieces(g.heap, n, Texts(g.heap)[k]) /\ I = JcsBelow(g.heap)[n] /\ DOMAIN p = DOMAIN I
    BY <1>2, <1>4, <1>5
  <2>2. Len(p) = Len(I)
    BY <2>1, SameLength
  <2>3. QED
    BY <2>1, <2>2
<1>7. QED
  BY <1>1, <1>2, <1>3, <1>4, <1>5, <1>6

\* Lists and objects of equal parts are equal.
LEMMA PartsAlike ==
  ASSUME NEW g \in Givens, g.walker = "jcs", NEW k \in Nat, NEW j \in Nat, j = k + 1,
         NEW n \in Sound(g.heap)[j], NEW m \in Sound(g.heap)[j],
         \/ g.heap[n].kind = "list" /\ g.heap[m].kind = "list"
         \/ g.heap[n].kind = "dict" /\ g.heap[m].kind = "dict"
  PROVE  Same(g.heap)[j][n][m] <=>
           /\ Len(JcsBelow(g.heap)[n]) = Len(JcsBelow(g.heap)[m])
           /\ \A i \in DOMAIN JcsBelow(g.heap)[n] : i \in SameParts(g.heap, k, n, m)
<1> DEFINE N == DOMAIN g.heap
           v == g.heap[n]
           w == g.heap[m]
           I == JcsBelow(g.heap)[n]
           J == JcsBelow(g.heap)[m]
           E == Same(g.heap)[k]
           R == SameParts(g.heap, k, n, m)
<1>1. /\ n \in N /\ PythonValue(v, N) /\ I = Inside(v) /\ I \in Seq(N)
      /\ v.kind = "dict" => Keyed(v, N)
  BY SoundText
<1>2. /\ m \in N /\ PythonValue(w, N) /\ J = Inside(w) /\ J \in Seq(N)
      /\ w.kind = "dict" => Keyed(w, N)
  BY SoundText
<1>3. Same(g.heap)[j][n][m] <=> SameLists(E, v, w) \/ SameDicts(E, v, w) \/ SameLeaves(v, w)
  BY <1>1, <1>2, SameSteps DEF SameStep
<1>4. \A i \in Nat : i \in R <=>
        E[I[i]][J[i]] /\ (v.kind = "dict" => members(v)[i].key = members(w)[i].key)
  BY DEF SameParts
<1> HIDE DEF N, v, w, I, J, E, R
<1>5. DOMAIN I \subseteq Nat
  BY <1>1
<1>6. CASE v.kind = "list" /\ w.kind = "list"
  <2>1. I = v.items /\ J = w.items
    BY <1>1, <1>2, <1>6 DEF Inside
  <2>2. SameLists(E, v, w) <=> Len(J) = Len(I) /\ \A i \in DOMAIN I : E[I[i]][J[i]]
    BY <1>6, <2>1 DEF SameLists
  <2>3. ~ SameDicts(E, v, w) /\ ~ SameLeaves(v, w)
    BY <1>6 DEF SameDicts, SameLeaves
  <2>4. \A i \in DOMAIN I : i \in R <=> E[I[i]][J[i]]
    BY <1>4, <1>5, <1>6
  <2>5. QED
    BY <1>3, <2>2, <2>3, <2>4 DEF I, J, R
<1>7. CASE v.kind = "dict" /\ w.kind = "dict"
  <2>1. Keyed(v, N) /\ Keyed(w, N)
    BY <1>1, <1>2, <1>7
  <2>2. /\ I = [i \in DOMAIN v.members |-> members(v)[i].node]
        /\ J = [i \in DOMAIN w.members |-> members(w)[i].node]
    BY <1>1, <1>2, <1>7 DEF Inside
  <2>3. PICK V \in Seq(Member(N)), W \in Seq(Member(N)) : V = v.members /\ W = w.members
    BY <2>1 DEF Keyed
  <2>4. Len(I) = Len(V) /\ Len(J) = Len(W)
    <3>1. DOMAIN I = DOMAIN V /\ DOMAIN J = DOMAIN W
      BY <2>2, <2>3
    <3>2. Len(I) = Len(V)
      BY <1>1, <3>1, SameLength
    <3>3. Len(J) = Len(W)
      BY <1>2, <3>1, SameLength
    <3>4. QED
      BY <3>2, <3>3
  <2>5. SameDicts(E, v, w) <=>
          /\ Len(v.members) = Len(w.members)
          /\ \A i \in DOMAIN v.members :
               /\ members(v)[i].key = members(w)[i].key
               /\ E[members(v)[i].node][members(w)[i].node]
    BY <1>7, <2>1, DictsAlike
  <2>6. ~ SameLists(E, v, w) /\ ~ SameLeaves(v, w)
    BY <1>7 DEF SameLists, SameLeaves
  <2>7. /\ DOMAIN I = DOMAIN v.members /\ DOMAIN J = DOMAIN w.members
        /\ \A i \in DOMAIN I : I[i] = members(v)[i].node
        /\ \A i \in DOMAIN J : J[i] = members(w)[i].node
    BY <2>2
  <2>8. Len(I) = Len(J) => DOMAIN I = DOMAIN J
    BY <1>1, <1>2
  <2>9. \A i \in DOMAIN I : i \in R <=>
          E[I[i]][J[i]] /\ members(v)[i].key = members(w)[i].key
    BY <1>4, <1>5, <1>7
  <2>10. SameDicts(E, v, w) <=> Len(I) = Len(J) /\ \A i \in DOMAIN I : i \in R
    BY <2>3, <2>4, <2>5, <2>7, <2>8, <2>9
  <2>11. QED
    BY <1>3, <2>6, <2>10 DEF I, J, R
<1>8. QED
  BY <1>6, <1>7 DEF v, w

(***************************************************************************)
(* From the text of a value, and whatever comes after it, the value can be *)
(* told, and where its text ends.                                          *)
(***************************************************************************)
LEMMA ToldStep ==
  ASSUME NEW g \in Givens, g.walker = "jcs", NEW k \in Nat, NEW j \in Nat, j = k + 1,
         AllTold(g.heap, k)
  PROVE  AllTold(g.heap, j)
<1> SUFFICES ASSUME NEW n \in Sound(g.heap)[j], NEW m \in Sound(g.heap)[j],
                    NEW x \in Seq(Tokens(g.heap)), NEW y \in Seq(Tokens(g.heap)),
                    OneText(Texts(g.heap)[j][n], x, Texts(g.heap)[j][m], y)
             PROVE  Same(g.heap)[j][n][m] /\ x = y
  BY DEF AllTold, Told
<1> DEFINE N == DOMAIN g.heap
           v == g.heap[n]
           w == g.heap[m]
           T == Tokens(g.heap)
           I == JcsBelow(g.heap)[n]
           J == JcsBelow(g.heap)[m]
           p == Pieces(g.heap, n, Texts(g.heap)[k])
           q == Pieces(g.heap, m, Texts(g.heap)[k])
           s == Texts(g.heap)[j][n]
           t == Texts(g.heap)[j][m]
           R == SameParts(g.heap, k, n, m)
<1>1. /\ n \in N /\ PythonValue(v, N) /\ I = Inside(v)
      /\ Open(v) \in Seq(T) /\ Close(v) \in Seq(T) /\ p \in Seq(Seq(T))
      /\ DOMAIN p = DOMAIN I /\ Len(p) = Len(I)
      /\ s \in Seq(T) /\ Enclosed(s, Open(v), p, Close(v))
  BY SoundText
<1>2. /\ m \in N /\ PythonValue(w, N) /\ J = Inside(w)
      /\ Open(w) \in Seq(T) /\ Close(w) \in Seq(T) /\ q \in Seq(Seq(T))
      /\ DOMAIN q = DOMAIN J /\ Len(q) = Len(J)
      /\ t \in Seq(T) /\ Enclosed(t, Open(w), q, Close(w))
  BY SoundText
<1>3. /\ Len(Open(v)) = 1 /\ Len(Open(w)) = 1
      /\ Open(v) = Open(w) =>
           \/ v.kind = "list" /\ w.kind = "list"
           \/ v.kind = "dict" /\ w.kind = "dict"
           \/ v.kind \notin {"list", "dict"} /\ SameLeaves(v, w)
  <2>1. PICK a, b : a = v /\ b = w
    OBVIOUS
  <2>2. PythonValue(a, N) /\ PythonValue(b, N)
    BY <1>1, <1>2, <2>1
  <2> HIDE DEF v, w, N
  <2>3. /\ Len(Open(a)) = 1
        /\ Open(a) = Open(b) =>
             \/ a.kind = "list" /\ b.kind = "list"
             \/ a.kind = "dict" /\ b.kind = "dict"
             \/ a.kind \notin {"list", "dict"} /\ SameLeaves(a, b)
    BY <2>2, Openings
  <2>4. Len(Open(b)) = 1
    BY <2>2, Openings
  <2>5. QED
    BY <2>1, <2>3, <2>4
<1>4. \A i \in DOMAIN p : Apart(T, Close(v), p[i])
  BY <1>1, PieceApart
<1>5. \A i \in DOMAIN q : Apart(T, Close(w), q[i])
  BY <1>2, PieceApart
<1>6. OneText(s, x, t, y)
  OBVIOUS
<1>7. (v.kind = "dict" <=> w.kind = "dict") =>
        \A i \in DOMAIN p \cap DOMAIN q : ReadsBack(T, p[i], q[i], i, R)
  <2> SUFFICES ASSUME v.kind = "dict" <=> w.kind = "dict", NEW i \in DOMAIN p \cap DOMAIN q
               PROVE  ReadsBack(T, p[i], q[i], i, R)
    OBVIOUS
  <2>1. i \in DOMAIN I /\ i \in DOMAIN J
    BY <1>1, <1>2
  <2>2. i \in Nat
    <3>1. p \in Seq(Seq(T)) /\ i \in DOMAIN p
      BY <1>1
    <3> HIDE DEF p, T
    <3>2. QED
      BY <3>1
  <2>3. QED
    BY <2>1, <2>2, PieceReadsBack
<1>8. /\ (v.kind = "list" /\ w.kind = "list") \/ (v.kind = "dict" /\ w.kind = "dict") =>
           (Same(g.heap)[j][n][m] <=> Len(I) = Len(J) /\ \A i \in DOMAIN I : i \in R)
      /\ SameLeaves(v, w) => Same(g.heap)[j][n][m]
  <2>1. SameLeaves(v, w) => Same(g.heap)[j][n][m]
    BY <1>1, <1>2, SameSteps DEF SameStep
  <2>2. QED
    BY <2>1, PartsAlike
<1> HIDE DEF N, v, w, T, I, J, p, q, s, t, R
<1>9. PICK bx \in Seq(T), rx \in Seq(T) :
        bx = Close(v) \o x /\ rx = FlattenSeq(p) \o bx /\ OneText(s, x, Open(v), rx)
  <2>1. PICK a \in Seq(T), b \in Seq(T) :
          a = Open(v) /\ b = Close(v) /\ Enclosed(s, a, p, b)
    BY <1>1
  <2>2. p \in Seq(Seq(T)) /\ s \in Seq(T) /\ x \in Seq(T)
    BY <1>1 DEF T
  <2>3. PICK f \in Seq(T) : f = FlattenSeq(p)
    BY <2>2, FlattenType
  <2>4. PICK c \in Seq(T) : c = b \o x
    BY <2>2, ConcatProperties
  <2>5. PICK rest \in Seq(T) : rest = f \o c
    BY ConcatProperties
  <2>6. OneText(s, x, a, rest)
    BY <2>1, <2>2, <2>3, <2>4, <2>5, Unwrapped
  <2>7. QED
    BY <2>1, <2>3, <2>4, <2>5, <2>6
<1>10. PICK by \in Seq(T), ry \in Seq(T) :
         by = Close(w) \o y /\ ry = FlattenSeq(q) \o by /\ OneText(t, y, Open(w), ry)
  <2>1. PICK a \in Seq(T), b \in Seq(T) :
          a = Open(w) /\ b = Close(w) /\ Enclosed(t, a, q, b)
    BY <1>2
  <2>2. q \in Seq(Seq(T)) /\ t \in Seq(T) /\ y \in Seq(T)
    BY <1>2 DEF T
  <2>3. PICK f \in Seq(T) : f = FlattenSeq(q)
    BY <2>2, FlattenType
  <2>4. PICK c \in Seq(T) : c = b \o y
    BY <2>2, ConcatProperties
  <2>5. PICK rest \in Seq(T) : rest = f \o c
    BY ConcatProperties
  <2>6. OneText(t, y, a, rest)
    BY <2>1, <2>2, <2>3, <2>4, <2>5, Unwrapped
  <2>7. QED
    BY <2>1, <2>3, <2>4, <2>5, <2>6
<1>11. Open(v) = Open(w) /\ rx = ry
  <2>1. OneText(Open(v), rx, Open(w), ry)
    BY <1>6, <1>9, <1>10 DEF OneText
  <2>2. QED
    BY <1>1, <1>2, <1>3, <2>1, SameFront
<1>12. OneText(FlattenSeq(p), bx, FlattenSeq(q), by)
  BY <1>9, <1>10, <1>11 DEF OneText
<1>13. CASE (v.kind = "list" /\ w.kind = "list") \/ (v.kind = "dict" /\ w.kind = "dict")
  <2>1. PICK b \in Seq(T) : b = Close(v) /\ b = Close(w)
    BY <1>1, <1>13 DEF Close
  <2>2. bx = b \o x /\ by = b \o y
    BY <1>9, <1>10, <2>1
  <2>3. \A i \in DOMAIN p \cap DOMAIN q : ReadsBack(T, p[i], q[i], i, R)
    BY <1>7, <1>13
  <2>4. (\A i \in DOMAIN p : Apart(T, b, p[i])) /\ \A i \in DOMAIN q : Apart(T, b, q[i])
    BY <1>4, <1>5, <2>1
  <2>5. x \in Seq(T) /\ y \in Seq(T)
    BY DEF T
  <2>6. Len(p) = Len(q) /\ x = y /\ \A i \in DOMAIN p : i \in R
    BY <1>1, <1>2, <1>12, <2>2, <2>3, <2>4, <2>5, ItemsReadBack
  <2>7. QED
    BY <1>1, <1>2, <1>8, <1>13, <2>6
<1>14. CASE v.kind \notin {"list", "dict"} /\ SameLeaves(v, w)
  <2>1. w.kind \notin {"list", "dict"}
    BY <1>14 DEF SameLeaves
  <2>2. Close(v) = <<>> /\ Close(w) = <<>> /\ Inside(v) = <<>> /\ Inside(w) = <<>>
    BY <1>14, <2>1 DEF Close, Inside
  <2>3. p = <<>> /\ q = <<>>
    <3>1. Len(p) = 0 /\ Len(q) = 0
      BY <1>1, <1>2, <2>2
    <3>2. QED
      BY <1>1, <1>2, <3>1, EmptySeq
  <2>4. FlattenSeq(p) = <<>> /\ FlattenSeq(q) = <<>>
    BY <2>3, FlattenEmpty
  <2>5. x \in Seq(T) /\ y \in Seq(T)
    BY DEF T
  <2>6. bx = x /\ by = y
    BY <1>9, <1>10, <2>2, <2>5, ConcatEmptySeq
  <2>7. rx = bx /\ ry = by
    BY <1>9, <1>10, <2>4, ConcatEmptySeq
  <2>8. QED
    BY <1>8, <1>11, <1>14, <2>6, <2>7
<1>15. QED
  <2>1. \/ (v.kind = "list" /\ w.kind = "list") \/ (v.kind = "dict" /\ w.kind = "dict")
        \/ v.kind \notin {"list", "dict"} /\ SameLeaves(v, w)
    BY <1>3, <1>11
  <2>2. QED
    BY <1>13, <1>14, <2>1

LEMMA TextsTellApart ==
  ASSUME NEW g \in Givens, g.walker = "jcs"
  PROVE  \A k \in Nat : AllTold(g.heap, k)
<1> DEFINE Q == {k \in Nat : AllTold(g.heap, k)}
<1>1. 0 \in Q
  BY SoundDown DEF AllTold
<1>2. ASSUME NEW k \in Q PROVE k + 1 \in Q
  <2>1. PICK j \in Nat : j = k + 1
    OBVIOUS
  <2>2. AllTold(g.heap, k)
    OBVIOUS
  <2>3. AllTold(g.heap, j)
    BY <2>1, <2>2, ToldStep
  <2>4. QED
    BY <2>1, <2>3
<1>3. Q \in SUBSET Nat
  OBVIOUS
<1> HIDE DEF Q
<1>4. \A k \in Nat : k \in Q
  BY <1>1, <1>2, <1>3, Induction
<1>5. QED
  BY <1>4 DEF Q

-----------------------------------------------------------------------------
(* Equal values have one text.                                             *)

AllAlike(heap, k) ==
  \A n, m \in Sound(heap)[k] : Same(heap)[k][n][m] => Texts(heap)[k][n] = Texts(heap)[k][m]

LEMMA PiecesAlike ==
  ASSUME NEW g \in Givens, g.walker = "jcs", NEW k \in Nat, NEW j \in Nat, j = k + 1,
         AllAlike(g.heap, k), NEW n \in Sound(g.heap)[j], NEW m \in Sound(g.heap)[j],
         g.heap[n].kind = "dict" <=> g.heap[m].kind = "dict",
         Len(JcsBelow(g.heap)[n]) = Len(JcsBelow(g.heap)[m]),
         \A i \in DOMAIN JcsBelow(g.heap)[n] : i \in SameParts(g.heap, k, n, m)
  PROVE  Pieces(g.heap, n, Texts(g.heap)[k]) = Pieces(g.heap, m, Texts(g.heap)[k])
<1> DEFINE N == DOMAIN g.heap
           v == g.heap[n]
           w == g.heap[m]
           I == JcsBelow(g.heap)[n]
           J == JcsBelow(g.heap)[m]
           p == Pieces(g.heap, n, Texts(g.heap)[k])
           q == Pieces(g.heap, m, Texts(g.heap)[k])
           S == Sound(g.heap)[k]
<1>1. n \in N /\ Json(v) /\ I = Inside(v) /\ \A i \in DOMAIN I : I[i] \in S
  BY SoundBelow
<1>2. m \in N /\ Json(w) /\ J = Inside(w) /\ \A i \in DOMAIN J : J[i] \in S
  BY SoundBelow
<1>3. DOMAIN I = DOMAIN J
  <2>1. PICK a \in Seq(N), b \in Seq(N) : a = I /\ b = J
    BY SoundText
  <2>2. Len(a) = Len(b)
    BY <2>1
  <2>3. DOMAIN a = DOMAIN b
    BY <2>2
  <2>4. QED
    BY <2>1, <2>3
<1>4. ASSUME NEW i \in DOMAIN I PROVE p[i] = q[i]
  <2>1. i \in DOMAIN J
    BY <1>3
  <2>2. i \in SameParts(g.heap, k, n, m)
    OBVIOUS
  <2>3. /\ Same(g.heap)[k][I[i]][J[i]]
        /\ v.kind = "dict" => members(v)[i].key = members(w)[i].key
    BY <2>2 DEF SameParts
  <2>4. Texts(g.heap)[k][I[i]] = Texts(g.heap)[k][J[i]]
    BY <1>1, <1>2, <2>1, <2>3 DEF AllAlike
  <2>5. Lead(v, i) = Lead(w, i)
    <3>1. /\ v.kind # "dict" => Lead(v, i) = Lead(w, i)
          /\ v.kind = "dict" => (Lead(v, i) = Lead(w, i)
                                   <=> members(v)[i].key = members(w)[i].key)
      BY <1>1, <1>2, <2>1, LeadsAlike
    <3>2. QED
      BY <2>3, <3>1
  <2>6. p[i] = Lead(v, i) \o Texts(g.heap)[k][I[i]]
    BY DEF Pieces
  <2>7. q[i] = Lead(w, i) \o Texts(g.heap)[k][J[i]]
    BY <2>1 DEF Pieces
  <2>8. QED
    BY <2>4, <2>5, <2>6, <2>7
<1>5. p = [i \in DOMAIN I |-> p[i]] /\ q = [i \in DOMAIN J |-> q[i]]
  BY DEF Pieces
<1> HIDE DEF p, q, I, J
<1>6. p = q
  BY <1>3, <1>4, <1>5
<1>7. QED
  BY <1>6 DEF p, q

LEMMA AlikeStep ==
  ASSUME NEW g \in Givens, g.walker = "jcs", NEW k \in Nat, NEW j \in Nat, j = k + 1,
         AllAlike(g.heap, k)
  PROVE  AllAlike(g.heap, j)
<1> SUFFICES ASSUME NEW n \in Sound(g.heap)[j], NEW m \in Sound(g.heap)[j], Same(g.heap)[j][n][m]
             PROVE  Texts(g.heap)[j][n] = Texts(g.heap)[j][m]
  BY DEF AllAlike
<1> DEFINE N == DOMAIN g.heap
           v == g.heap[n]
           w == g.heap[m]
           T == Tokens(g.heap)
           p == Pieces(g.heap, n, Texts(g.heap)[k])
           q == Pieces(g.heap, m, Texts(g.heap)[k])
           E == Same(g.heap)[k]
<1>1. /\ n \in N /\ p \in Seq(Seq(T)) /\ Len(p) = Len(Inside(v))
      /\ Enclosed(Texts(g.heap)[j][n], Open(v), p, Close(v))
  BY SoundText
<1>2. /\ m \in N /\ q \in Seq(Seq(T)) /\ Len(q) = Len(Inside(w))
      /\ Enclosed(Texts(g.heap)[j][m], Open(w), q, Close(w))
  BY SoundText
<1>3. SameLists(E, v, w) \/ SameDicts(E, v, w) \/ SameLeaves(v, w)
  BY <1>1, <1>2, SameSteps DEF SameStep
<1>4. (v.kind = "list" /\ w.kind = "list") \/ (v.kind = "dict" /\ w.kind = "dict") => p = q
  <2> SUFFICES ASSUME (v.kind = "list" /\ w.kind = "list") \/ (v.kind = "dict" /\ w.kind = "dict")
               PROVE  p = q
    OBVIOUS
  <2>1. /\ Len(JcsBelow(g.heap)[n]) = Len(JcsBelow(g.heap)[m])
        /\ \A i \in DOMAIN JcsBelow(g.heap)[n] : i \in SameParts(g.heap, k, n, m)
    BY PartsAlike
  <2>2. QED
    BY <2>1, PiecesAlike
<1> HIDE DEF v, w, p, q, E, T
<1>5. Open(v) = Open(w) /\ Close(v) = Close(w) /\ p = q
  <2>1. CASE SameLists(E, v, w)
    BY <1>4, <2>1 DEF SameLists, Open, Close
  <2>2. CASE SameDicts(E, v, w)
    BY <1>4, <2>2 DEF SameDicts, Open, Close
  <2>3. CASE SameLeaves(v, w)
    <3>1. v.kind \notin {"list", "dict"} /\ w.kind \notin {"list", "dict"} /\ Spelled(v) = Spelled(w)
      BY <2>3 DEF SameLeaves
    <3>2. Open(v) = Open(w) /\ Close(v) = Close(w)
      BY <3>1 DEF Open, Close
    <3>3. Inside(v) = <<>> /\ Inside(w) = <<>>
      BY <3>1 DEF Inside
    <3>4. Len(p) = 0 /\ Len(q) = 0
      BY <1>1, <1>2, <3>3
    <3>5. p = <<>> /\ q = <<>>
      BY <1>1, <1>2, <3>4, EmptySeq
    <3>6. QED
      BY <3>2, <3>5
  <2>4. QED
    BY <1>3, <2>1, <2>2, <2>3
<1>6. QED
  BY <1>1, <1>2, <1>5 DEF Enclosed

LEMMA EqualValuesOneText ==
  ASSUME NEW g \in Givens, g.walker = "jcs"
  PROVE  \A k \in Nat : AllAlike(g.heap, k)
<1> DEFINE Q == {k \in Nat : AllAlike(g.heap, k)}
<1>1. 0 \in Q
  BY SoundDown DEF AllAlike
<1>2. ASSUME NEW k \in Q PROVE k + 1 \in Q
  <2>1. PICK j \in Nat : j = k + 1
    OBVIOUS
  <2>2. AllAlike(g.heap, k)
    OBVIOUS
  <2>3. AllAlike(g.heap, j)
    BY <2>1, <2>2, AlikeStep
  <2>4. QED
    BY <2>1, <2>3
<1>3. Q \in SUBSET Nat
  OBVIOUS
<1> HIDE DEF Q
<1>4. \A k \in Nat : k \in Q
  BY <1>1, <1>2, <1>3, Induction
<1>5. QED
  BY <1>4 DEF Q

(***************************************************************************)
(* Canonicalization takes every JSON value within its caps, and no other,  *)
(* and gives two of them one text exactly when they are equal (jcs.py).    *)
(***************************************************************************)
THEOREM CanonicalFormIsRight == WalkSpec => []CanonicalForm
<1>1. WalkInvariant => CanonicalForm
  <2> SUFFICES ASSUME WalkInvariant, given.walker = "jcs"
               PROVE  /\ \A i \in DOMAIN results :
                           results[i].verdict = OK
                             <=> Legal(given.heap, JcsCalls(given.heap, given.roots[i]))
                      /\ \A i, j \in DOMAIN results :
                           results[i].verdict = OK /\ results[j].verdict = OK =>
                             (results[i].out = results[j].out
                                <=> Same(given.heap)[JcsDepth + 1][given.roots[i]][given.roots[j]])
    BY DEF CanonicalForm
  <2>1. given \in Givens
    BY DEF WalkInvariant, WalkTypeOK
  <2> DEFINE h == given.heap
             top == JcsDepth + 1
  <2>2. top \in Nat
    BY JcsAssumption
  <2>3. \A i \in DOMAIN results : given.roots[i] \in DOMAIN h
    <3>1. results \in Seq([verdict : Reported, out : Outputs(given)])
          /\ Len(results) <= Len(given.roots)
      BY DEF WalkInvariant, WalkTypeOK
    <3>2. Len(given.roots) \in Nat /\ \A i \in 1 .. Len(given.roots) : given.roots[i] \in DOMAIN h
      BY <2>1, GivenFacts
    <3> HIDE DEF h
    <3>3. Len(results) \in Nat /\ DOMAIN results = 1 .. Len(results)
      BY <3>1
    <3>4. DOMAIN results \subseteq 1 .. Len(given.roots)
      BY <3>1, <3>2, <3>3
    <3>5. QED
      BY <3>2, <3>4
  <2>4. \A i \in DOMAIN results :
          JcsRight(given, given.roots[i], results[i].verdict, results[i].out)
    BY DEF WalkInvariant, ResultsRight, Right
  <2>5. \A i \in DOMAIN results :
          /\ results[i].verdict = OK <=> Legal(h, JcsCalls(h, given.roots[i]))
          /\ results[i].verdict = OK => results[i].out = Texts(h)[top][given.roots[i]]
    BY <2>4 DEF JcsRight
  <2>6. \A i \in DOMAIN results : results[i].verdict = OK => given.roots[i] \in Sound(h)[top]
    BY <2>1, <2>3, <2>5, SoundDown
  <2>7. ASSUME NEW i \in DOMAIN results, NEW j \in DOMAIN results,
               results[i].verdict = OK, results[j].verdict = OK
        PROVE  results[i].out = results[j].out <=> Same(h)[top][given.roots[i]][given.roots[j]]
    <3>1. PICK n \in Sound(h)[top], m \in Sound(h)[top] : n = given.roots[i] /\ m = given.roots[j]
      BY <2>6, <2>7
    <3>2. results[i].out = Texts(h)[top][n] /\ results[j].out = Texts(h)[top][m]
      BY <2>5, <2>7, <3>1
    <3>3. Same(h)[top][n][m] => Texts(h)[top][n] = Texts(h)[top][m]
      <4>1. AllAlike(h, top)
        BY <2>1, <2>2, EqualValuesOneText
      <4> HIDE DEF h, top
      <4>2. QED
        BY <4>1 DEF AllAlike
    <3>4. ASSUME Texts(h)[top][n] = Texts(h)[top][m] PROVE Same(h)[top][n][m]
      <4>1. Told(h, top, n, m)
        <5>1. AllTold(h, top)
          BY <2>1, <2>2, TextsTellApart
        <5> HIDE DEF h, top
        <5>2. QED
          BY <5>1 DEF AllTold
      <4> HIDE DEF h, top
      <4>2. PICK e \in Seq(Tokens(h)) : e = <<>>
        BY EmptySeq
      <4>3. OneText(Texts(h)[top][n], e, Texts(h)[top][m], e)
        BY <3>4 DEF OneText
      <4>4. QED
        BY <4>1, <4>3 DEF Told
    <3>5. QED
      BY <3>1, <3>2, <3>3, <3>4
  <2>8. QED
    BY <2>5, <2>7
<1>2. QED
  BY <1>1, WalksAreRight, PTL

=============================================================================
