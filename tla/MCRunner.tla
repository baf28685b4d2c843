------------------------------ MODULE MCRunner ------------------------------
(***************************************************************************)
(* Every pack of one or two of the files below, the first named f1 and the *)
(* second f2: two are enough for one to disturb the other.                 *)
(***************************************************************************)
EXTENDS Runner

Expect(outcome, code, side) == [outcome |-> outcome, error_code |-> code, side_effects |-> side]

Core ==
  [ fixture |-> TRUE, status |-> "core", feature |-> Absent, required |-> TRUE,
    sequence |-> Absent, holder |-> TRUE, marked |-> FALSE, supported |-> TRUE,
    minted |-> "yes", verdict |-> "OK", fields |-> TRUE,
    expected |-> Expect("success", Absent, TRUE) ]

SelfAttested ==
  [Core EXCEPT !.status = "extension", !.feature = "aitp-self-attestation", !.required = Absent]

Operations ==
  { Core,
    [Core EXCEPT !.required = Absent, !.supported = FALSE],
    [Core EXCEPT !.required = FALSE, !.minted = "refused"],
    [Core EXCEPT !.status = Absent, !.required = Absent, !.verdict = "E1",
                 !.expected = Expect("failure", "E1", Absent)],
    [Core EXCEPT !.verdict = "E1", !.expected = Expect("failure", "E2", Absent)],
    [Core EXCEPT !.verdict = "crash"],
    [Core EXCEPT !.minted = "crash"],
    SelfAttested,
    [SelfAttested EXCEPT !.fields = FALSE],
    [SelfAttested EXCEPT !.minted = "refused"],
    [Core EXCEPT !.status = "draft", !.feature = "aitp-pinned-admission"],
    [Core EXCEPT !.status = "reserved", !.verdict = "crash"],
    [Core EXCEPT !.fixture = FALSE] }

Step(operation, mid, expected) ==
  [operation |-> operation, message_id |-> mid, expected |-> expected]

Success == Expect("success", Absent, Absent)
Message(expected) == Step("process_handshake_message", "m", expected)
Withhold == Step("withhold_pop_response", Absent,
                 Expect("failure", "POP_RESPONSE_INVALID", [capability_authorized |-> FALSE]))
Challenge(out) == Step("expect_pop_challenge_issued", Absent,
                       Expect("success", Absent, [pop_challenge_issued |-> out]))
Do(operation) == Step(operation, Absent, Success)

Scripts ==
  { << Message(Success), Message(Expect("failure", "REPLAY_DETECTED", Absent)) >>,
    << Message(Success), Message(Success) >>,
    << Do("authorize_capability_invocation"), Challenge(TRUE), Withhold >>,
    << Challenge(FALSE) >>,
    << Do("issue_pop_challenge"), Do("produce_pop_response"), Do("verify_pop_response") >>,
    << Do("produce_pop_response") >>,
    << Do("unknown") >> }

MarkedScripts ==
  {[Core EXCEPT !.sequence = s, !.marked = m] : s \in Scripts, m \in BOOLEAN}

Files == Operations \cup MarkedScripts

Named(f, id) == [m \in DOMAIN f \cup {"id"} |-> IF m = "id" THEN id ELSE f[m]]

MCPacks ==
  {<<Named(f, "f1")>> : f \in Files} \cup {<<Named(f, "f1"), Named(g, "f2")>> : f, g \in Files}

MCOptions ==
  { o \in [claim : DOMAIN CLAIMS, only : {Absent, {"f1"}}, report : BOOLEAN, min_passed : {Absent, 1}] :
      o.min_passed = Absent \/ o.claim = CORE_CLAIM }
MCSupported == {"experimental-session-bundle", "aitp-self-attestation"}

=============================================================================
