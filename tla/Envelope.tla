------------------------------ MODULE Envelope ------------------------------
(***************************************************************************)
(* Message envelopes (envelope.py): the shape every envelope must have and *)
(* the operation verify_envelope.  An envelope is a record with            *)
(*   version, message_type, message_id, timestamp, sender, signer          *)
(*   defects   a subset of EnvelopeDefects                                 *)
(* besides what its payload says.                                          *)
(***************************************************************************)
EXTENDS Jws

EnvelopeDefects ==
  { "object",          \* no object at all
    "timestamp",       \* the timestamp missing or mistyped
    "float_timestamp", \* a float like 1.0: no int of Python, but JSON's integer
    "shape",           \* another member missing or mistyped
    "unknown_member",
    "grammar",         \* a negative timestamp, a signature out of its pattern,
                       \* a sender without a string agent_id
    "unknown_sender_member",
    "signature_form",  \* a signature whose tag is not the sender's algorithm
    "uncanonical" }    \* a value that jcs refuses with a JcsError

validate_envelope_shape(env) ==
  FirstError(<< Check("object" \notin env.defects, "INVALID_ENVELOPE"),
                Check(env.version = PROTOCOL_VERSION, "UNKNOWN_VERSION"),
                Check({"timestamp", "shape"} \cap env.defects = {}, "INVALID_ENVELOPE"),
                Check("unknown_member" \notin env.defects, "UNKNOWN_FIELD"),
                Check("grammar" \notin env.defects, "INVALID_ENVELOPE"),
                Check("unknown_sender_member" \notin env.defects, "UNKNOWN_FIELD") >>)

verify_signature(env) ==
  FirstError(<< Check("signature_form" \notin env.defects, "INVALID_SIGNATURE"),
                Check("uncanonical" \notin env.defects, "INVALID_ENVELOPE"),
                Check(SignedBy(env, env.sender), "INVALID_SIGNATURE") >>)

within(tolerance, t, now) == now - t <= tolerance /\ t - now <= tolerance

\* The window is tested first, before the shape, on what Python calls an int.
verify_envelope(env, tolerance, now) ==
  FirstError(<<
    Check({"object", "timestamp", "float_timestamp"} \cap env.defects = {}
            => within(tolerance, env.timestamp, now), "TIMESTAMP_EXPIRED"),
    validate_envelope_shape(env),
    Check(env.sender \in Aid, "INVALID_ENVELOPE"),
    verify_signature(env) >>)

(***************************************************************************)
(* The operation also takes inputs that name no envelope: a key nobody     *)
(* could fetch, and a capability to be looked up in an active TCT.  With   *)
(* either the envelope is not looked at.  `inp` is [unresolvable, active,  *)
(* capability, envelope, tolerance], Absent when not given.                *)
(***************************************************************************)
verify_envelope_input(inp, now) ==
  IF inp.unresolvable THEN "KEY_RESOLUTION_FAILED"
  ELSE IF inp.active # Absent /\ inp.capability # Absent
  THEN FirstError(<< parse_compact(inp.active, "INVALID_SIGNATURE"),
                     Check(inp.capability \in inp.active.grants, "POLICY_VIOLATION") >>)
  ELSE verify_envelope(inp.envelope, inp.tolerance, now)

=============================================================================
