--------------------------- MODULE Authentication ---------------------------
(***************************************************************************)
(* What a Verifier promises its callers, whatever its data sources answer: *)
(* a request ends with the header it asked for, committed to by the        *)
(* canonical chain under the AuthPath it is labelled with, or with an      *)
(* error.  How sources are tried and proofs checked is not described.      *)
(***************************************************************************)
EXTENDS CanonicalChain

CONSTANTS Callers,   \* tasks that hold a clone of the Verifier
          Requests,  \* what they may ask for
          Headers    \* headers that may reach the Verifier

VARIABLES mode,    \* "closed" until the Verifier is built, then whether the
                   \* fingerprint check guarded its construction
          status   \* the calls in progress

authVars == <<mode, status>>

Nothing == [tag |-> "Nothing"]

Ok(header, path) == [tag |-> "Ok", header |-> header, path |-> path]
Outcomes == {[tag |-> "Err"], [tag |-> "Panic"]}
              \cup {Ok(h, p) : h \in Headers, p \in AuthPaths}

Matches(request, header) ==
  IF request.by = "number" THEN header.number = request.number
                           ELSE header = request.header

Legitimate(request, outcome) ==
  outcome.tag = "Ok" =>
    /\ Matches(request, outcome.header)
    /\ mode = "guarded" => CanonicalIn(outcome.path, outcome.header)

Idle == [stage |-> "idle", request |-> Nothing, outcome |-> Nothing]

AuthInit == /\ mode = "closed"
            /\ status = [c \in Callers |-> Idle]

Open(m) == /\ mode = "closed"
           /\ mode' = m
           /\ UNCHANGED status

Begin(c, r) ==
  /\ mode \in {"guarded", "unguarded"}
  /\ status[c] = Idle
  /\ status' = [status EXCEPT ![c] = [stage |-> "running", request |-> r, outcome |-> Nothing]]
  /\ UNCHANGED mode

(* A call that never waits ends in the step that begins it. *)
Settle(c, r, o) ==
  /\ mode \in {"guarded", "unguarded"}
  /\ \/ status[c] = Idle
     \/ status[c].stage = "running" /\ status[c].request = r
  /\ Legitimate(r, o)
  /\ status' = [status EXCEPT ![c] = [stage |-> "done", request |-> r, outcome |-> o]]
  /\ UNCHANGED mode

Collect(c) ==
  /\ status[c].stage = "done"
  /\ status' = [status EXCEPT ![c] = Idle]
  /\ UNCHANGED mode

AuthNext ==
  \/ \E m \in {"guarded", "unguarded", "aborted"} : Open(m)
  \/ \E c \in Callers :
       \/ \E r \in Requests : Begin(c, r) \/ \E o \in Outcomes : Settle(c, r, o)
       \/ Collect(c)

AuthSpec == AuthInit /\ [][AuthNext]_authVars

=============================================================================
