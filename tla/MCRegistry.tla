----------------------------- MODULE MCRegistry -----------------------------
(***************************************************************************)
(* Instances of Registry for TLC.  c1 and c2 belong to the same device, so *)
(* that one can replace the other; c3 belongs to a second device, so that  *)
(* the monitor and close() visit more than one entry.                      *)
(*                                                                         *)
(* A scope is a CONSTRAINT: a behaviour that leaves it is followed no      *)
(* further.  What each one leaves out is said beside it.                   *)
(***************************************************************************)
EXTENDS Registry, TLC

CONSTANTS d1, d2, c1, c2, c3, k1, k2

OneDevice == {d1}
TwoDevices == {d1, d2}
OneConn == {c1}
TwoConns == {c1, c2}
ThreeConns == {c1, c2, c3}
NoCalls == {}
OneCall == {k1}
TwoCalls == {k1, k2}

MCDeviceOf == [c \in Conn |-> IF c = c3 THEN d2 ELSE d1]
MCTarget == [k \in Call |-> d1]

CallsIdle == \A k \in Call : cpc[k] = "idle"
SameProcess == stopping = "no" /\ restarts = 0
Unused(c) == hpc[c] \in {"new", "closed"}

-----------------------------------------------------------------------------
(* The scope of the safety run.                                            *)

\* The second device is there to be a second entry: its connection is
\* published, served, lost, expired and closed; messages, cancellation and
\* revocation are those of the first device.
SecondDevice ==
    row[d2] # "REVOKED" /\ c3 \notin cancelled /\ hpc[c3] \notin {"touched", "abandoning"}

\* The process started after a crash or a shutdown serves the connections of
\* the first device, and none if a call was lost with the process before.
SecondProcess ==
    restarts > 0 => Unused(c3) /\ (CallsIdle \/ \A c \in Conn : Unused(c))

\* A call is issued while the second device is away and no transaction fails;
\* its device is not both revoked and shut down.
CallScope ==
    /\ hpc[c3] = "new" /\ row[d2] = "OFFLINE" /\ faults = 0
    /\ row[d1] = "REVOKED" => SameProcess

SafetyScope == SecondDevice /\ SecondProcess /\ (CallsIdle \/ CallScope)

\* Sound for the safety runs: DeviceOf does not tell c1 from c2.
SameDevice == Permutations({c1, c2})

-----------------------------------------------------------------------------
(* The scope of the liveness run, of one device and its two connections.   *)
(* None of the steps it leaves out is one that Fairness compels, but for   *)
(* what follows a call that has returned among two connections.            *)

\* c1 is the first to be used, and before anything of the process's end: what
\* is left out is the same with c1 and c2 exchanged, or has no connection.
FirstConn == hpc[c1] = "new" => hpc[c2] = "new" /\ SameProcess

\* A call over one connection: a shutdown under way, a failed transaction or a
\* revocation, but not the last two together, and no second process.
OverOne ==
    /\ hpc[c2] = "new" /\ restarts = 0
    /\ faults = 0 \/ row[d1] # "REVOKED"

\* A call that meets a replacement, until it returns: expiry, transports that
\* fail and the caller's cancellation, but no failed transaction, revocation,
\* shutdown, cancelled handler or heartbeat.
AcrossTwo ==
    /\ SameProcess /\ faults = 0 /\ row[d1] # "REVOKED" /\ cancelled = {}
    /\ \A c \in Conn :
        hpc[c] # "abandoning" /\ ~(hpc[c] = "touched" /\ msg[c] = "ping")
    /\ \A k \in Call : cpc[k] # "done"

LiveScope == FirstConn /\ (CallsIdle \/ OverOne \/ AcrossTwo)

=============================================================================
