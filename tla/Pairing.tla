------------------------------ MODULE Pairing ------------------------------
(***************************************************************************)
(* Pairing (gateway/pairing.py, pairing_api.py, the pairing rows of        *)
(* persistence/repositories.py) between the CLI that creates codes, in a   *)
(* process of its own, the Gateway, and the Agents that redeem them        *)
(* (agent/client.py).                                                      *)
(*                                                                         *)
(* A redemption is one POST /api/v1/pair.  Its transaction begins with a   *)
(* write and so holds SQLite's writer lock until it ends, over the         *)
(* memory-hard verification, which runs in a thread: everything that does  *)
(* not write goes on meanwhile.  Nothing it does is seen before it         *)
(* commits, and all of it is undone if it does not.                        *)
(*                                                                         *)
(* A code is its locator and its secret: a wrong guess is another code     *)
(* with the same locator.  A guess that is not a code at all takes the     *)
(* place of a wrong one, or of one whose locator nobody was offered.       *)
(***************************************************************************)
EXTENDS Integers, FiniteSets

CONSTANTS
    Code, Locator,
    LocatorOf,      \* the public part of each code
    Redemption,
    None,           \* nothing, nobody
    Ttl, MaxAttempts,
    MaxTime         \* bound: ticks of the clock

ASSUME PairingAssumption ==
    /\ LocatorOf \in [Code -> Locator]
    /\ None \notin Code \cup Redemption
    /\ Ttl \in Nat \ {0} /\ MaxAttempts \in Nat \ {0} /\ MaxTime \in Nat

VARIABLES
    codes,      \* the pairing_codes table
    devices,    \* the devices table: the redemptions that added a row
    writer,     \* the redemption that holds the writer lock
    clock,
    rpc,        \* where a redemption stands
    guess,      \* the code it presents
    stamp,      \* the `now` it read last
    found,      \* the code whose row its attempt was spent on
    reply,      \* what the Gateway answers
    saved       \* the redemptions whose Agent has stored its credential

tableVars == <<codes, devices>>
redemptionVars == <<rpc, guess, stamp, found, reply>>
vars == <<tableVars, writer, clock, redemptionVars, saved>>

NoRow == [offered |-> FALSE, expires |-> 0, attempts |-> 0, usedAt |-> 0, redeemer |-> None]

-----------------------------------------------------------------------------
(* A definition marked "fault:" is a seeded mistake that a property must    *)
(* reject; no action uses it.                                              *)

\* fault: a code that was redeemed can be tried again
AvailableAgain(c, now) ==
    codes[c].offered /\ codes[c].expires > now /\ codes[c].attempts < MaxAttempts
\* fault: the limit itself still admits an attempt
AvailableAtLimit(c, now) ==
    /\ codes[c].offered /\ codes[c].expires > now
    /\ codes[c].redeemer = None /\ codes[c].attempts <= MaxAttempts
\* The WHERE of begin_attempt, but for the locator.
Available(c, now) ==
    /\ codes[c].offered /\ codes[c].expires > now
    /\ codes[c].redeemer = None /\ codes[c].attempts < MaxAttempts

\* fault: the expiry is checked before the verification only
ExpiryUnchecked(c, now) == TRUE
\* "A code can expire while its memory-hard verification is running."
StillValid(c, now) == codes[c].expires > now

\* fault: the refusal is raised inside the transaction, which undoes the attempt
SpentIfRight(r) == IF reply[r] = "credential" THEN 1 ELSE 0
\* "Raise only after commit, so incorrect guesses actually consume attempts."
Spent(r) == 1

Answers(r, answer, place) ==
    /\ reply' = [reply EXCEPT ![r] = answer]
    /\ rpc' = [rpc EXCEPT ![r] = place]

-----------------------------------------------------------------------------
\* add_unique_locator: no offer ever made has the code's locator.
LocatorFree(c) ==
    \A other \in Code : codes[other].offered => LocatorOf[other] # LocatorOf[c]

\* `pairing create`: the offer is inserted unless its locator is taken, when
\* another code is drawn.  It may have read the clock before it got the lock.
CreateCode(c) ==
    /\ writer = None /\ LocatorFree(c)
    /\ \E now \in 0..clock :
         codes' = [codes EXCEPT ![c] =
                     [offered |-> TRUE, expires |-> now + Ttl, attempts |-> 0,
                      usedAt |-> 0, redeemer |-> None]]
    /\ UNCHANGED <<devices, writer, clock, redemptionVars, saved>>

\* A request arrives and reads the clock.
Arrive(r) ==
    /\ rpc[r] = "idle"
    /\ \E c \in Code : guess' = [guess EXCEPT ![r] = c]
    /\ rpc' = [rpc EXCEPT ![r] = "waiting"]
    /\ stamp' = [stamp EXCEPT ![r] = clock]
    /\ UNCHANGED <<tableVars, writer, clock, found, reply, saved>>

\* begin_attempt gets the writer lock; if it finds no row, the transaction
\* ends with nothing done.
BeginAttempt(r) ==
    /\ rpc[r] = "waiting" /\ writer = None
    /\ \/ \E c \in Code :
            /\ LocatorOf[c] = LocatorOf[guess[r]] /\ Available(c, stamp[r])
            /\ found' = [found EXCEPT ![r] = c]
            /\ rpc' = [rpc EXCEPT ![r] = "verifying"]
            /\ writer' = r /\ UNCHANGED reply
       \/ /\ ~\E c \in Code :
                LocatorOf[c] = LocatorOf[guess[r]] /\ Available(c, stamp[r])
          /\ Answers(r, "invalid", "answered")
          /\ UNCHANGED <<found, writer>>
    /\ UNCHANGED <<tableVars, clock, guess, stamp, saved>>

\* The verification ends, and the clock is read again.
Verify(r) ==
    /\ rpc[r] = "verifying"
    /\ stamp' = [stamp EXCEPT ![r] = clock]
    /\ Answers(r, IF found[r] = guess[r] /\ StillValid(found[r], clock)
                  THEN "credential" ELSE "invalid", "committing")
    /\ UNCHANGED <<tableVars, writer, clock, guess, found, saved>>

\* A row that has taken a guess.
After(row, spent, usedAt, redeemer) ==
    [offered |-> row.offered, expires |-> row.expires, attempts |-> row.attempts + spent,
     usedAt |-> usedAt, redeemer |-> redeemer]

\* The attempt is committed, and with a right guess the device and its code's
\* redemption.
Commit(r) ==
    LET c == found[r] IN
    /\ rpc[r] = "committing"
    /\ \/ /\ reply[r] = "credential"
          /\ codes' = [codes EXCEPT ![c] = After(@, Spent(r), stamp[r], r)]
          /\ devices' = devices \cup {r}
       \/ /\ reply[r] # "credential"
          /\ codes' = [codes EXCEPT ![c] = After(@, Spent(r), @.usedAt, @.redeemer)]
          /\ UNCHANGED devices
    /\ writer' = None /\ rpc' = [rpc EXCEPT ![r] = "answered"]
    /\ UNCHANGED <<clock, guess, stamp, found, reply, saved>>

\* The lock is not had in time, the transaction fails, or the task is
\* cancelled: what it did is undone.
Fail(r) ==
    /\ rpc[r] \in {"waiting", "verifying", "committing"}
    /\ Answers(r, "none", "done")
    /\ writer' = IF writer = r THEN None ELSE writer
    /\ UNCHANGED <<tableVars, clock, guess, stamp, found, saved>>

\* The answer reaches the Agent, which stores its credential; or it is lost,
\* the Agent has given up or cannot store it.
Deliver(r) ==
    /\ rpc[r] = "answered" /\ rpc' = [rpc EXCEPT ![r] = "done"]
    /\ \/ reply[r] = "credential" /\ saved' = saved \cup {r}
       \/ UNCHANGED saved
    /\ UNCHANGED <<tableVars, writer, clock, guess, stamp, found, reply>>

\* The Gateway ends, with every request, and is started again.
Crash ==
    /\ \E r \in Redemption : rpc[r] \notin {"idle", "done"}
    /\ rpc' = [r \in Redemption |-> IF rpc[r] = "idle" THEN "idle" ELSE "done"]
    /\ reply' = [r \in Redemption |-> IF rpc[r] = "committing" THEN "none" ELSE reply[r]]
    /\ writer' = None
    /\ UNCHANGED <<tableVars, clock, guess, stamp, found, saved>>

Tick ==
    /\ clock < MaxTime /\ clock' = clock + 1
    /\ UNCHANGED <<tableVars, writer, redemptionVars, saved>>

-----------------------------------------------------------------------------
Init ==
    /\ codes = [c \in Code |-> NoRow] /\ devices = {} /\ writer = None /\ clock = 0
    /\ rpc = [r \in Redemption |-> "idle"] /\ guess = [r \in Redemption |-> None]
    /\ stamp = [r \in Redemption |-> 0] /\ found = [r \in Redemption |-> None]
    /\ reply = [r \in Redemption |-> "none"] /\ saved = {}

RedemptionStep(r) ==
    \/ Arrive(r) \/ BeginAttempt(r) \/ Verify(r) \/ Commit(r) \/ Fail(r) \/ Deliver(r)

Next ==
    \/ \E c \in Code : CreateCode(c)
    \/ \E r \in Redemption : RedemptionStep(r)
    \/ Crash \/ Tick

Spec == Init /\ [][Next]_vars

-----------------------------------------------------------------------------
(* Properties.                                                             *)

RowTypes ==
    [offered : BOOLEAN, expires : Nat, attempts : 0..MaxAttempts, usedAt : Nat,
     redeemer : Redemption \cup {None}]

\* Every variable has its type; no code takes more attempts than its limit.
TypeOK ==
    /\ codes \in [Code -> RowTypes] /\ devices \in SUBSET Redemption
    /\ writer \in Redemption \cup {None} /\ clock \in Nat
    /\ rpc \in [Redemption -> {"idle", "waiting", "verifying", "committing", "answered", "done"}]
    /\ guess \in [Redemption -> Code \cup {None}] /\ stamp \in [Redemption -> Nat]
    /\ found \in [Redemption -> Code \cup {None}]
    /\ reply \in [Redemption -> {"none", "invalid", "credential"}]
    /\ saved \in SUBSET Redemption

\* The writer lock: who holds it, and what it keeps from changing meanwhile.
WriterWorks ==
    \A r \in Redemption :
        /\ rpc[r] \in {"verifying", "committing"} => writer = r
        /\ writer = r => /\ rpc[r] \in {"verifying", "committing"}
                         /\ found[r] \in Code /\ codes[found[r]].offered
                         /\ codes[found[r]].redeemer = None
                         /\ codes[found[r]].attempts < MaxAttempts
        /\ rpc[r] \in {"idle", "waiting"} => found[r] = None
        /\ rpc[r] \in {"idle", "waiting", "verifying"} => reply[r] = "none"
        /\ rpc[r] = "committing" => reply[r] # "none"
        /\ (rpc[r] = "committing" /\ reply[r] = "credential") =>
              found[r] = guess[r] /\ stamp[r] < codes[found[r]].expires

\* The redemptions that were told about a code of which they spent an attempt.
Told(c) ==
    {r \in Redemption : found[r] = c /\ reply[r] # "none" /\ rpc[r] \in {"answered", "done"}}

\* No answer is free: whoever is told whether a guess was right has spent one of
\* the code's attempts, though the answer comes after the transaction and
\* transactions fail, are cancelled and die with the process.
GuessesArePaid == \A c \in Code : Cardinality(Told(c)) <= codes[c].attempts

\* A credential is issued only to a redemption that presented the code itself
\* and was verified before the code expired, however long that took, and only
\* when its device is in the database; an Agent stores no other.
CredentialIsEarned ==
    \A r \in Redemption :
        /\ (rpc[r] \in {"answered", "done"} /\ reply[r] = "credential") => r \in devices
        /\ r \in saved => r \in devices
        /\ r \in devices =>
              found[r] = guess[r] /\ codes[guess[r]].usedAt < codes[guess[r]].expires

\* A code keeps its promise: limited attempts, and at most one device.
Offered == INSTANCE Voucher WITH
    Bearer <- Redemption, Max <- MaxAttempts,
    offered <- {c \in Code : codes[c].offered},
    tries <- [c \in Code |-> codes[c].attempts],
    bearers <- [c \in Code |-> {r \in devices : guess[r] = c}]

ImplementsVoucher == Offered!Spec

\* A device is in the database exactly as its code's row says, and no row is
\* written before its code is offered: the inductive part of ImplementsVoucher.
DevicesAreRedeemers ==
    /\ \A r \in devices :
          /\ guess[r] \in Code /\ codes[guess[r]].redeemer = r
          /\ rpc[r] \in {"answered", "done"}
    /\ \A c \in Code : codes[c].redeemer # None =>
          codes[c].redeemer \in devices /\ codes[c].offered
    /\ \A c \in Code : ~codes[c].offered => codes[c].attempts = 0

IInv == TypeOK /\ WriterWorks /\ DevicesAreRedeemers /\ CredentialIsEarned

=============================================================================
