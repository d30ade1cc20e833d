--------------------------- MODULE PairingProofs ---------------------------
(***************************************************************************)
(* Proofs about Pairing, for any codes, locators and redemptions, any      *)
(* duration and any limit of attempts.  The argument is the writer lock:   *)
(* from the attempt to the commit no other transaction writes, so what     *)
(* begin_attempt found of the code still holds when it is redeemed.        *)
(***************************************************************************)
EXTENDS Pairing, FiniteSetTheorems, TLAPS

\* Every step keeps the types; an attempt is added only below the limit.
LEMMA TypeStep ==
    ASSUME TypeOK, WriterWorks, [Next]_vars
    PROVE  TypeOK'
<1> USE PairingAssumption
<1>1. ASSUME NEW c \in Code, CreateCode(c)
       PROVE  TypeOK'
  BY <1>1 DEF CreateCode, LocatorFree, redemptionVars, TypeOK, RowTypes
<1>2. ASSUME NEW r \in Redemption, Arrive(r)
       PROVE  TypeOK'
  BY <1>2 DEF Arrive, tableVars, TypeOK, RowTypes
<1>3. ASSUME NEW r \in Redemption, BeginAttempt(r)
       PROVE  TypeOK'
  <2>1. found' \in [Redemption -> Code \cup {None}]
    BY <1>3 DEF BeginAttempt, TypeOK
  <2>2. writer' \in Redemption \cup {None}
    BY <1>3 DEF BeginAttempt, TypeOK
  <2>3. /\ rpc' \in [Redemption -> {"idle", "waiting", "verifying", "committing",
                                    "answered", "done"}]
        /\ reply' \in [Redemption -> {"none", "invalid", "credential"}]
    BY <1>3 DEF BeginAttempt, Answers, TypeOK
  <2>4. QED
    BY <1>3, <2>1, <2>2, <2>3 DEF BeginAttempt, tableVars, TypeOK
<1>4. ASSUME NEW r \in Redemption, Verify(r)
       PROVE  TypeOK'
  BY <1>4 DEF Verify, Answers, StillValid, tableVars, TypeOK, RowTypes
<1>5. ASSUME NEW r \in Redemption, Commit(r)
       PROVE  TypeOK'
  <2>1. PICK c \in Code : c = found[r] /\ codes[c].attempts < MaxAttempts
    BY <1>5 DEF Commit, WriterWorks
  <2>2. codes' \in [Code -> RowTypes]
    <3>1. codes[c] \in RowTypes
      BY DEF TypeOK
    <3>2. codes[c].attempts + 1 \in 0..MaxAttempts
      BY <2>1, <3>1 DEF RowTypes
    <3>3. stamp[r] \in Nat
      BY DEF TypeOK
    <3>4. /\ After(codes[c], 1, stamp[r], r) \in RowTypes
          /\ After(codes[c], 1, codes[c].usedAt, codes[c].redeemer) \in RowTypes
      BY <3>1, <3>2, <3>3 DEF After, RowTypes
    <3>5. CASE reply[r] = "credential"
      <4>1. codes' = [codes EXCEPT ![c] = After(codes[c], 1, stamp[r], r)]
        BY <1>5, <2>1, <3>5 DEF Commit, Spent
      <4>2. QED
        BY <3>4, <4>1 DEF TypeOK
    <3>6. CASE reply[r] # "credential"
      <4>1. codes' = [codes EXCEPT ![c] = After(codes[c], 1, codes[c].usedAt, codes[c].redeemer)]
        BY <1>5, <2>1, <3>6 DEF Commit, Spent
      <4>2. QED
        BY <3>4, <4>1 DEF TypeOK
    <3>7. QED
      BY <3>5, <3>6
  <2>3. QED
    BY <1>5, <2>2 DEF Commit, TypeOK
<1>6. ASSUME NEW r \in Redemption, Fail(r)
       PROVE  TypeOK'
  BY <1>6 DEF Fail, Answers, tableVars, TypeOK, RowTypes
<1>7. ASSUME NEW r \in Redemption, Deliver(r)
       PROVE  TypeOK'
  BY <1>7 DEF Deliver, tableVars, TypeOK, RowTypes
<1>8. ASSUME Crash
       PROVE  TypeOK'
  BY <1>8 DEF Crash, tableVars, TypeOK, RowTypes
<1>9. ASSUME Tick
       PROVE  TypeOK'
  BY <1>9 DEF Tick, tableVars, redemptionVars, TypeOK, RowTypes
<1>10. ASSUME UNCHANGED vars
       PROVE  TypeOK'
  BY <1>10 DEF vars, tableVars, redemptionVars, TypeOK, RowTypes
<1>11. QED
  BY <1>1, <1>2, <1>3, <1>4, <1>5, <1>6, <1>7, <1>8, <1>9, <1>10 DEF Next,
      RedemptionStep

\* Whoever holds the writer lock keeps it, and its code as it found it, until its
\* transaction ends.
LEMMA WriterStep ==
    ASSUME TypeOK, WriterWorks, [Next]_vars
    PROVE  WriterWorks'
<1> USE PairingAssumption
<1>1. ASSUME NEW c \in Code, CreateCode(c)
       PROVE  WriterWorks'
  BY <1>1 DEF CreateCode, LocatorFree, redemptionVars, WriterWorks, TypeOK, RowTypes
<1>2. ASSUME NEW r \in Redemption, Arrive(r)
       PROVE  WriterWorks'
  BY <1>2 DEF Arrive, tableVars, WriterWorks, TypeOK, RowTypes
<1>3. ASSUME NEW r \in Redemption, BeginAttempt(r)
       PROVE  WriterWorks'
  BY <1>3 DEF BeginAttempt, Answers, Available, tableVars, WriterWorks,
      TypeOK, RowTypes
<1>4. ASSUME NEW r \in Redemption, Verify(r)
       PROVE  WriterWorks'
  BY <1>4 DEF Verify, Answers, StillValid, tableVars, WriterWorks, TypeOK,
      RowTypes
<1>5. ASSUME NEW r \in Redemption, Commit(r)
       PROVE  WriterWorks'
  BY <1>5 DEF Commit, After, Spent, WriterWorks, TypeOK, RowTypes
<1>6. ASSUME NEW r \in Redemption, Fail(r)
       PROVE  WriterWorks'
  BY <1>6 DEF Fail, Answers, tableVars, WriterWorks, TypeOK, RowTypes
<1>7. ASSUME NEW r \in Redemption, Deliver(r)
       PROVE  WriterWorks'
  BY <1>7 DEF Deliver, tableVars, WriterWorks, TypeOK, RowTypes
<1>8. ASSUME Crash
       PROVE  WriterWorks'
  BY <1>8 DEF Crash, tableVars, WriterWorks, TypeOK, RowTypes
<1>9. ASSUME Tick
       PROVE  WriterWorks'
  BY <1>9 DEF Tick, tableVars, redemptionVars, WriterWorks, TypeOK, RowTypes
<1>10. ASSUME UNCHANGED vars
       PROVE  WriterWorks'
  BY <1>10 DEF vars, tableVars, redemptionVars, WriterWorks, TypeOK,
      RowTypes
<1>11. QED
  BY <1>1, <1>2, <1>3, <1>4, <1>5, <1>6, <1>7, <1>8, <1>9, <1>10 DEF Next,
      RedemptionStep

\* A device and its code's redeemer are written together.
LEMMA RedeemerStep ==
    ASSUME TypeOK, WriterWorks, DevicesAreRedeemers, [Next]_vars
    PROVE  DevicesAreRedeemers'
<1> USE PairingAssumption
<1>1. ASSUME NEW c \in Code, CreateCode(c)
       PROVE  DevicesAreRedeemers'
  BY <1>1 DEF CreateCode, LocatorFree, redemptionVars, WriterWorks, DevicesAreRedeemers,
      TypeOK, RowTypes
<1>2. ASSUME NEW r \in Redemption, Arrive(r)
       PROVE  DevicesAreRedeemers'
  BY <1>2 DEF Arrive, tableVars, WriterWorks, DevicesAreRedeemers, TypeOK,
      RowTypes
<1>3. ASSUME NEW r \in Redemption, BeginAttempt(r)
       PROVE  DevicesAreRedeemers'
  BY <1>3 DEF BeginAttempt, Answers, Available, tableVars, WriterWorks,
      DevicesAreRedeemers, TypeOK, RowTypes
<1>4. ASSUME NEW r \in Redemption, Verify(r)
       PROVE  DevicesAreRedeemers'
  BY <1>4 DEF Verify, Answers, StillValid, tableVars, WriterWorks,
      DevicesAreRedeemers, TypeOK, RowTypes
<1>5. ASSUME NEW r \in Redemption, Commit(r)
       PROVE  DevicesAreRedeemers'
  <2>1. PICK c \in Code : /\ c = found[r] /\ codes[c].offered
                          /\ codes[c].redeemer = None
    BY <1>5 DEF Commit, WriterWorks
  <2>2. r \notin devices
    BY <1>5 DEF Commit, DevicesAreRedeemers
  <2>3. \A d \in Code \ {c} : codes'[d] = codes[d]
    BY <1>5, <2>1 DEF Commit, TypeOK
  <2>4. codes'[c].offered
    BY <1>5, <2>1 DEF Commit, After, TypeOK
  <2>5. /\ UNCHANGED guess /\ rpc'[r] = "answered"
        /\ \A p \in Redemption \ {r} : rpc'[p] = rpc[p]
    BY <1>5 DEF Commit, TypeOK
  <2>6. CASE reply[r] = "credential"
    <3>1. codes'[c].redeemer = r /\ devices' = devices \cup {r} /\ guess[r] = c
      BY <1>5, <2>1, <2>6 DEF Commit, After, TypeOK, WriterWorks
    <3>2. \A p \in devices : guess[p] # c
      BY <2>1 DEF DevicesAreRedeemers, TypeOK
    <3>3. QED
      BY <2>1, <2>3, <2>4, <2>5, <3>1, <3>2 DEF DevicesAreRedeemers, TypeOK
  <2>7. CASE reply[r] # "credential"
    <3>1. codes'[c].redeemer = None /\ UNCHANGED devices
      BY <1>5, <2>1, <2>7 DEF Commit, After, TypeOK
    <3>2. QED
      BY <2>1, <2>2, <2>3, <2>4, <2>5, <3>1 DEF DevicesAreRedeemers, TypeOK
  <2>8. QED
    BY <2>6, <2>7
<1>6. ASSUME NEW r \in Redemption, Fail(r)
       PROVE  DevicesAreRedeemers'
  BY <1>6 DEF Fail, Answers, tableVars, WriterWorks, DevicesAreRedeemers,
      TypeOK, RowTypes
<1>7. ASSUME NEW r \in Redemption, Deliver(r)
       PROVE  DevicesAreRedeemers'
  BY <1>7 DEF Deliver, tableVars, WriterWorks, DevicesAreRedeemers, TypeOK,
      RowTypes
<1>8. ASSUME Crash
       PROVE  DevicesAreRedeemers'
  BY <1>8 DEF Crash, tableVars, WriterWorks, DevicesAreRedeemers, TypeOK,
      RowTypes
<1>9. ASSUME Tick
       PROVE  DevicesAreRedeemers'
  BY <1>9 DEF Tick, tableVars, redemptionVars, WriterWorks,
      DevicesAreRedeemers, TypeOK, RowTypes
<1>10. ASSUME UNCHANGED vars
       PROVE  DevicesAreRedeemers'
  BY <1>10 DEF vars, tableVars, redemptionVars, WriterWorks,
      DevicesAreRedeemers, TypeOK, RowTypes
<1>11. QED
  BY <1>1, <1>2, <1>3, <1>4, <1>5, <1>6, <1>7, <1>8, <1>9, <1>10 DEF Next,
      RedemptionStep

\* A credential goes on being earned: nobody writes the row of a redeemed code.
LEMMA EarnedStep ==
    ASSUME TypeOK, WriterWorks, DevicesAreRedeemers, CredentialIsEarned, [Next]_vars
    PROVE  CredentialIsEarned'
<1> USE PairingAssumption
<1>1. ASSUME NEW c \in Code, CreateCode(c)
       PROVE  CredentialIsEarned'
  BY <1>1 DEF CreateCode, LocatorFree, redemptionVars, WriterWorks, DevicesAreRedeemers,
      CredentialIsEarned, TypeOK, RowTypes
<1>2. ASSUME NEW r \in Redemption, Arrive(r)
       PROVE  CredentialIsEarned'
  BY <1>2 DEF Arrive, tableVars, WriterWorks, DevicesAreRedeemers,
      CredentialIsEarned, TypeOK, RowTypes
<1>3. ASSUME NEW r \in Redemption, BeginAttempt(r)
       PROVE  CredentialIsEarned'
  BY <1>3 DEF BeginAttempt, Answers, Available, tableVars, WriterWorks,
      DevicesAreRedeemers, CredentialIsEarned, TypeOK, RowTypes
<1>4. ASSUME NEW r \in Redemption, Verify(r)
       PROVE  CredentialIsEarned'
  BY <1>4 DEF Verify, Answers, StillValid, tableVars, WriterWorks,
      DevicesAreRedeemers, CredentialIsEarned, TypeOK, RowTypes
<1>5. ASSUME NEW r \in Redemption, Commit(r)
       PROVE  CredentialIsEarned'
  <2>1. PICK c \in Code : c = found[r] /\ codes[c].redeemer = None
    BY <1>5 DEF Commit, WriterWorks
  <2>2. \A d \in Code \ {c} : codes'[d] = codes[d]
    BY <1>5, <2>1 DEF Commit, TypeOK
  <2>3. codes'[c].expires = codes[c].expires
    BY <1>5, <2>1 DEF Commit, After, TypeOK
  <2>4. /\ UNCHANGED <<guess, found, reply, saved>> /\ rpc'[r] = "answered"
        /\ \A p \in Redemption \ {r} : rpc'[p] = rpc[p]
    BY <1>5 DEF Commit, TypeOK
  <2>5. \A p \in devices : guess[p] \in Code \ {c}
    BY <2>1 DEF DevicesAreRedeemers, TypeOK
  <2>6. CASE reply[r] = "credential"
    <3>1. codes'[c].usedAt = stamp[r] /\ devices' = devices \cup {r}
      BY <1>5, <2>1, <2>6 DEF Commit, After, TypeOK
    <3>2. guess[r] = c /\ stamp[r] < codes[c].expires
      BY <1>5, <2>1, <2>6 DEF Commit, WriterWorks
    <3>3. QED
      BY <2>1, <2>2, <2>3, <2>4, <2>5, <3>1, <3>2 DEF CredentialIsEarned, TypeOK
  <2>7. CASE reply[r] # "credential"
    <3>1. UNCHANGED devices
      BY <1>5, <2>7 DEF Commit
    <3>2. QED
      BY <2>2, <2>4, <2>5, <2>7, <3>1 DEF CredentialIsEarned, TypeOK
  <2>8. QED
    BY <2>6, <2>7
<1>6. ASSUME NEW r \in Redemption, Fail(r)
       PROVE  CredentialIsEarned'
  BY <1>6 DEF Fail, Answers, tableVars, WriterWorks, DevicesAreRedeemers,
      CredentialIsEarned, TypeOK, RowTypes
<1>7. ASSUME NEW r \in Redemption, Deliver(r)
       PROVE  CredentialIsEarned'
  BY <1>7 DEF Deliver, tableVars, WriterWorks, DevicesAreRedeemers,
      CredentialIsEarned, TypeOK, RowTypes
<1>8. ASSUME Crash
       PROVE  CredentialIsEarned'
  BY <1>8 DEF Crash, tableVars, WriterWorks, DevicesAreRedeemers,
      CredentialIsEarned, TypeOK, RowTypes
<1>9. ASSUME Tick
       PROVE  CredentialIsEarned'
  BY <1>9 DEF Tick, tableVars, redemptionVars, WriterWorks,
      DevicesAreRedeemers, CredentialIsEarned, TypeOK, RowTypes
<1>10. ASSUME UNCHANGED vars
       PROVE  CredentialIsEarned'
  BY <1>10 DEF vars, tableVars, redemptionVars, WriterWorks,
      DevicesAreRedeemers, CredentialIsEarned, TypeOK, RowTypes
<1>11. QED
  BY <1>1, <1>2, <1>3, <1>4, <1>5, <1>6, <1>7, <1>8, <1>9, <1>10 DEF Next,
      RedemptionStep

\* The inductive invariant holds at the start ...
LEMMA InitInvariant == Init => IInv
BY PairingAssumption
DEF Init, NoRow, IInv, TypeOK, RowTypes, WriterWorks, DevicesAreRedeemers, CredentialIsEarned

\* ... and in every reachable state.
THEOREM Invariance == Spec => []IInv
<1>1. IInv /\ [Next]_vars => IInv'
  BY TypeStep, WriterStep, RedeemerStep, EarnedStep DEF IInv
<1>2. QED
  BY InitInvariant, <1>1, PTL DEF Spec

\* Every variable keeps its type; no code takes more attempts than its limit.
THEOREM TypeCorrect == Spec => []TypeOK
<1>1. IInv => TypeOK
  BY DEF IInv
<1>2. QED
  BY Invariance, <1>1, PTL

\* redeem() issues a credential only to a timely guess of the code itself, with
\* its device in the database.
THEOREM EarnedCredential == Spec => []CredentialIsEarned
<1>1. IInv => CredentialIsEarned
  BY DEF IInv
<1>2. QED
  BY Invariance, <1>1, PTL

\* What a code has been told about, counted: finite sets for Cardinality.
Paid == \A c \in Code : IsFiniteSet(Told(c)) /\ Cardinality(Told(c)) <= codes[c].attempts

\* Whoever has been told about a code after the step had been told before.
ToldBefore ==
    \A r \in Redemption :
        (rpc'[r] \in {"answered", "done"} /\ reply'[r] # "none" /\ found'[r] # None)
        => rpc[r] \in {"answered", "done"} /\ reply'[r] = reply[r] /\ found'[r] = found[r]

\* Only a commit tells anybody about a code, one redemption and one attempt at
\* a time.
LEMMA PaidStep ==
    ASSUME IInv, Paid, [Next]_vars
    PROVE  Paid'
<1> USE PairingAssumption
<1>1. ASSUME NEW r \in Redemption, Commit(r)
      PROVE  Paid'
  <2>1. PICK c \in Code : c = found[r]
    BY <1>1 DEF Commit, IInv, WriterWorks
  <2>2. Told(c)' = Told(c) \cup {r} /\ r \notin Told(c)
    BY <1>1, <2>1 DEF Commit, Told, IInv, TypeOK, WriterWorks
  <2>3. codes'[c].attempts = codes[c].attempts + 1
    BY <1>1, <2>1 DEF Commit, After, Spent, IInv, TypeOK
  <2>4. IsFiniteSet(Told(c)') /\ Cardinality(Told(c)') = Cardinality(Told(c)) + 1
    BY <2>2, FS_AddElement DEF Paid
  <2>5. \A d \in Code \ {c} : Told(d)' = Told(d) /\ codes'[d] = codes[d]
    BY <1>1, <2>1 DEF Commit, Told, IInv, TypeOK
  <2>6. Cardinality(Told(c)) \in Nat /\ codes[c].attempts \in Nat
    BY FS_CardinalityType DEF Paid, IInv, TypeOK, RowTypes
  <2>7. QED
    BY <2>3, <2>4, <2>5, <2>6 DEF Paid
<1>2. CASE \A c \in Code : /\ Told(c)' \subseteq Told(c)
                           /\ codes[c].attempts <= codes'[c].attempts
  <2>1. SUFFICES ASSUME NEW c \in Code
                 PROVE  IsFiniteSet(Told(c)') /\ Cardinality(Told(c)') <= codes'[c].attempts
    BY DEF Paid
  <2>2. IsFiniteSet(Told(c)') /\ Cardinality(Told(c)') <= Cardinality(Told(c))
    BY <1>2, FS_Subset DEF Paid
  <2>3. Cardinality(Told(c)) \in Nat /\ Cardinality(Told(c)') \in Nat
    BY <2>2, FS_CardinalityType DEF Paid
  <2>4. codes[c].attempts \in Nat /\ codes'[c].attempts \in Nat
    BY TypeStep DEF IInv, TypeOK, RowTypes
  <2>5. QED
    BY <1>2, <2>2, <2>3, <2>4 DEF Paid
<1>3. ASSUME NEW c \in Code, CreateCode(c)
      PROVE  \A d \in Code : Told(d)' = Told(d) /\ codes[d].attempts <= codes'[d].attempts
  BY <1>3 DEF CreateCode, LocatorFree, redemptionVars, Told, IInv, TypeOK, RowTypes, DevicesAreRedeemers
<1>4. ASSUME UNCHANGED codes,
             ToldBefore
      PROVE  \A d \in Code : Told(d)' \subseteq Told(d) /\ codes[d].attempts <= codes'[d].attempts
  BY <1>4 DEF Told, ToldBefore, IInv, TypeOK, RowTypes
<1>5. ASSUME NEW r \in Redemption, Arrive(r) \/ BeginAttempt(r) \/ Verify(r) \/ Fail(r) \/ Deliver(r)
      PROVE  UNCHANGED codes /\ ToldBefore
  BY <1>5 DEF ToldBefore, Arrive, BeginAttempt, Verify, Fail, Deliver, Answers, tableVars, IInv,
      TypeOK, WriterWorks
<1>6. ASSUME Crash \/ Tick \/ UNCHANGED vars
      PROVE  UNCHANGED codes /\ ToldBefore
  BY <1>6 DEF ToldBefore, Crash, Tick, vars, redemptionVars, tableVars, IInv, TypeOK, WriterWorks
<1>7. QED
  BY <1>1, <1>2, <1>3, <1>4, <1>5, <1>6 DEF Next, RedemptionStep

\* redeem() answers only what was paid for.
THEOREM PaidGuesses == Spec => []GuessesArePaid
<1>1. Init => Paid
  <2>1. SUFFICES ASSUME Init, NEW c \in Code
                 PROVE  IsFiniteSet(Told(c)) /\ Cardinality(Told(c)) <= codes[c].attempts
    BY DEF Paid
  <2>2. Told(c) = {}
    BY <2>1 DEF Init, Told
  <2>3. codes[c].attempts = 0
    BY <2>1 DEF Init, NoRow
  <2>4. QED
    BY <2>2, <2>3, FS_EmptySet
<1>2. IInv /\ Paid /\ [Next]_vars => Paid'
  BY PaidStep
<1>3. Paid => GuessesArePaid
  BY DEF Paid, GuessesArePaid
<1>4. QED
  BY Invariance, <1>1, <1>2, <1>3, PTL DEF Spec

\* The redemptions that hold a device by a code, for Voucher.
Holders(c) == {r \in devices : guess[r] = c}

\* A commit is a guess, right or wrong, at a code nobody holds.
LEMMA CommitRefines ==
    ASSUME IInv, NEW r \in Redemption, Commit(r)
    PROVE  [Offered!Next]_Offered!voucherVars
<1> USE PairingAssumption
<1>1. PICK c \in Code : c = found[r]
  BY DEF Commit, IInv, WriterWorks
<1>2. codes[c].offered /\ codes[c].redeemer = None /\ codes[c].attempts < MaxAttempts
  BY <1>1 DEF Commit, IInv, WriterWorks
<1>3. Holders(c) = {}
  BY <1>2 DEF Holders, IInv, TypeOK, DevicesAreRedeemers
<1>4. /\ \A d \in Code : codes'[d].offered = codes[d].offered
      /\ \A d \in Code \ {c} : codes'[d].attempts = codes[d].attempts
      /\ codes'[c].attempts = codes[c].attempts + 1
  BY <1>1 DEF Commit, After, Spent, IInv, TypeOK
<1>5. {d \in Code : codes'[d].offered} = {d \in Code : codes[d].offered}
  BY <1>4
<1>6. [d \in Code |-> codes'[d].attempts]
        = [[d \in Code |-> codes[d].attempts] EXCEPT ![c] = @ + 1]
  BY <1>4
<1>7. CASE reply[r] = "credential"
  <2>1. Holders(c)' = {r}
    BY <1>1, <1>3, <1>7 DEF Commit, Holders, IInv, WriterWorks
  <2>2. \A d \in Code \ {c} : Holders(d)' = Holders(d)
    BY <1>1, <1>7 DEF Commit, Holders, IInv, WriterWorks
  <2>3. [d \in Code |-> Holders(d)'] = [[d \in Code |-> Holders(d)] EXCEPT ![c] = {r}]
    BY <2>1, <2>2
  <2>4. Offered!Redeem(c)
    BY <1>2, <1>3, <1>5, <1>6, <2>3 DEF Offered!Redeem, Offered!Try, Holders
  <2>5. QED
    BY <2>4 DEF Offered!Next
<1>8. CASE reply[r] # "credential"
  <2>1. UNCHANGED <<devices, guess>>
    BY <1>8 DEF Commit
  <2>2. Offered!Miss(c)
    BY <1>2, <1>3, <1>5, <1>6, <2>1 DEF Offered!Miss, Offered!Try, Holders
  <2>3. QED
    BY <2>2 DEF Offered!Next
<1>9. QED
  BY <1>7, <1>8

\* An insertion offers its code; everything else leaves codes and devices alone.
LEMMA StepRefines ==
    ASSUME IInv, [Next]_vars
    PROVE  [Offered!Next]_Offered!voucherVars
<1> USE PairingAssumption
<1>1. ASSUME NEW c \in Code, CreateCode(c)
      PROVE  [Offered!Next]_Offered!voucherVars
  <2>1. ~codes[c].offered /\ codes[c].attempts = 0 /\ UNCHANGED <<devices, guess>>
    BY <1>1 DEF CreateCode, LocatorFree, redemptionVars, IInv, DevicesAreRedeemers
  <2>2. /\ codes'[c].offered /\ codes'[c].attempts = 0
        /\ \A d \in Code \ {c} : codes'[d] = codes[d]
    BY <1>1 DEF CreateCode, LocatorFree, IInv, TypeOK
  <2>3. {d \in Code : codes'[d].offered} = {d \in Code : codes[d].offered} \cup {c}
    BY <2>1, <2>2
  <2>4. [d \in Code |-> codes'[d].attempts] = [d \in Code |-> codes[d].attempts]
    BY <2>1, <2>2
  <2>5. Offered!Offer(c)
    BY <2>1, <2>3, <2>4 DEF Offered!Offer
  <2>6. QED
    BY <2>5 DEF Offered!Next
<1>2. ASSUME NEW r \in Redemption, Commit(r)
      PROVE  [Offered!Next]_Offered!voucherVars
  BY <1>2, CommitRefines
<1>3. ASSUME NEW r \in Redemption, Arrive(r)
      PROVE  UNCHANGED Offered!voucherVars
  <2>1. \A p \in devices : guess'[p] = guess[p]
    BY <1>3 DEF Arrive, IInv, TypeOK, DevicesAreRedeemers
  <2>2. \A c \in Code : Holders(c)' = Holders(c)
    BY <1>3, <2>1 DEF Arrive, tableVars, Holders
  <2>3. QED
    BY <1>3, <2>2 DEF Arrive, tableVars, Offered!voucherVars, Holders
<1>4. CASE UNCHANGED <<codes, devices, guess>>
  BY <1>4 DEF Offered!voucherVars
<1>5. \/ \E c \in Code : CreateCode(c)
      \/ \E r \in Redemption : Commit(r) \/ Arrive(r)
      \/ UNCHANGED <<codes, devices, guess>>
  BY DEF Next, RedemptionStep, vars, redemptionVars, tableVars, BeginAttempt, Verify, Fail,
      Deliver, Crash, Tick
<1>6. QED
  BY <1>1, <1>2, <1>3, <1>4, <1>5

\* A pairing code keeps its promise: at most MaxAttempts guesses and one device.
THEOREM VoucherRefined == Spec => ImplementsVoucher
<1>1. Init => Offered!Init
  BY DEF Init, NoRow, Offered!Init
<1>2. IInv /\ [Next]_vars => [Offered!Next]_Offered!voucherVars
  BY StepRefines
<1>3. QED
  BY Invariance, <1>1, <1>2, PTL DEF Spec, ImplementsVoucher, Offered!Spec

-----------------------------------------------------------------------------
(* What a code and its device come to.                                     *)

\* What no step may do to the row of an offered code.
RowKept(c) ==
    codes[c].offered =>
        /\ codes'[c].offered /\ codes'[c].expires = codes[c].expires
        /\ codes'[c].attempts >= codes[c].attempts
        /\ codes[c].redeemer # None \/ codes[c].attempts >= MaxAttempts => codes'[c] = codes[c]

\* An offered code keeps its expiry and its attempts, and once it is redeemed or
\* its attempts are spent nothing writes its row again: neither a redemption that
\* read the clock long before, nor a restart, nor a new offer of its locator.
CodesStayClosed == [][\A c \in Code : RowKept(c)]_vars

\* begin_attempt found the code open, and the writer lock keeps it so to the end.
THEOREM CodesAreClosedForGood == Spec => CodesStayClosed
<1>1. IInv /\ [Next]_vars => \A c \in Code : RowKept(c)
  <2> SUFFICES ASSUME IInv, [Next]_vars, NEW c \in Code
               PROVE  RowKept(c)
    OBVIOUS
  <2> USE PairingAssumption DEF IInv, TypeOK, RowTypes, RowKept
  <2>1. ASSUME NEW d \in Code, CreateCode(d)
        PROVE  RowKept(c)
    BY <2>1 DEF CreateCode, LocatorFree
  <2>2. ASSUME NEW r \in Redemption, Commit(r)
        PROVE  RowKept(c)
    <3>1. /\ found[r] \in Code /\ codes[found[r]].redeemer = None
          /\ codes[found[r]].attempts < MaxAttempts
      BY <2>2 DEF Commit, WriterWorks
    <3> QED BY <2>2, <3>1 DEF Commit, After, Spent
  <2>3. CASE UNCHANGED codes
    BY <2>3
  <2>4. \/ \E d \in Code : CreateCode(d)
        \/ \E r \in Redemption : Commit(r)
        \/ UNCHANGED codes
    BY DEF Next, RedemptionStep, vars, tableVars, Arrive, BeginAttempt, Verify, Fail,
        Deliver, Crash, Tick
  <2> QED BY <2>1, <2>2, <2>3, <2>4
<1> QED BY Invariance, <1>1, PTL DEF Spec, CodesStayClosed

\* A device was answered with its credential, and is the only one of its code,
\* whatever redemptions of the code ran beside its own.
OneDevicePerCode ==
    \A r \in devices :
        /\ reply[r] = "credential"
        /\ \A s \in devices : guess[r] = guess[s] => r = s

\* The device and the redemption of its code commit together.
LEMMA DeviceStep ==
  ASSUME IInv, \A r \in devices : reply[r] = "credential", [Next]_vars
  PROVE  (\A r \in devices : reply[r] = "credential")'
<1> USE DEF IInv, TypeOK, DevicesAreRedeemers
<1>1. ASSUME NEW r \in Redemption, RedemptionStep(r)
      PROVE  (\A s \in devices : reply[s] = "credential")'
  BY <1>1 DEF RedemptionStep, Arrive, BeginAttempt, Verify, Commit, Fail, Deliver, Answers,
      tableVars
<1>2. CASE Crash
  BY <1>2 DEF Crash, tableVars
<1>3. CASE UNCHANGED <<devices, reply>>
  BY <1>3
<1> QED
  BY <1>1, <1>2, <1>3 DEF Next, vars, CreateCode, Tick, tableVars, redemptionVars

\* PairingService.redeem inserts a device for the code it has just marked as
\* redeemed, and nothing else inserts one.
THEOREM OneDeviceForACode == Spec => []OneDevicePerCode
<1>1. Init => \A r \in devices : reply[r] = "credential"
  BY DEF Init
<1>2. IInv /\ (\A r \in devices : reply[r] = "credential") /\ [Next]_vars
        => (\A r \in devices : reply[r] = "credential")'
  BY DeviceStep
<1>3. IInv /\ (\A r \in devices : reply[r] = "credential") => OneDevicePerCode
  BY DEF IInv, DevicesAreRedeemers, OneDevicePerCode
<1> QED BY Invariance, <1>1, <1>2, <1>3, PTL DEF Spec

=============================================================================
