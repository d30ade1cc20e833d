--------------------------- MODULE LocalChatProofs ---------------------------
(***************************************************************************)
(* What holds of a local session for any ids and any limits, and that it   *)
(* keeps the promise of Consent.                                           *)
(***************************************************************************)
EXTENDS LocalChat, TLAPS

\* The writers are the proposals.
LEMMA WriterIsProposal == Writer = Proposal
  BY ChatAssumption DEF Proposal

-----------------------------------------------------------------------------
(* The inductive invariant.                                                *)

\* No step of a write tears the file or leaves a temporary file behind.
LEMMA FileKept ==
  ASSUME FileType, ReplacesSynced, FileIntact, NEW w \in Writer, WriteStep(w) \/ Replaced(w)
  PROVE  (ReplacesSynced /\ FileIntact)'
<1> USE DEF FileType, ReplacesSynced, FileIntact, Writing
<1>1. CASE WriteRefused(w)
  BY <1>1 DEF WriteRefused
<1>2. CASE TempCreated(w)
  BY <1>2 DEF TempCreated
<1>3. CASE Filled(w)
  BY <1>3 DEF Filled
<1>4. CASE Synced(w)
  BY <1>4 DEF Synced, Fsync
<1>5. CASE WriteFails(w)
  BY <1>5 DEF WriteFails
<1>6. CASE Replaced(w)
  BY <1>6 DEF Replaced
<1>7. QED
  BY <1>1, <1>2, <1>3, <1>4, <1>5, <1>6 DEF WriteStep

\* The session is attached, or ends before it began.
LEMMA AttachKeeps ==
  ASSUME IInv, Attach
  PROVE  IInv'
<1>1. TypeOK'
  BY DEF IInv, TypeOK, FileType, Mutating, Tool, Writing, Attach, consentVars,
      effectVars, fileVars
<1>2. Chronicle'
  BY DEF IInv, Chronicle, Attach, consentVars, effectVars, fileVars
<1>3. Consents'
  BY DEF IInv, Consents, Mutating, Attach, consentVars, effectVars, fileVars
<1>4. Writes'
  BY DEF IInv, Writes, Promise!Allowed, Writing, Attach, consentVars, effectVars,
      fileVars
<1>5. InHand'
  BY DEF IInv, InHand, Mutating, Writing, Attach, consentVars, effectVars, fileVars
<1>6. (ReplacesSynced /\ FileIntact)'
  BY DEF IInv, ReplacesSynced, FileIntact, Writing, Attach, consentVars, effectVars,
      fileVars
<1>7. AuditIsFaithful'
  BY DEF IInv, AuditIsFaithful, Attach, consentVars, effectVars, fileVars
<1>8. QED
  BY <1>1, <1>2, <1>3, <1>4, <1>5, <1>6, <1>7 DEF IInv

\* An action of the context is made.
LEMMA GatherKeeps ==
  ASSUME IInv, NEW i \in Id, Gather(i)
  PROVE  IInv'
<1>1. TypeOK'
  BY ChatAssumption, WriterIsProposal
  DEF IInv, TypeOK, FileType, Mutating, Tool,
      Writing, Gather, effectVars, fileVars, Proposal
<1>2. Chronicle'
  BY DEF IInv, Chronicle, Gather, effectVars, fileVars, Proposal
<1>3. Consents'
  <2> DEFINE g == <<0, i>>
  <2>1. g \in Proposal /\ tool[g] = None /\ tool' = [tool EXCEPT ![g] = "read"]
    BY ChatAssumption DEF Gather, Proposal
  <2> HIDE DEF g
  <2>2. UNCHANGED <<permission, granted, asked, answer>>
    BY DEF Gather
  <2>3. \A p \in Proposal : tool[p] # None => tool'[p] = tool[p]
    BY <2>1 DEF IInv, TypeOK
  <2>4. \A t \in Mutating : t # None
    BY ChatAssumption DEF Mutating
  <2>5. QED
    BY <2>2, <2>3, <2>4 DEF IInv, TypeOK, Consents
<1>4. Writes'
  BY ChatAssumption, WriterIsProposal
  DEF IInv, Writes, Promise!Allowed, Writing,
      Gather, effectVars, fileVars, Proposal
<1>5. InHand'
  BY ChatAssumption, WriterIsProposal
  DEF IInv, TypeOK, FileType, Chronicle,
      InHand, Mutating, Tool, Writing, Gather, effectVars, fileVars, Proposal
<1>6. (ReplacesSynced /\ FileIntact)'
  BY DEF IInv, ReplacesSynced, FileIntact, Writing, Gather, effectVars, fileVars,
      Proposal
<1>7. AuditIsFaithful'
  BY DEF IInv, AuditIsFaithful, Gather, effectVars, fileVars, Proposal
<1>8. QED
  BY <1>1, <1>2, <1>3, <1>4, <1>5, <1>6, <1>7 DEF IInv

\* The first turn begins.
LEMMA GatheredKeeps ==
  ASSUME IInv, Gathered
  PROVE  IInv'
<1>1. TypeOK'
  BY ChatAssumption, WriterIsProposal
  DEF IInv, TypeOK, FileType, Chronicle,
      Mutating, Tool, Writing, Gathered, TurnBegins, consentVars, effectVars,
      fileVars
<1>2. Chronicle'
  BY DEF IInv, Chronicle, Gathered, TurnBegins, consentVars, effectVars, fileVars
<1>3. Consents'
  BY DEF IInv, Consents, Mutating, Gathered, TurnBegins, consentVars, effectVars,
      fileVars
<1>4. Writes'
  BY DEF IInv, Writes, Promise!Allowed, Writing, Gathered, TurnBegins, consentVars,
      effectVars, fileVars
<1>5. InHand'
  BY DEF IInv, InHand, Mutating, Writing, Gathered, TurnBegins, consentVars,
      effectVars, fileVars
<1>6. (ReplacesSynced /\ FileIntact)'
  BY DEF IInv, ReplacesSynced, FileIntact, Writing, Gathered, TurnBegins,
      consentVars, effectVars, fileVars
<1>7. AuditIsFaithful'
  BY DEF IInv, AuditIsFaithful, Gathered, TurnBegins, consentVars, effectVars,
      fileVars
<1>8. QED
  BY <1>1, <1>2, <1>3, <1>4, <1>5, <1>6, <1>7 DEF IInv

\* Another turn begins.
LEMMA UserSpeaksKeeps ==
  ASSUME IInv, UserSpeaks
  PROVE  IInv'
<1>1. TypeOK'
  BY ChatAssumption, WriterIsProposal
  DEF IInv, TypeOK, FileType, Mutating, Tool,
      Writing, UserSpeaks, TurnBegins, consentVars, effectVars, fileVars
<1>2. Chronicle'
  BY DEF IInv, TypeOK, FileType, Chronicle, Mutating, Tool, Writing, UserSpeaks,
      TurnBegins, consentVars, effectVars, fileVars
<1>3. Consents'
  BY DEF IInv, Consents, Mutating, UserSpeaks, TurnBegins, consentVars, effectVars,
      fileVars
<1>4. Writes'
  BY DEF IInv, Writes, Promise!Allowed, Writing, UserSpeaks, TurnBegins,
      consentVars, effectVars, fileVars
<1>5. InHand'
  BY DEF IInv, InHand, Mutating, Writing, UserSpeaks, TurnBegins, consentVars,
      effectVars, fileVars
<1>6. (ReplacesSynced /\ FileIntact)'
  BY DEF IInv, ReplacesSynced, FileIntact, Writing, UserSpeaks, TurnBegins,
      consentVars, effectVars, fileVars
<1>7. AuditIsFaithful'
  BY DEF IInv, AuditIsFaithful, UserSpeaks, TurnBegins, consentVars, effectVars,
      fileVars
<1>8. QED
  BY <1>1, <1>2, <1>3, <1>4, <1>5, <1>6, <1>7 DEF IInv

\* The user leaves.
LEMMA UserLeavesKeeps ==
  ASSUME IInv, UserLeaves
  PROVE  IInv'
<1>1. TypeOK'
  BY DEF IInv, TypeOK, FileType, Mutating, Tool, Writing, UserLeaves, consentVars,
      effectVars, fileVars
<1>2. Chronicle'
  BY DEF IInv, Chronicle, UserLeaves, consentVars, effectVars, fileVars
<1>3. Consents'
  BY DEF IInv, Consents, Mutating, UserLeaves, consentVars, effectVars, fileVars
<1>4. Writes'
  BY DEF IInv, Writes, Promise!Allowed, Writing, UserLeaves, consentVars,
      effectVars, fileVars
<1>5. InHand'
  BY DEF IInv, InHand, Mutating, Writing, UserLeaves, consentVars, effectVars,
      fileVars
<1>6. (ReplacesSynced /\ FileIntact)'
  BY DEF IInv, ReplacesSynced, FileIntact, Writing, UserLeaves, consentVars,
      effectVars, fileVars
<1>7. AuditIsFaithful'
  BY DEF IInv, AuditIsFaithful, UserLeaves, consentVars, effectVars, fileVars
<1>8. QED
  BY <1>1, <1>2, <1>3, <1>4, <1>5, <1>6, <1>7 DEF IInv

\* The turn ends.
LEMMA TurnEndsKeeps ==
  ASSUME IInv, TurnEnds
  PROVE  IInv'
<1>1. TypeOK'
  BY DEF IInv, TypeOK, FileType, Mutating, Tool, Writing, TurnEnds, consentVars,
      effectVars, fileVars
<1>2. Chronicle'
  BY DEF IInv, Chronicle, TurnEnds, consentVars, effectVars, fileVars
<1>3. Consents'
  BY DEF IInv, Consents, Mutating, TurnEnds, consentVars, effectVars, fileVars
<1>4. Writes'
  BY DEF IInv, Writes, Promise!Allowed, Writing, TurnEnds, consentVars, effectVars,
      fileVars
<1>5. InHand'
  BY DEF IInv, InHand, Mutating, Writing, TurnEnds, consentVars, effectVars,
      fileVars
<1>6. (ReplacesSynced /\ FileIntact)'
  BY DEF IInv, ReplacesSynced, FileIntact, Writing, TurnEnds, consentVars,
      effectVars, fileVars
<1>7. AuditIsFaithful'
  BY DEF IInv, AuditIsFaithful, TurnEnds, consentVars, effectVars, fileVars
<1>8. QED
  BY <1>1, <1>2, <1>3, <1>4, <1>5, <1>6, <1>7 DEF IInv

\* The backend fails.
LEMMA BackendFailsKeeps ==
  ASSUME IInv, BackendFails
  PROVE  IInv'
<1>1. TypeOK'
  BY DEF IInv, TypeOK, FileType, Mutating, Tool, Writing, BackendFails, consentVars,
      effectVars, fileVars
<1>2. Chronicle'
  BY DEF IInv, Chronicle, BackendFails, consentVars, effectVars, fileVars
<1>3. Consents'
  BY DEF IInv, Consents, Mutating, BackendFails, consentVars, effectVars, fileVars
<1>4. Writes'
  BY DEF IInv, Writes, Promise!Allowed, Writing, BackendFails, consentVars,
      effectVars, fileVars
<1>5. InHand'
  BY DEF IInv, InHand, Mutating, Writing, BackendFails, consentVars, effectVars,
      fileVars
<1>6. (ReplacesSynced /\ FileIntact)'
  BY DEF IInv, ReplacesSynced, FileIntact, Writing, BackendFails, consentVars,
      effectVars, fileVars
<1>7. AuditIsFaithful'
  BY DEF IInv, AuditIsFaithful, BackendFails, consentVars, effectVars, fileVars
<1>8. QED
  BY <1>1, <1>2, <1>3, <1>4, <1>5, <1>6, <1>7 DEF IInv

\* A duplicate is reported.
LEMMA DuplicateKeeps ==
  ASSUME IInv, NEW i \in Id, Duplicate(i)
  PROVE  IInv'
<1>1. TypeOK'
  BY ChatAssumption, WriterIsProposal
  DEF IInv, TypeOK, FileType, Mutating, Tool,
      Writing, Duplicate, Exhausted, Handled, consentVars, effectVars, fileVars
<1>2. Chronicle'
  BY DEF IInv, Chronicle, Duplicate, Exhausted, Handled, consentVars, effectVars,
      fileVars
<1>3. Consents'
  BY DEF IInv, Consents, Mutating, Duplicate, Exhausted, Handled, consentVars,
      effectVars, fileVars
<1>4. Writes'
  BY DEF IInv, Writes, Promise!Allowed, Writing, Duplicate, Exhausted, Handled,
      consentVars, effectVars, fileVars
<1>5. InHand'
  BY DEF IInv, InHand, Mutating, Writing, Duplicate, Exhausted, Handled,
      consentVars, effectVars, fileVars
<1>6. (ReplacesSynced /\ FileIntact)'
  BY DEF IInv, ReplacesSynced, FileIntact, Writing, Duplicate, Exhausted, Handled,
      consentVars, effectVars, fileVars
<1>7. AuditIsFaithful'
  BY DEF IInv, AuditIsFaithful, Duplicate, Exhausted, Handled, consentVars,
      effectVars, fileVars
<1>8. QED
  BY <1>1, <1>2, <1>3, <1>4, <1>5, <1>6, <1>7 DEF IInv

\* A new proposal is taken in hand.
LEMMA ProposedKeeps ==
  ASSUME IInv, NEW i \in Id, NEW t \in Tool, Proposed(i, t)
  PROVE  IInv'
<1>1. TypeOK'
  BY ChatAssumption, WriterIsProposal
  DEF IInv, TypeOK, FileType, Mutating, Tool,
      Writing, Proposed, Exhausted, Handled, effectVars, fileVars, Proposal
<1>2. Chronicle'
  BY DEF IInv, Chronicle, Proposed, Exhausted, Handled, effectVars, fileVars,
      Proposal
<1>3. Consents'
  BY DEF IInv, TypeOK, FileType, Chronicle, Consents, Mutating, Tool, Writing,
      Proposed, Exhausted, Handled, effectVars, fileVars, Proposal
<1>4. Writes'
  BY DEF IInv, TypeOK, FileType, Chronicle, Writes, Promise!Allowed, Mutating, Tool,
      Writing, Proposed, Exhausted, Handled, effectVars, fileVars, Proposal
<1>5. InHand'
  BY ChatAssumption, WriterIsProposal
  DEF IInv, TypeOK, FileType, Chronicle,
      InHand, Mutating, Tool, Writing, Proposed, Exhausted, Handled, effectVars,
      fileVars, Proposal
<1>6. (ReplacesSynced /\ FileIntact)'
  BY DEF IInv, ReplacesSynced, FileIntact, Writing, Proposed, Exhausted, Handled,
      effectVars, fileVars, Proposal
<1>7. AuditIsFaithful'
  BY DEF IInv, AuditIsFaithful, Proposed, Exhausted, Handled, effectVars, fileVars,
      Proposal
<1>8. QED
  BY <1>1, <1>2, <1>3, <1>4, <1>5, <1>6, <1>7 DEF IInv

\* The policy denies it.
LEMMA PolicyDeniesKeeps ==
  ASSUME IInv, PolicyDenies
  PROVE  IInv'
<1>1. TypeOK'
  BY DEF IInv, TypeOK, FileType, Mutating, Tool, Writing, PolicyDenies, Records,
      Forbidden, consentVars, effectVars, fileVars
<1>2. Chronicle'
  BY DEF IInv, Chronicle, Mutating, PolicyDenies, Records, Forbidden, consentVars,
      effectVars, fileVars
<1>3. Consents'
  BY DEF IInv, Consents, Mutating, PolicyDenies, Records, Forbidden, consentVars,
      effectVars, fileVars
<1>4. Writes'
  BY DEF IInv, Writes, Promise!Allowed, Mutating, Writing, PolicyDenies, Records,
      Forbidden, consentVars, effectVars, fileVars
<1>5. InHand'
  BY DEF IInv, TypeOK, FileType, InHand, Mutating, Tool, Writing, PolicyDenies,
      Records, Forbidden, consentVars, effectVars, fileVars
<1>6. (ReplacesSynced /\ FileIntact)'
  BY DEF IInv, ReplacesSynced, FileIntact, Mutating, Writing, PolicyDenies, Records,
      Forbidden, consentVars, effectVars, fileVars
<1>7. AuditIsFaithful'
  BY DEF IInv, AuditIsFaithful, Mutating, PolicyDenies, Records, Forbidden,
      consentVars, effectVars, fileVars
<1>8. QED
  BY <1>1, <1>2, <1>3, <1>4, <1>5, <1>6, <1>7 DEF IInv

\* Its arguments are rejected.
LEMMA RejectedKeeps ==
  ASSUME IInv, Rejected
  PROVE  IInv'
<1>1. TypeOK'
  BY DEF IInv, TypeOK, FileType, Mutating, Tool, Writing, Rejected, Records,
      consentVars, effectVars, fileVars
<1>2. Chronicle'
  BY DEF IInv, Chronicle, Rejected, Records, consentVars, effectVars, fileVars
<1>3. Consents'
  BY DEF IInv, Consents, Mutating, Rejected, Records, consentVars, effectVars,
      fileVars
<1>4. Writes'
  BY DEF IInv, Writes, Promise!Allowed, Writing, Rejected, Records, consentVars,
      effectVars, fileVars
<1>5. InHand'
  BY DEF IInv, TypeOK, FileType, InHand, Mutating, Tool, Writing, Rejected, Records,
      consentVars, effectVars, fileVars
<1>6. (ReplacesSynced /\ FileIntact)'
  BY DEF IInv, ReplacesSynced, FileIntact, Writing, Rejected, Records, consentVars,
      effectVars, fileVars
<1>7. AuditIsFaithful'
  BY DEF IInv, AuditIsFaithful, Rejected, Records, consentVars, effectVars, fileVars
<1>8. QED
  BY <1>1, <1>2, <1>3, <1>4, <1>5, <1>6, <1>7 DEF IInv

\* A prompt is opened.
LEMMA AskKeeps ==
  ASSUME IInv, Ask
  PROVE  IInv'
<1>1. TypeOK'
  BY DEF IInv, TypeOK, FileType, Mutating, Tool, Writing, Ask, Forbidden, Granted,
      effectVars, fileVars
<1>2. Chronicle'
  BY ChatAssumption, WriterIsProposal
  DEF IInv, Chronicle, Mutating, Ask,
      Forbidden, Granted, effectVars, fileVars
<1>3. Consents'
  BY DEF IInv, TypeOK, FileType, Consents, InHand, Mutating, Tool, Writing, Ask,
      Forbidden, Granted, effectVars, fileVars
<1>4. Writes'
  BY DEF IInv, Writes, Promise!Allowed, Mutating, Writing, Ask, Forbidden, Granted,
      effectVars, fileVars
<1>5. InHand'
  BY DEF IInv, TypeOK, FileType, InHand, Mutating, Tool, Writing, Ask, Forbidden,
      Granted, effectVars, fileVars
<1>6. (ReplacesSynced /\ FileIntact)'
  BY DEF IInv, ReplacesSynced, FileIntact, Mutating, Writing, Ask, Forbidden,
      Granted, effectVars, fileVars
<1>7. AuditIsFaithful'
  BY DEF IInv, AuditIsFaithful, Mutating, Ask, Forbidden, Granted, effectVars,
      fileVars
<1>8. QED
  BY <1>1, <1>2, <1>3, <1>4, <1>5, <1>6, <1>7 DEF IInv

\* What needs no prompt is dispatched.
LEMMA AuthorizedKeeps ==
  ASSUME IInv, Authorized
  PROVE  IInv'
<1>1. TypeOK'
  BY DEF IInv, TypeOK, FileType, InHand, Mutating, Tool, Writing, Authorized,
      Forbidden, Granted, Dispatch, Records, WriteBegins, consentVars, fileVars
<1>2. Chronicle'
  BY ChatAssumption, WriterIsProposal
  DEF IInv, TypeOK, FileType, Chronicle,
      Mutating, Tool, Writing, Authorized, Forbidden, Granted, Dispatch, Records,
      WriteBegins, consentVars, fileVars
<1>3. Consents'
  BY DEF IInv, Consents, Mutating, Authorized, Forbidden, Granted, Dispatch,
      Records, WriteBegins, consentVars, fileVars
<1>4. Writes'
  BY WriterIsProposal
  DEF IInv, TypeOK, FileType, Chronicle, Consents, Writes,
      Promise!Allowed, InHand, Mutating, Tool, Writing, Authorized, Forbidden,
      Granted, Dispatch, Records, WriteBegins, consentVars, fileVars
<1>5. InHand'
  BY DEF IInv, TypeOK, FileType, InHand, Mutating, Tool, Writing, Authorized,
      Forbidden, Granted, Dispatch, Records, WriteBegins, consentVars, fileVars
<1>6. (ReplacesSynced /\ FileIntact)'
  BY DEF IInv, TypeOK, FileType, ReplacesSynced, FileIntact, Mutating, Tool,
      Writing, Authorized, Forbidden, Granted, Dispatch, Records, WriteBegins,
      consentVars, fileVars
<1>7. AuditIsFaithful'
  BY DEF IInv, TypeOK, FileType, InHand, AuditIsFaithful, Mutating, Tool, Writing,
      Authorized, Forbidden, Granted, Dispatch, Records, WriteBegins, consentVars,
      fileVars
<1>8. QED
  BY <1>1, <1>2, <1>3, <1>4, <1>5, <1>6, <1>7 DEF IInv

\* What the operator allowed is dispatched.
LEMMA ApprovedKeeps ==
  ASSUME IInv, Approved
  PROVE  IInv'
<1>1. TypeOK'
  <2>1. granted' \in SUBSET Mutating
    BY DEF IInv, TypeOK, InHand, Approved
  <2>2. /\ pc' \in {"acting", "recording"} /\ status' \in {"ok", "denied", "error"}
        /\ deeds' \in [Proposal -> Nat]
    BY DEF IInv, TypeOK, Approved, Dispatch, Records
  <2>3. FileType'
    BY WriterIsProposal
    DEF IInv, TypeOK, FileType, fileVars, Approved, Dispatch, WriteBegins, Writing
  <2>4. UNCHANGED <<turn, seen, left, cur, raised, interrupt, permission, tool, asked,
                    answer, log, told>>
    BY DEF Approved
  <2>5. QED
    BY <2>1, <2>2, <2>3, <2>4 DEF IInv, TypeOK
<1>2. Chronicle'
  BY WriterIsProposal
  DEF IInv, TypeOK, FileType, Chronicle, Mutating, Tool,
      Writing, Approved, Dispatch, Records, WriteBegins, fileVars
<1>3. Consents'
  BY DEF IInv, TypeOK, FileType, Consents, Mutating, Tool, Writing, Approved,
      Dispatch, Records, WriteBegins, fileVars
<1>4. Writes'
  BY WriterIsProposal
  DEF IInv, TypeOK, FileType, Writes, Promise!Allowed, InHand,
      Mutating, Tool, Writing, Approved, Dispatch, Records, WriteBegins, fileVars
<1>5. InHand'
  BY DEF IInv, TypeOK, FileType, InHand, Mutating, Tool, Writing, Approved,
      Dispatch, Records, WriteBegins, fileVars
<1>6. (ReplacesSynced /\ FileIntact)'
  BY DEF IInv, TypeOK, FileType, ReplacesSynced, FileIntact, Mutating, Tool,
      Writing, Approved, Dispatch, Records, WriteBegins, fileVars
<1>7. AuditIsFaithful'
  BY DEF IInv, TypeOK, FileType, InHand, AuditIsFaithful, Mutating, Tool, Writing,
      Approved, Dispatch, Records, WriteBegins, fileVars
<1>8. QED
  BY <1>1, <1>2, <1>3, <1>4, <1>5, <1>6, <1>7 DEF IInv

\* What the operator refused is recorded so.
LEMMA DeniedKeeps ==
  ASSUME IInv, Denied
  PROVE  IInv'
<1>1. TypeOK'
  BY DEF IInv, TypeOK, FileType, Mutating, Tool, Writing, Denied, Records,
      consentVars, effectVars, fileVars
<1>2. Chronicle'
  BY DEF IInv, Chronicle, Denied, Records, consentVars, effectVars, fileVars
<1>3. Consents'
  BY DEF IInv, Consents, Mutating, Denied, Records, consentVars, effectVars,
      fileVars
<1>4. Writes'
  BY DEF IInv, Writes, Promise!Allowed, Writing, Denied, Records, consentVars,
      effectVars, fileVars
<1>5. InHand'
  BY DEF IInv, TypeOK, FileType, InHand, Mutating, Tool, Writing, Denied, Records,
      consentVars, effectVars, fileVars
<1>6. (ReplacesSynced /\ FileIntact)'
  BY DEF IInv, ReplacesSynced, FileIntact, Writing, Denied, Records, consentVars,
      effectVars, fileVars
<1>7. AuditIsFaithful'
  BY DEF IInv, AuditIsFaithful, Denied, Records, consentVars, effectVars, fileVars
<1>8. QED
  BY <1>1, <1>2, <1>3, <1>4, <1>5, <1>6, <1>7 DEF IInv

\* A read returns.
LEMMA ReadReturnsKeeps ==
  ASSUME IInv, ReadReturns
  PROVE  IInv'
<1>1. TypeOK'
  BY DEF IInv, TypeOK, FileType, Mutating, Tool, Writing, ReadReturns, Records,
      consentVars, fileVars
<1>2. Chronicle'
  BY ChatAssumption, WriterIsProposal
  DEF IInv, TypeOK, FileType, Chronicle,
      Mutating, Tool, Writing, ReadReturns, Records, consentVars, fileVars
<1>3. Consents'
  BY DEF IInv, Consents, Mutating, ReadReturns, Records, consentVars, fileVars
<1>4. Writes'
  BY DEF IInv, TypeOK, FileType, Writes, Promise!Allowed, Mutating, Tool, Writing,
      ReadReturns, Records, consentVars, fileVars
<1>5. InHand'
  BY DEF IInv, TypeOK, FileType, Writes, Promise!Allowed, InHand, Mutating, Tool,
      Writing, ReadReturns, Records, consentVars, fileVars
<1>6. (ReplacesSynced /\ FileIntact)'
  BY DEF IInv, ReplacesSynced, FileIntact, Writing, ReadReturns, Records,
      consentVars, fileVars
<1>7. AuditIsFaithful'
  BY DEF IInv, TypeOK, FileType, InHand, AuditIsFaithful, Mutating, Tool, Writing,
      ReadReturns, Records, consentVars, fileVars
<1>8. QED
  BY <1>1, <1>2, <1>3, <1>4, <1>5, <1>6, <1>7 DEF IInv

\* A write returns.
LEMMA WriteReturnsKeeps ==
  ASSUME IInv, WriteReturns
  PROVE  IInv'
<1>1. TypeOK'
  BY DEF IInv, TypeOK, FileType, Mutating, Tool, Writing, WriteReturns, Records,
      WriteOver, consentVars, effectVars, fileVars
<1>2. Chronicle'
  BY DEF IInv, Chronicle, WriteReturns, Records, WriteOver, consentVars, effectVars,
      fileVars
<1>3. Consents'
  BY DEF IInv, Consents, Mutating, WriteReturns, Records, WriteOver, consentVars,
      effectVars, fileVars
<1>4. Writes'
  BY DEF IInv, Writes, Promise!Allowed, Writing, WriteReturns, Records, WriteOver,
      consentVars, effectVars, fileVars
<1>5. InHand'
  BY DEF IInv, TypeOK, FileType, Writes, Promise!Allowed, InHand, Mutating, Tool,
      Writing, WriteReturns, Records, WriteOver, consentVars, effectVars, fileVars
<1>6. (ReplacesSynced /\ FileIntact)'
  BY DEF IInv, ReplacesSynced, FileIntact, Writing, WriteReturns, Records,
      WriteOver, consentVars, effectVars, fileVars
<1>7. AuditIsFaithful'
  BY DEF IInv, AuditIsFaithful, WriteReturns, Records, WriteOver, consentVars,
      effectVars, fileVars
<1>8. QED
  BY <1>1, <1>2, <1>3, <1>4, <1>5, <1>6, <1>7 DEF IInv

\* The record is made.
LEMMA RecordedKeeps ==
  ASSUME IInv, Recorded
  PROVE  IInv'
<1>1. TypeOK'
  BY DEF IInv, TypeOK, FileType, Mutating, Tool, Writing, Recorded, Report, consentVars,
      fileVars
<1>2. Chronicle'
  BY DEF IInv, TypeOK, FileType, Chronicle, InHand, Mutating, Tool, Writing,
      Recorded, Report, consentVars, fileVars
<1>3. Consents'
  BY DEF IInv, Consents, Mutating, Recorded, Report, consentVars, fileVars
<1>4. Writes'
  BY DEF IInv, TypeOK, FileType, Writes, Promise!Allowed, InHand, Mutating, Tool,
      Writing, Recorded, Report, consentVars, fileVars
<1>5. InHand'
  BY DEF IInv, InHand, Mutating, Writing, Recorded, Report, consentVars, fileVars
<1>6. (ReplacesSynced /\ FileIntact)'
  BY DEF IInv, ReplacesSynced, FileIntact, Writing, Recorded, Report, consentVars, fileVars
<1>7. AuditIsFaithful'
  BY DEF IInv, TypeOK, FileType, InHand, AuditIsFaithful, Mutating, Tool, Writing,
      Recorded, Report, consentVars, fileVars
<1>8. QED
  BY <1>1, <1>2, <1>3, <1>4, <1>5, <1>6, <1>7 DEF IInv

\* The record cannot be made.
LEMMA RecordFailsKeeps ==
  ASSUME IInv, RecordFails
  PROVE  IInv'
<1>1. TypeOK'
  BY DEF IInv, TypeOK, FileType, Mutating, Tool, Writing, RecordFails, Verdict,
      consentVars, fileVars
<1>2. Chronicle'
  BY DEF IInv, TypeOK, FileType, Chronicle, InHand, Mutating, Tool, Writing,
      RecordFails, Verdict, consentVars, fileVars
<1>3. Consents'
  BY DEF IInv, Consents, Mutating, RecordFails, Verdict, consentVars, fileVars
<1>4. Writes'
  BY DEF IInv, TypeOK, FileType, Writes, Promise!Allowed, Mutating, Tool, Writing,
      RecordFails, Verdict, consentVars, fileVars
<1>5. InHand'
  BY DEF IInv, InHand, Mutating, Writing, RecordFails, Verdict, consentVars,
      fileVars
<1>6. (ReplacesSynced /\ FileIntact)'
  BY DEF IInv, ReplacesSynced, FileIntact, Writing, RecordFails, Verdict,
      consentVars, fileVars
<1>7. AuditIsFaithful'
  BY DEF IInv, TypeOK, FileType, AuditIsFaithful, Mutating, Tool, Writing,
      RecordFails, Verdict, consentVars, fileVars
<1>8. QED
  BY <1>1, <1>2, <1>3, <1>4, <1>5, <1>6, <1>7 DEF IInv

\* The operator answers a prompt.
LEMMA OperatorAnswersKeeps ==
  ASSUME IInv, NEW p \in Proposal, OperatorAnswers(p)
  PROVE  IInv'
<1>1. TypeOK'
  BY DEF IInv, TypeOK, FileType, Mutating, Tool, Writing, OperatorAnswers, taskVars,
      effectVars, fileVars
<1>2. Chronicle'
  BY DEF IInv, Chronicle, OperatorAnswers, taskVars, effectVars, fileVars
<1>3. Consents'
  BY DEF IInv, Consents, Mutating, OperatorAnswers, taskVars, effectVars, fileVars
<1>4. Writes'
  BY DEF IInv, TypeOK, FileType, Chronicle, Consents, Writes, Promise!Allowed,
      InHand, Mutating, Tool, Writing, OperatorAnswers, taskVars, effectVars,
      fileVars
<1>5. InHand'
  BY DEF IInv, InHand, Mutating, Writing, OperatorAnswers, taskVars, effectVars,
      fileVars
<1>6. (ReplacesSynced /\ FileIntact)'
  BY DEF IInv, ReplacesSynced, FileIntact, Writing, OperatorAnswers, taskVars,
      effectVars, fileVars
<1>7. AuditIsFaithful'
  BY DEF IInv, AuditIsFaithful, OperatorAnswers, taskVars, effectVars, fileVars
<1>8. QED
  BY <1>1, <1>2, <1>3, <1>4, <1>5, <1>6, <1>7 DEF IInv

\* The thread of a write gets on.
LEMMA ThreadKeeps ==
  ASSUME IInv, NEW p \in Proposal, Thread(p)
  PROVE  IInv'
<1>1. TypeOK'
  BY DEF IInv, TypeOK, FileType, Mutating, Tool, Writing, Thread, WriteStep,
      WriteRefused, TempCreated, Filled, Synced, Fsync, WriteFails, Replaced,
      taskVars, consentVars, effectVars
<1>2. Chronicle'
  BY WriterIsProposal
  DEF IInv, TypeOK, FileType, Chronicle, Mutating, Tool,
      Writing, Thread, WriteStep, WriteRefused, TempCreated, Filled, Synced, Fsync,
      WriteFails, Replaced, taskVars, consentVars, effectVars
<1>3. Consents'
  BY DEF IInv, Consents, Mutating, Thread, WriteStep, WriteRefused, TempCreated,
      Filled, Synced, Fsync, WriteFails, Replaced, taskVars, consentVars, effectVars
<1>4. Writes'
  BY WriterIsProposal
  DEF IInv, TypeOK, FileType, Writes, Promise!Allowed,
      Mutating, Tool, Writing, Thread, WriteStep, WriteRefused, TempCreated, Filled,
      Synced, Fsync, WriteFails, Replaced, taskVars, consentVars, effectVars
<1>5. InHand'
  BY WriterIsProposal
  DEF IInv, TypeOK, FileType, Writes, Promise!Allowed, InHand,
      Mutating, Tool, Writing, Thread, WriteStep, WriteRefused, TempCreated, Filled,
      Synced, Fsync, WriteFails, Replaced, taskVars, consentVars, effectVars
<1>6. (ReplacesSynced /\ FileIntact)'
  BY WriterIsProposal, FileKept DEF IInv, TypeOK, Thread
<1>7. AuditIsFaithful'
  BY DEF IInv, TypeOK, FileType, Writes, Promise!Allowed, InHand, AuditIsFaithful,
      Mutating, Tool, Writing, Thread, WriteStep, WriteRefused, TempCreated, Filled,
      Synced, Fsync, WriteFails, Replaced, taskVars, consentVars, effectVars
<1>8. QED
  BY <1>1, <1>2, <1>3, <1>4, <1>5, <1>6, <1>7 DEF IInv

\* The operator interrupts the session.
LEMMA InterruptKeeps ==
  ASSUME IInv, Interrupt
  PROVE  IInv'
<1>1. TypeOK'
  BY DEF IInv, TypeOK, FileType, Mutating, Tool, Writing, Interrupt, Records,
      consentVars, fileVars
<1>2. Chronicle'
  BY DEF IInv, TypeOK, FileType, Chronicle, InHand, Mutating, Tool, Writing,
      Interrupt, Records, consentVars, fileVars
<1>3. Consents'
  BY DEF IInv, Consents, Mutating, Interrupt, Records, consentVars, fileVars
<1>4. Writes'
  BY DEF IInv, Writes, Promise!Allowed, Writing, Interrupt, Records, consentVars,
      fileVars
<1>5. InHand'
  BY DEF IInv, InHand, Mutating, Writing, Interrupt, Records, consentVars, fileVars
<1>6. (ReplacesSynced /\ FileIntact)'
  BY DEF IInv, ReplacesSynced, FileIntact, Writing, Interrupt, Records, consentVars,
      fileVars
<1>7. AuditIsFaithful'
  BY DEF IInv, TypeOK, FileType, InHand, AuditIsFaithful, Mutating, Tool, Writing,
      Interrupt, Records, consentVars, fileVars
<1>8. QED
  BY <1>1, <1>2, <1>3, <1>4, <1>5, <1>6, <1>7 DEF IInv

\* The process ends.
LEMMA ExitKeeps ==
  ASSUME IInv, Exit
  PROVE  IInv'
<1>1. TypeOK'
  BY DEF IInv, TypeOK, FileType, Mutating, Tool, Writing, Exit, consentVars,
      effectVars, fileVars
<1>2. Chronicle'
  BY DEF IInv, Chronicle, Writing, Exit, consentVars, effectVars, fileVars
<1>3. Consents'
  BY DEF IInv, Consents, Mutating, Writing, Exit, consentVars, effectVars, fileVars
<1>4. Writes'
  BY DEF IInv, Writes, Promise!Allowed, Writing, Exit, consentVars, effectVars,
      fileVars
<1>5. InHand'
  BY DEF IInv, InHand, Mutating, Writing, Exit, consentVars, effectVars, fileVars
<1>6. (ReplacesSynced /\ FileIntact)'
  BY DEF IInv, ReplacesSynced, FileIntact, Writing, Exit, consentVars, effectVars,
      fileVars
<1>7. AuditIsFaithful'
  BY DEF IInv, AuditIsFaithful, Writing, Exit, consentVars, effectVars, fileVars
<1>8. QED
  BY <1>1, <1>2, <1>3, <1>4, <1>5, <1>6, <1>7 DEF IInv

\* The machine stops.
LEMMA CrashKeeps ==
  ASSUME IInv, Crash
  PROVE  IInv'
<1>1. TypeOK'
  BY DEF IInv, TypeOK, FileType, Mutating, Tool, Writing, Crash, PowerLoss,
      effectVars
<1>2. Chronicle'
  BY WriterIsProposal
  DEF IInv, Chronicle, Writing, Crash, PowerLoss, effectVars
<1>3. Consents'
  BY DEF IInv, Consents, Mutating, Writing, Crash, PowerLoss, effectVars
<1>4. Writes'
  BY WriterIsProposal
  DEF IInv, Writes, Promise!Allowed, Writing, Crash,
      PowerLoss, effectVars
<1>5. InHand'
  BY DEF IInv, InHand, Mutating, Writing, Crash, PowerLoss, effectVars
<1>6. (ReplacesSynced /\ FileIntact)'
  BY DEF IInv, ReplacesSynced, FileIntact, Writing, Crash, PowerLoss, effectVars
<1>7. AuditIsFaithful'
  BY DEF IInv, AuditIsFaithful, Writing, Crash, PowerLoss, effectVars
<1>8. QED
  BY <1>1, <1>2, <1>3, <1>4, <1>5, <1>6, <1>7 DEF IInv

\* The initial states satisfy it.
LEMMA InitIInv == Init => IInv
<1> SUFFICES ASSUME Init PROVE IInv
  OBVIOUS
<1>1. \E i \in Id : cur = <<0, i>> /\ cur \in Proposal
  BY ChatAssumption DEF Init, Proposal
<1>2. FileType /\ ReplacesSynced /\ FileIntact
  BY DEF Init, FileInit, FileType, ReplacesSynced, FileIntact, Writing
<1>3. TypeOK
  BY ChatAssumption, <1>1, <1>2 DEF Init, TypeOK, Mutating, Tool
<1>4. Chronicle
  <2>1. \A t \in 0..MaxTurns, i \in Id : tool[<<t, i>>] = None
    BY DEF Init, Proposal
  <2>2. QED
    BY WriterIsProposal, <2>1 DEF Init, FileInit, Chronicle
<1>5. Consents /\ InHand /\ AuditIsFaithful
  BY DEF Init, Consents, InHand, AuditIsFaithful
<1>6. Writes
  BY WriterIsProposal, ChatAssumption DEF Init, FileInit, Writes, Writing
<1>7. QED
  BY <1>2, <1>3, <1>4, <1>5, <1>6 DEF IInv

\* A step that changes nothing keeps it.
LEMMA StutterIInv == IInv /\ UNCHANGED vars => IInv'
<1> SUFFICES ASSUME IInv, UNCHANGED vars PROVE IInv'
  OBVIOUS
<1> USE DEF vars, taskVars, consentVars, effectVars, fileVars
<1>1. TypeOK'
  BY DEF IInv, TypeOK, FileType
<1>2. Chronicle' /\ Consents' /\ InHand' /\ AuditIsFaithful'
  BY DEF IInv, Chronicle, Consents, InHand, AuditIsFaithful
<1>3. Writes'
  BY DEF IInv, Writes, Promise!Allowed
<1>4. (ReplacesSynced /\ FileIntact)'
  BY DEF IInv, ReplacesSynced, FileIntact
<1>5. QED
  BY <1>1, <1>2, <1>3, <1>4 DEF IInv

\* The invariant holds in every reachable state.
THEOREM Invariance == Spec => []IInv
<1>1. IInv /\ Next => IInv'
  BY AttachKeeps, GatherKeeps, GatheredKeeps, UserSpeaksKeeps, UserLeavesKeeps,
     TurnEndsKeeps, BackendFailsKeeps, DuplicateKeeps, ProposedKeeps, PolicyDeniesKeeps,
     RejectedKeeps, AskKeeps, AuthorizedKeeps, ApprovedKeeps, DeniedKeeps,
     ReadReturnsKeeps, WriteReturnsKeeps, RecordedKeeps, RecordFailsKeeps,
     OperatorAnswersKeeps, ThreadKeeps, InterruptKeeps, ExitKeeps, CrashKeeps
  DEF Next, TurnStep, ExecuteStep
<1>2. IInv /\ [Next]_vars => IInv'
  BY <1>1, StutterIInv
<1>3. QED
  BY InitIInv, <1>2, PTL DEF Spec

\* Every variable keeps its type: no turn has more iterations than
\* local_max_actions_per_turn.
THEOREM TypeCorrect == Spec => []TypeOK
<1>1. IInv => TypeOK
  BY DEF IInv
<1>2. QED
  BY Invariance, <1>1, PTL

\* FilesystemOperations.write never tears its target, and cleans up after itself
\* whatever fails, whichever writes run at once and whenever the machine stops.
THEOREM FileStaysIntact == Spec => []FileIntact
<1>1. IInv => FileIntact
  BY DEF IInv
<1>2. QED
  BY Invariance, <1>1, PTL

\* The local audit log and what the model is told agree with what happened,
\* through refusals, failures of the log, interrupts and crashes.
THEOREM AuditTellsTheTruth == Spec => []AuditIsFaithful
<1>1. IInv => AuditIsFaithful
  BY DEF IInv
<1>2. QED
  BY Invariance, <1>1, PTL

-----------------------------------------------------------------------------
(* The refinement of Consent.                                              *)

\* An action of the context is a new proposal.
LEMMA GatherPromised == ASSUME IInv, NEW i \in Id, Gather(i) PROVE Promise!Next
<1> DEFINE g == <<0, i>>
<1>1. g \in Proposal /\ tool[g] = None /\ tool' = [tool EXCEPT ![g] = "read"]
  BY ChatAssumption DEF Gather, Proposal
<1> HIDE DEF g
<1>2. UNCHANGED <<permission, answer, deeds, told>>
  BY DEF Gather, effectVars
<1>3. Promise!Propose(g)
  BY <1>1, <1>2 DEF Promise!Propose, Tool
<1>4. QED
  BY <1>1, <1>3 DEF Promise!Next

\* So is an id not handled in this turn.
LEMMA ProposedPromised ==
  ASSUME IInv, NEW i \in Id, NEW t \in Tool, Proposed(i, t)
  PROVE  Promise!Next
<1> DEFINE g == <<turn, i>>
<1>1. turn \in 0..MaxTurns /\ turn > 0
  BY DEF IInv, TypeOK, Chronicle, Proposed
<1>2. tool[g] = None
  BY <1>1 DEF IInv, Chronicle, Proposed, Handled
<1>3. g \in Proposal /\ tool' = [tool EXCEPT ![g] = t]
  BY <1>1 DEF Proposal, Proposed
<1> HIDE DEF g
<1>4. UNCHANGED <<permission, answer, deeds, told>>
  BY DEF Proposed, effectVars
<1>5. Promise!Propose(g)
  BY <1>2, <1>3, <1>4 DEF Promise!Propose
<1>6. QED
  BY <1>3, <1>5 DEF Promise!Next

\* An open prompt is of a session that may write, and answered once.
LEMMA OperatorAnswersPromised ==
  ASSUME IInv, NEW p \in Proposal, OperatorAnswers(p)
  PROVE  Promise!Next
<1>1. permission = "READ_WRITE" /\ tool[p] \in Mutating /\ answer[p] = "none"
  BY DEF IInv, Consents, OperatorAnswers
<1>2. Promise!Answer(p)
  BY <1>1 DEF OperatorAnswers, Promise!Answer, effectVars
<1>3. QED
  BY <1>2 DEF Promise!Next

\* What is dispatched is allowed: by its tool, by a grant or by an answer.
LEMMA DispatchPromised ==
  ASSUME IInv, Authorized \/ Approved
  PROVE  Promise!Next \/ UNCHANGED Promise!vars
<1>1. /\ cur \in Proposal /\ deeds[cur] = 0 /\ told[cur] = "none"
      /\ tool[cur] # None /\ deeds \in [Proposal -> Nat]
  BY DEF IInv, TypeOK, InHand, Authorized, Approved
<1>2. Promise!Allowed(cur)
  BY <1>1
  DEF IInv, TypeOK, InHand, Consents, Authorized, Approved, Forbidden, Granted, Mutating,
      Tool, Promise!Allowed
<1>3. UNCHANGED <<permission, tool, answer, told>>
  BY DEF Authorized, Approved, consentVars
<1>4. UNCHANGED deeds \/ deeds' = [deeds EXCEPT ![cur] = @ + 1]
  BY DEF Authorized, Approved, Dispatch
<1>5. CASE UNCHANGED deeds
  BY <1>3, <1>5 DEF Promise!vars
<1>6. CASE deeds' = [deeds EXCEPT ![cur] = @ + 1]
  <2>1. Promise!Act(cur)
    BY <1>1, <1>2, <1>3, <1>6 DEF Promise!Act
  <2>2. QED
    BY <1>1, <2>1 DEF Promise!Next
<1>7. QED
  BY <1>4, <1>5, <1>6

\* A read is allowed to anyone.
LEMMA ReadReturnsPromised ==
  ASSUME IInv, ReadReturns
  PROVE  Promise!Next \/ UNCHANGED Promise!vars
  BY ChatAssumption
  DEF ReadReturns, Records, consentVars, IInv, TypeOK, InHand, Mutating, Promise!vars,
      Promise!Next, Promise!Act, Promise!Allowed

\* A write that moves its file into place was allowed and is not reported yet.
LEMMA ThreadPromised ==
  ASSUME IInv, NEW p \in Proposal, Thread(p)
  PROVE  Promise!Next \/ UNCHANGED Promise!vars
<1>1. CASE WriteStep(p) /\ UNCHANGED <<taskVars, consentVars, effectVars>>
  BY <1>1 DEF consentVars, effectVars, Promise!vars
<1>2. CASE Replaced(p) /\ deeds' = [deeds EXCEPT ![p] = @ + 1]
           /\ UNCHANGED <<taskVars, consentVars, log, told>>
  <2>1. stage[p] = "replacing" /\ "replacing" \in Writing
    BY <1>2 DEF Replaced, Writing
  <2>2. tool[p] = "write" /\ deeds[p] = 0 /\ Promise!Allowed(p)
    BY <2>1 DEF IInv, Writes
  <2>3. told[p] \in {"none", "unknown"} /\ deeds \in [Proposal -> Nat] /\ tool[p] # None
    BY ChatAssumption, <2>1, <2>2 DEF IInv, Writes, TypeOK
  <2>4. Promise!Act(p)
    BY <1>2, <2>2, <2>3 DEF Promise!Act, consentVars
  <2>5. QED
    BY <2>4 DEF Promise!Next
<1>3. QED
  BY <1>1, <1>2 DEF Thread

\* What the model is told is true.
LEMMA RecordedPromised ==
  ASSUME IInv, Recorded \/ RecordFails
  PROVE  Promise!Next \/ UNCHANGED Promise!vars
  BY DEF Recorded, Report, RecordFails, Verdict, consentVars, IInv, TypeOK, InHand, Promise!vars,
         Promise!Next, Promise!Tell

\* The other steps are nothing to Consent.
LEMMA SilentSteps ==
  ASSUME \/ Attach \/ Gathered \/ UserSpeaks \/ UserLeaves \/ TurnEnds \/ BackendFails
         \/ \E i \in Id : Duplicate(i)
         \/ PolicyDenies \/ Rejected \/ Ask \/ Denied \/ WriteReturns
         \/ Interrupt \/ Exit \/ Crash
  PROVE  UNCHANGED Promise!vars
  BY DEF Attach, Gathered, UserSpeaks, TurnBegins, UserLeaves, TurnEnds, BackendFails,
         Duplicate, PolicyDenies, Rejected, Ask, Denied, WriteReturns, Interrupt, Exit,
         Crash, consentVars, effectVars, Promise!vars

\* A local session keeps the promise of Consent: at most one effect for each id
\* of a turn, none without consent, and nothing false told to the model.
THEOREM ConsentKept == Spec => ImplementsConsent
<1>1. Init => Promise!Init
  BY DEF Init, Promise!Init
<1>2. IInv /\ Next => Promise!Next \/ UNCHANGED Promise!vars
  BY GatherPromised, ProposedPromised, OperatorAnswersPromised, DispatchPromised,
     ReadReturnsPromised, ThreadPromised, RecordedPromised, SilentSteps
  DEF Next, TurnStep, ExecuteStep
<1>3. UNCHANGED vars => UNCHANGED Promise!vars
  BY DEF vars, consentVars, effectVars, Promise!vars
<1>4. IInv /\ [Next]_vars => [Promise!Next]_(Promise!vars)
  BY <1>2, <1>3
<1>5. QED
  BY <1>1, <1>4, Invariance, PTL DEF Spec, ImplementsConsent, Promise!Spec

-----------------------------------------------------------------------------
(* What the promise of Consent is worth.                                   *)

\* A proposal has its effect at most once, and only if it is allowed; what the
\* model was told as a fact is one.
ConsentedOnce ==
    \A p \in Proposal :
        /\ deeds[p] \in {0, 1}
        /\ deeds[p] = 1 => tool[p] # None /\ Promise!Allowed(p)
        /\ told[p] = "ok" => deeds[p] = 1
        /\ told[p] = "failed" => deeds[p] = 0

\* Consent alone keeps it, with these types.
ConsentTypes ==
    /\ tool \in [Proposal -> Tool \cup {None}]
    /\ answer \in [Proposal -> {"none", "once", "session", "deny", "lost"}]
    /\ deeds \in [Proposal -> Nat]
    /\ told \in [Proposal -> {"none", "ok", "failed", "unknown"}]
    /\ \A p \in Proposal : tool[p] = None =>
          answer[p] = "none" /\ deeds[p] = 0 /\ told[p] = "none"

\* What is allowed stays allowed: an answer and a tool are final.
LEMMA AllowedStays ==
  ASSUME ConsentTypes, NEW q \in Proposal, Promise!Propose(q) \/ Promise!Answer(q),
         NEW p \in Proposal, tool[p] # None, Promise!Allowed(p)
  PROVE  Promise!Allowed(p)'
<1>1. /\ permission' = permission /\ tool'[p] = tool[p]
      /\ \A s \in Proposal : /\ answer[s] # "none" => answer'[s] = answer[s]
                             /\ tool[s] # None => tool'[s] = tool[s]
  BY DEF ConsentTypes, Promise!Propose, Promise!Answer
<1>2. \A s \in Proposal : answer[s] = "session" => tool[s] # None
  BY DEF ConsentTypes
<1>3. QED
  BY <1>1, <1>2 DEF Promise!Allowed

\* Every implementation of Consent has it.
LEMMA ConsentPromises == Promise!Spec => [](ConsentTypes /\ ConsentedOnce)
<1>1. Promise!Init => ConsentTypes /\ ConsentedOnce
  BY DEF Promise!Init, ConsentTypes, ConsentedOnce
<1>2. ConsentTypes /\ ConsentedOnce /\ [Promise!Next]_(Promise!vars)
        => (ConsentTypes /\ ConsentedOnce)'
  <2> SUFFICES ASSUME ConsentTypes, ConsentedOnce, [Promise!Next]_(Promise!vars)
               PROVE  ConsentTypes' /\ ConsentedOnce'
    OBVIOUS
  <2>1. ASSUME NEW p \in Proposal, Promise!Propose(p) \/ Promise!Answer(p)
        PROVE  ConsentTypes' /\ ConsentedOnce'
    <3>1. ConsentTypes'
      BY <2>1, ChatAssumption DEF ConsentTypes, Promise!Propose, Promise!Answer, Tool, Mutating
    <3>2. \A q \in Proposal : tool[q] # None => tool'[q] # None
      BY <2>1 DEF ConsentTypes, Promise!Propose, Promise!Answer
    <3>3. UNCHANGED <<deeds, told>>
      BY <2>1 DEF Promise!Propose, Promise!Answer
    <3>4. \A q \in Proposal : tool[q] # None /\ Promise!Allowed(q) => Promise!Allowed(q)'
      BY <2>1, AllowedStays
    <3>5. QED
      BY <3>1, <3>2, <3>3, <3>4 DEF ConsentedOnce
  <2>2. ASSUME NEW p \in Proposal, Promise!Act(p) \/ Promise!Tell(p)
        PROVE  ConsentTypes' /\ ConsentedOnce'
    <3>1. UNCHANGED <<permission, tool, answer>>
      BY <2>2 DEF Promise!Act, Promise!Tell
    <3>2. \A q \in Proposal : Promise!Allowed(q)' <=> Promise!Allowed(q)
      BY <3>1 DEF Promise!Allowed
    <3>3. ConsentTypes'
      BY <2>2 DEF ConsentTypes, Promise!Act, Promise!Tell
    <3>4. QED
      BY <2>2, <3>1, <3>2, <3>3 DEF ConsentTypes, ConsentedOnce, Promise!Act, Promise!Tell
  <2>3. CASE UNCHANGED Promise!vars
    BY <2>3 DEF Promise!vars, ConsentTypes, ConsentedOnce, Promise!Allowed
  <2>4. QED
    BY <2>1, <2>2, <2>3 DEF Promise!Next
<1>3. QED
  BY <1>1, <1>2, PTL DEF Promise!Spec

\* By the refinement, so does a session: nothing that the chat model proposes
\* happens twice or unasked.
THEOREM EffectsAreConsented == Spec => []ConsentedOnce
  BY ConsentKept, ConsentPromises, PTL DEF ImplementsConsent

\* A session started without write permission leaves the file as it was and
\* starts nothing, whatever the model proposes and the operator types.
ReadOnlyTouchesNothing ==
    permission = "READ_ONLY" =>
        file = "old" /\ \A p \in Proposal : deeds[p] > 0 => tool[p] = "read"

\* The policy is asked before the operator is, and every write goes by it.
THEOREM ReadOnlyIsReadOnly == Spec => []ReadOnlyTouchesNothing
<1> DEFINE Untouched == permission = "READ_ONLY" => file = "old"
<1>1. Init => Untouched
  BY DEF Init, FileInit
<1>2. IInv /\ Untouched /\ [Next]_vars => Untouched'
  <2> SUFFICES ASSUME IInv, Untouched, [Next]_vars
               PROVE  Untouched'
    OBVIOUS
  <2>1. ASSUME NEW p \in Proposal, Thread(p)
        PROVE  Untouched'
    <3>1. CASE WriteStep(p) /\ UNCHANGED <<taskVars, consentVars, effectVars>>
      BY <3>1 DEF WriteStep, WriteRefused, TempCreated, Filled, Synced, WriteFails, consentVars
    <3>2. CASE Replaced(p) /\ UNCHANGED <<taskVars, consentVars, log, told>>
      <4>1. stage[p] # "idle" /\ stage[p] \in Writing /\ permission' = permission
        BY <3>2 DEF Replaced, Writing, consentVars
      <4>2. permission = "READ_WRITE"
        BY <4>1 DEF IInv, Writes, Promise!Allowed, Mutating
      <4>3. QED
        BY <4>1, <4>2
    <3>3. QED
      BY <2>1, <3>1, <3>2 DEF Thread
  <2>2. CASE Crash
    BY <2>2 DEF Crash, PowerLoss
  <2>3. CASE TurnStep \/ ExecuteStep \/ UserSpeaks \/ UserLeaves \/ Interrupt \/ Exit
             \/ \E p \in Proposal : OperatorAnswers(p)
    <3>1. UNCHANGED <<file, permission>>
      BY <2>3
      DEF TurnStep, ExecuteStep, Attach, Gathered, TurnEnds, BackendFails, Gather, Duplicate,
          Proposed, PolicyDenies, Rejected, Ask, Authorized, Approved, Denied, Dispatch,
          WriteBegins, ReadReturns, WriteReturns, Recorded, RecordFails, UserSpeaks,
          UserLeaves, TurnBegins, Interrupt, Exit, OperatorAnswers, consentVars, fileVars
    <3>2. QED
      BY <3>1
  <2>4. CASE UNCHANGED vars
    BY <2>4 DEF vars, consentVars, fileVars
  <2>5. QED
    BY <2>1, <2>2, <2>3, <2>4 DEF Next
<1>3. IInv /\ ConsentTypes /\ ConsentedOnce /\ Untouched => ReadOnlyTouchesNothing
  BY DEF ConsentTypes, ConsentedOnce, ReadOnlyTouchesNothing, Promise!Allowed, Mutating, Tool
<1>4. QED
  BY Invariance, ConsentKept, ConsentPromises, <1>1, <1>2, <1>3, PTL
  DEF Spec, ImplementsConsent

\* Two writes of a session run at once only after an interrupt: until then
\* execute() waits for the one thread it has started.
OneWriterAtATime ==
    \A p, q \in Proposal :
        stage[p] \in Writing /\ stage[q] \in Writing => p = q \/ interrupt = "heard"

\* What shields the writes of one session from each other.
THEOREM WritersTakeTurns == Spec => []OneWriterAtATime
<1>1. IInv => OneWriterAtATime
  BY DEF IInv, Writes, OneWriterAtATime
<1>2. QED
  BY Invariance, <1>1, PTL

\* What was answered, granted, recorded or told is never taken back, and an
\* effect that comes after its report is one reported as unknown, of a write
\* that an interrupt left to its thread.
HistoryStands ==
    /\ granted \subseteq granted'
    /\ \A p \in Proposal :
         /\ answer[p] # "none" => answer'[p] = answer[p]
         /\ log[p] # "none" => log'[p] = log[p]
         /\ told[p] # "none" => told'[p] = told[p]
         /\ deeds'[p] # deeds[p] /\ told[p] # "none" =>
              told[p] = "unknown" /\ interrupt = "heard"
HistoryIsKept == [][HistoryStands]_vars

\* One record and one report for each proposal, one answer for each prompt.
THEOREM HistoryIsFinal == Spec => HistoryIsKept
<1>1. IInv /\ [Next]_vars => HistoryStands
  <2> SUFFICES ASSUME IInv, [Next]_vars PROVE HistoryStands
    OBVIOUS
  <2> USE DEF HistoryStands, taskVars, consentVars, effectVars
  <2>1. ASSUME NEW p \in Proposal, OperatorAnswers(p) PROVE HistoryStands
    BY <2>1 DEF OperatorAnswers, IInv, Consents, TypeOK
  <2>2. ASSUME NEW p \in Proposal, Thread(p) PROVE HistoryStands
    <3>1. CASE UNCHANGED <<taskVars, consentVars, effectVars>>
      BY <3>1
    <3>2. CASE Replaced(p) /\ deeds' = [deeds EXCEPT ![p] = @ + 1]
               /\ UNCHANGED <<taskVars, consentVars, log, told>>
      <4>1. stage[p] \in Writing
        BY <3>2 DEF Replaced, Writing
      <4>2. told[p] # "none" => told[p] = "unknown" /\ interrupt = "heard"
        BY <4>1 DEF IInv, Writes, InHand
      <4>3. QED
        BY <3>2, <4>2 DEF IInv, TypeOK
    <3>3. QED
      BY <2>2, <3>1, <3>2 DEF Thread
  <2>3. CASE Authorized \/ Approved \/ ReadReturns
    <3>1. cur \in Proposal /\ told[cur] = "none" /\ deeds \in [Proposal -> Nat]
      BY <2>3 DEF Authorized, Approved, ReadReturns, IInv, TypeOK, InHand
    <3>2. UNCHANGED <<answer, log, told>> /\ granted \subseteq granted'
      BY <2>3 DEF Authorized, Approved, ReadReturns
    <3>3. UNCHANGED deeds \/ deeds' = [deeds EXCEPT ![cur] = @ + 1]
      BY <2>3 DEF Authorized, Approved, Dispatch, ReadReturns
    <3>4. QED
      BY <3>1, <3>2, <3>3
  <2>4. CASE Recorded \/ RecordFails \/ Interrupt
    <3>1. pc = "recording" => log[cur] = "none" /\ told[cur] = "none"
      BY DEF IInv, InHand
    <3>2. QED
      BY <2>4, <3>1 DEF Recorded, RecordFails, Interrupt, IInv, TypeOK
  <2>5. CASE \/ TurnStep \/ UserSpeaks \/ UserLeaves \/ Exit \/ Crash
             \/ PolicyDenies \/ Rejected \/ Ask \/ Denied \/ WriteReturns \/ UNCHANGED vars
    <3>1. UNCHANGED <<granted, answer, deeds, log, told>>
      BY <2>5
      DEF TurnStep, Attach, Gathered, TurnEnds, BackendFails, Gather, Duplicate,
          Proposed, PolicyDenies, Rejected, Ask, Denied, WriteReturns, UserSpeaks,
          UserLeaves, TurnBegins, Exit, Crash, vars
    <3>2. QED
      BY <3>1
  <2>6. QED
    BY <2>1, <2>2, <2>3, <2>4, <2>5 DEF Next, ExecuteStep
<1>2. QED
  BY Invariance, <1>1, PTL DEF Spec, HistoryIsKept

=============================================================================
