------------------------- MODULE FolderPairingProofs -------------------------
(***************************************************************************)
(* The safety properties of FolderPairing hold for any number of senders,  *)
(* comparison codes, invitations and requests under way.  PairingInv is    *)
(* inductive: what a request carries from its first database call stays    *)
(* true (RequestsKeepTheirGround), and everything else is asked again by   *)
(* the second call, in the transaction that writes.                        *)
(***************************************************************************)
EXTENDS FolderPairing, TLAPS

USE PairingAssumption

\* A new Folder (create) satisfies the invariant.
LEMMA InitInv == Init => PairingInv
<1> SUFFICES ASSUME Init PROVE PairingInv
  OBVIOUS
<1>1. CreatedPanel \in Panel
  BY DEF CreatedPanel, Panel
<1>2. TypeOK
  <2>1. 1 \in 1..MaxInvitations
    OBVIOUS
  <2> QED
    BY <1>1, <2>1 DEF Init, TypeOK
<1>3. RequestsKeepTheirGround /\ ExitDisconnects
  BY DEF Init, RequestsKeepTheirGround, ExitDisconnects
<1>4. ReadyWasApproved /\ RevokedByParty /\ ReceiptsAreHonest
  BY DEF Init, ReadyWasApproved, RevokedByParty, ReceiptsAreHonest
<1> QED
  BY <1>2, <1>3, <1>4 DEF PairingInv

\* The two shapes of a request: the ones of the panel, and the exit requests
\* of either party.
LEMMA RequestShape ==
  ASSUME NEW r \in Requests
  PROVE  /\ r.kind \in {"check", "confirm", "renew"} =>
              /\ r.code \in Codes \cup {NoCode}
              /\ r.awaited \in BOOLEAN
              /\ [r EXCEPT !.awaited = FALSE] \in Requests
              /\ [r EXCEPT !.awaited = FALSE].kind = r.kind
              /\ [r EXCEPT !.awaited = FALSE].code = r.code
              /\ [r EXCEPT !.stage = "identified"] \in Requests
              /\ [r EXCEPT !.stage = "identified"].kind = r.kind
              /\ [r EXCEPT !.stage = "identified"].code = r.code
         /\ r.kind \in {"exit", "ack"} => r.who \in Principals /\ r.role \in Roles
         /\ r.kind \in {"exit", "ack", "check", "confirm", "renew"}
<1>1. CASE r \in [kind : {"exit", "ack"}, who : Principals, role : Roles]
  BY <1>1
<1>2. CASE r \in [kind : {"check", "confirm", "renew"}, code : Codes \cup {NoCode},
                  stage : {"sent", "identified"}, awaited : BOOLEAN]
  BY <1>2 DEF Requests
<1> QED
  BY <1>1, <1>2 DEF Requests

\* A step of the panel or of the relay's look-ups that leaves the Folder's rows
\* alone keeps the invariant, if the requests it leaves keep their ground.
LEMMA RowsUntouched ==
  ASSUME PairingInv, TypeOK', RequestsKeepTheirGround',
         approved \subseteq approved',
         UNCHANGED <<folder, exit, receipts, admitted, localDone, revoker>>
  PROVE  PairingInv'
BY DEF PairingInv, folder, ExitDisconnects, ReadyWasApproved, RevokedByParty,
   ReceiptsAreHonest

\* What the panel shows is well typed whatever it waits for (SetupTask::run and
\* its answer), and when it shows no invitation.
LEMMA PanelTyped ==
  ASSUME NEW shown \in Panel, NEW b \in BOOLEAN
  PROVE  /\ [shown EXCEPT !.busy = b] \in Panel
         /\ [shown EXCEPT !.code = 0] \in Panel
BY DEF Panel

\* Opening the dialog and starting a request of the panel: a confirmation
\* carries the code that its user has just accepted.
LEMMA PanelStarts ==
  ASSUME PairingInv, Reopen \/ Check \/ Confirm \/ Renew
  PROVE  PairingInv'
<1> USE DEF PairingInv
<1>0. /\ UNCHANGED <<folder, exit, receipts, admitted, localDone, revoker, seen>>
      /\ approved \subseteq approved'
  BY DEF Reopen, Check, Confirm, Renew
<1>1. CASE Reopen
  <2>0. CreatedPanel \in Panel
    BY DEF CreatedPanel, Panel
  <2>1. panel' \in Panel /\ UNCHANGED <<inflight, approved>>
    BY <1>1, <2>0, PanelTyped DEF Reopen
  <2>2. TypeOK' /\ RequestsKeepTheirGround'
    BY <1>0, <2>1 DEF TypeOK, folder, RequestsKeepTheirGround
  <2> QED
    BY <1>0, <2>2, RowsUntouched
<1>2. ASSUME NEW kind \in {"check", "confirm", "renew"},
             NEW code \in Codes \cup {NoCode}, NEW shown \in Panel,
             Run(kind, code, shown), approved' \subseteq Codes,
             kind = "confirm" => code \in approved'
      PROVE  PairingInv'
  <2> DEFINE q == [kind |-> kind, code |-> code, stage |-> "sent", awaited |-> TRUE]
  <2>1. q \in Requests /\ q.kind = kind /\ q.code = code
    BY DEF Requests
  <2>2. inflight' = inflight \cup {q} /\ panel' \in Panel
    BY <1>2, PanelTyped DEF Run, Admit
  <2>3. TypeOK'
    BY <1>0, <1>2, <2>1, <2>2 DEF TypeOK, folder
  <2>4. RequestsKeepTheirGround'
    BY <1>0, <1>2, <2>1, <2>2 DEF RequestsKeepTheirGround
  <2> QED
    BY <1>0, <2>3, <2>4, RowsUntouched
<1>3. CASE Check
  <2>1. [panel EXCEPT !.verification = NoCode, !.confirm = FALSE] \in Panel
    BY DEF TypeOK, Panel
  <2> QED
    BY <1>2, <1>3, <2>1 DEF Check, TypeOK
<1>4. CASE Confirm
  <2>1. /\ [panel EXCEPT !.confirm = FALSE] \in Panel
        /\ panel.verification \in Codes \cup {NoCode}
    BY DEF TypeOK, Panel
  <2> QED
    BY <1>2, <1>4, <2>1 DEF Confirm, TypeOK
<1>5. CASE Renew
  BY <1>2, <1>5 DEF Renew, TypeOK
<1> QED
  BY <1>1, <1>3, <1>4, <1>5

\* The relay's look-ups, its answers to a check, and lost or abandoned requests
\* change no row: the request goes on, goes on unawaited, or ends.
LEMMA LookUps ==
  ASSUME PairingInv, NEW r \in inflight,
         \/ CheckAnswer(r) \/ ConfirmIdentify(r) \/ RenewIdentify(r)
         \/ GiveUp(r) \/ Drop(r)
  PROVE  PairingInv'
<1> USE DEF PairingInv
<1>0. /\ UNCHANGED <<folder, exit, receipts, admitted, localDone, revoker, seen, approved>>
      /\ r \in Requests
  BY DEF CheckAnswer, ConfirmIdentify, RenewIdentify, GiveUp, Drop, TypeOK
<1>1. panel' \in Panel
  <2>1. ASSUME NEW shown \in Panel, Answer(r, shown) PROVE panel' \in Panel
    BY <2>1, PanelTyped DEF Answer, TypeOK
  <2>2. CASE CheckAnswer(r)
    <3>1. [panel EXCEPT !.verification = Handshake.verification, !.confirm = TRUE] \in Panel
      BY DEF Handshake, TypeOK, Panel
    <3> QED
      BY <2>1, <2>2, <3>1 DEF CheckAnswer, TypeOK
  <2> QED
    BY <2>1, <2>2 DEF ConfirmIdentify, RenewIdentify, GiveUp, Drop, TypeOK
<1>2. \/ Done(r)
      \/ r.kind \in {"confirm", "renew"} /\ Identified(r)
      \/ r.kind \in {"check", "confirm", "renew"}
         /\ inflight' = (inflight \ {r}) \cup {[r EXCEPT !.awaited = FALSE]}
  BY DEF CheckAnswer, ConfirmIdentify, RenewIdentify, GiveUp, Drop
<1>3. inflight' \subseteq Requests
  BY <1>0, <1>2, RequestShape DEF Done, Identified, TypeOK
<1>4. TypeOK'
  BY <1>0, <1>1, <1>3 DEF TypeOK, folder
<1>5. RequestsKeepTheirGround'
  <2> SUFFICES ASSUME NEW q \in inflight'
               PROVE  /\ q.kind = "confirm" => q.code \in approved
                      /\ q.kind \in {"exit", "ack"} => q.role = RoleOf(q.who)
                      /\ q.kind = "ack" => q.who \in localDone
    BY <1>0 DEF RequestsKeepTheirGround, RoleOf
  <2>1. CASE q \in inflight
    BY <2>1 DEF RequestsKeepTheirGround
  <2>2. CASE q \notin inflight
    <3>1. q.kind = r.kind /\ q.code = r.code
          /\ r.kind \in {"check", "confirm", "renew"}
      BY <1>0, <1>2, <2>2, RequestShape DEF Done, Identified
    <3> QED
      BY <3>1 DEF RequestsKeepTheirGround
  <2> QED
    BY <2>1, <2>2
<1> QED
  BY <1>0, <1>4, <1>5, RowsUntouched

\* Steps of the relay and of the devices on the Folder outside the panel's
\* requests: transfers, the expiry of the invitation, a claim, the exit's start,
\* its progress and the devices' own clean-up.
LEMMA FolderSteps ==
  ASSUME PairingInv,
         \/ Expire \/ ExitCleaned
         \/ \E who \in Principals : Transfer(who) \/ CleanLocally(who)
         \/ \E s \in Senders, i \in 1..MaxInvitations : Join(s, i)
  PROVE  PairingInv'
<1> USE DEF PairingInv
<1>0. UNCHANGED <<inflight, panel, seen, approved, receipts, revoker, disconnected, ready>>
  BY DEF Transfer, Expire, Join, Claim, ExitCleaned, CleanLocally, folder, desktop
<1>1. TypeOK'
  BY <1>0 DEF TypeOK, Transfer, Expire, Join, Claim, ExitCleaned, CleanLocally,
     folder, Principals
<1>2. RequestsKeepTheirGround'
  BY <1>0 DEF RequestsKeepTheirGround, RoleOf, Transfer, Expire, Join, Claim,
     ExitCleaned, CleanLocally
<1>3. ExitDisconnects'
  BY <1>0 DEF ExitDisconnects, Transfer, Expire, Join, Claim, ExitCleaned,
     CleanLocally
<1>4. ReadyWasApproved'
  <2>1. ASSUME NEW who \in Principals, Transfer(who) PROVE ReadyWasApproved'
    <3>1. ready /\ UNCHANGED sender /\ admitted' = admitted \cup {who}
          /\ (who = Receiver \/ who = sender)
      BY <2>1, <1>0 DEF Transfer, RequireConnected, Handshake, Authorized, folder
    <3> QED
      BY <3>1, <1>0 DEF ReadyWasApproved
  <2>2. CASE ~\E who \in Principals : Transfer(who)
    BY <2>2, <1>0 DEF ReadyWasApproved, Expire, Join, Claim, ExitCleaned,
       CleanLocally, folder
  <2> QED
    BY <2>1, <2>2
<1>5. RevokedByParty'
  BY <1>0 DEF RevokedByParty, Transfer, Expire, Join, Claim, ExitCleaned,
     CleanLocally, folder
<1>6. ReceiptsAreHonest'
  BY <1>0 DEF ReceiptsAreHonest, ExitDisconnects, Transfer, Expire, Join, Claim,
     ExitCleaned, CleanLocally, folder
<1> QED
  BY <1>1, <1>2, <1>3, <1>4, <1>5, <1>6

\* A party's exit or receipt request is admitted with the role that its
\* credential has (exit.rs, the look-up before the write).
LEMMA PartyRequests ==
  ASSUME PairingInv, NEW who \in Principals,
         ExitIdentify(who) \/ AckIdentify(who)
  PROVE  PairingInv'
<1> USE DEF PairingInv
<1>0. UNCHANGED <<folder, exit, receipts, admitted, localDone, revoker, panel, seen,
                  approved>>
  BY DEF ExitIdentify, AckIdentify, desktop
<1>1. PICK k \in {"exit", "ack"} :
        /\ inflight' = inflight \cup {[kind |-> k, who |-> who, role |-> RoleOf(who)]}
        /\ k = "ack" => who \in localDone
  BY DEF ExitIdentify, AckIdentify, Admit
<1> DEFINE q == [kind |-> k, who |-> who, role |-> RoleOf(who)]
<1>a. q \in Requests /\ q.kind = k /\ q.who = who /\ q.role = RoleOf(who)
  BY DEF Requests, RoleOf, Roles
<1> HIDE DEF q
<1>2. TypeOK'
  BY <1>0, <1>1, <1>a DEF TypeOK, folder, q
<1>3. RequestsKeepTheirGround'
  <2>1. inflight' = inflight \cup {q} /\ \A w : RoleOf(w)' = RoleOf(w)
    BY <1>1 DEF q, RoleOf
  <2> QED
    BY <1>0, <1>1, <1>a, <2>1 DEF RequestsKeepTheirGround
<1> QED
  BY <1>0, <1>2, <1>3, RowsUntouched

\* The second database call of a confirmation: the sender it makes ready has
\* the very code that the request carries, which the user accepted.
LEMMA ConfirmWriteInv ==
  ASSUME PairingInv, NEW r \in inflight, ConfirmWrite(r)
  PROVE  PairingInv'
<1> USE DEF PairingInv
<1>0. /\ UNCHANGED <<invite, expired, sender, disconnected, exit, receipts, seen,
                     admitted, approved, localDone, revoker>>
      /\ inflight' \subseteq inflight
      /\ r \in Requests /\ r.kind = "confirm"
  BY DEF ConfirmWrite, Done, TypeOK
<1>1. panel' \in Panel
  BY PanelTyped DEF ConfirmWrite, Answer, TypeOK
<1>2. TypeOK'
  BY <1>0, <1>1 DEF TypeOK, ConfirmWrite
<1>3. RequestsKeepTheirGround' /\ ExitDisconnects' /\ RevokedByParty'
      /\ ReceiptsAreHonest'
  BY <1>0 DEF RequestsKeepTheirGround, RoleOf, ExitDisconnects, RevokedByParty,
     ReceiptsAreHonest
<1>4. ReadyWasApproved'
  <2>1. CASE Handshake.verification = r.code
    <3>1. r.code \in approved /\ r.code # NoCode
      BY <1>0 DEF RequestsKeepTheirGround, TypeOK
    <3>2. ~disconnected /\ sender # NoSender /\ CodeOf[sender] = r.code
      BY <2>1, <3>1 DEF Handshake
    <3> QED
      BY <1>0, <3>1, <3>2 DEF ReadyWasApproved
  <2>2. CASE Handshake.verification # r.code
    BY <1>0, <2>2 DEF ReadyWasApproved, ConfirmWrite
  <2> QED
    BY <2>1, <2>2
<1> QED
  BY <1>2, <1>3, <1>4

\* The second database call of a renewal: in a connected Folder it drops the
\* sender and the readiness together; a disconnected one it leaves alone.
LEMMA RenewWriteInv ==
  ASSUME PairingInv, NEW r \in inflight, RenewWrite(r)
  PROVE  PairingInv'
<1> USE DEF PairingInv
<1>0. /\ UNCHANGED <<disconnected, exit, receipts, admitted, approved, localDone, revoker>>
      /\ inflight' \subseteq inflight
      /\ \/ UNCHANGED <<invite, expired, sender, ready, seen>>
         \/ ~disconnected /\ sender' = NoSender /\ ready' = FALSE /\ expired' = FALSE
  BY DEF RenewWrite, Done, folder
<1>1. invite' \in 1..MaxInvitations /\ seen' \subseteq 1..MaxInvitations
  <2>1. invite + 1 \in 1..MaxInvitations
    BY DEF RenewWrite, TypeOK
  <2> QED
    BY <2>1 DEF RenewWrite, RenewAnswer, folder, TypeOK
<1>2. panel' \in Panel
  <2>1. invite + 1 \in 0..MaxInvitations
    BY DEF RenewWrite, TypeOK
  <2>2. [panel EXCEPT !.code = invite + 1, !.verification = NoCode,
                      !.confirm = FALSE] \in Panel
    BY <2>1 DEF TypeOK, Panel
  <2> QED
    BY <2>2, PanelTyped DEF RenewWrite, RenewAnswer, Answer, TypeOK
<1>3. TypeOK'
  BY <1>0, <1>1, <1>2 DEF TypeOK
<1>4. RequestsKeepTheirGround' /\ ExitDisconnects'
  BY <1>0 DEF RequestsKeepTheirGround, RoleOf, ExitDisconnects
<1>5. ReadyWasApproved' /\ RevokedByParty' /\ ReceiptsAreHonest'
  BY <1>0 DEF ReadyWasApproved, RevokedByParty, ReceiptsAreHonest, ExitDisconnects
<1> QED
  BY <1>3, <1>4, <1>5

\* Disconnection and the exit's transaction: the party is looked up again, so
\* the revoker is a party now; a Folder nobody claimed owes no sender receipt.
LEMMA RevocationInv ==
  ASSUME PairingInv,
         \/ \E who \in Principals : Disconnect(who)
         \/ \E r \in inflight : ExitWrite(r)
  PROVE  PairingInv'
<1> USE DEF PairingInv
<1>0. /\ UNCHANGED <<panel, seen, approved, admitted, localDone, invite, sender>>
      /\ inflight' \subseteq inflight
  BY DEF Disconnect, ExitWrite, Done, Disconnected, desktop, folder
<1>1. \/ UNCHANGED <<folder, exit, receipts, revoker>>
      \/ \E who \in Principals :
           /\ Authorized(who) /\ Disconnected(who)
           /\ \/ UNCHANGED <<exit, receipts>>
              \/ /\ exit' = IF exit = "none" THEN "begun" ELSE exit
                 /\ receipts' = IF exit = "none" /\ sender = NoSender
                                THEN {"sender"} ELSE receipts
  BY RequestShape DEF Disconnect, ExitWrite, TypeOK
<1>2. CASE UNCHANGED <<folder, exit, receipts, revoker>>
  <2>1. TypeOK' /\ RequestsKeepTheirGround'
    BY <1>0, <1>2 DEF TypeOK, RequestsKeepTheirGround, RoleOf, folder
  <2> QED
    BY <1>0, <1>2, <2>1, RowsUntouched
<1>3. ASSUME NEW who \in Principals, Authorized(who), Disconnected(who),
             \/ UNCHANGED <<exit, receipts>>
             \/ /\ exit' = IF exit = "none" THEN "begun" ELSE exit
                /\ receipts' = IF exit = "none" /\ sender = NoSender
                               THEN {"sender"} ELSE receipts
      PROVE  PairingInv'
  <2>1. TypeOK'
    BY <1>0, <1>3 DEF TypeOK, Disconnected, Roles
  <2>2. RequestsKeepTheirGround' /\ ExitDisconnects' /\ ReadyWasApproved'
    BY <1>0, <1>3 DEF RequestsKeepTheirGround, RoleOf, ExitDisconnects,
       ReadyWasApproved, Disconnected
  <2>3. RevokedByParty'
    BY <1>0, <1>3 DEF RevokedByParty, Disconnected, Authorized, Principals
  <2>4. ReceiptsAreHonest'
    BY <1>0, <1>3 DEF ReceiptsAreHonest, TypeOK
  <2> QED
    BY <2>1, <2>2, <2>3, <2>4
<1> QED
  BY <1>1, <1>2, <1>3

\* A receipt is written for the role of a credential that is still a party, of
\* a device that had cleaned up when it asked, and after the relay's clean-up.
LEMMA AckWriteInv ==
  ASSUME PairingInv, NEW r \in inflight, AckWrite(r)
  PROVE  PairingInv'
<1> USE DEF PairingInv
<1>0. /\ UNCHANGED <<folder, exit, panel, seen, approved, admitted, localDone, revoker>>
      /\ inflight' \subseteq inflight
      /\ r \in Requests /\ r.kind = "ack"
  BY DEF AckWrite, Done, TypeOK, desktop
<1>1. r.who \in Principals /\ r.role = RoleOf(r.who) /\ r.who \in localDone
  BY <1>0, RequestShape DEF RequestsKeepTheirGround
<1>2. TypeOK'
  BY <1>0, <1>1 DEF TypeOK, AckWrite, RoleOf, Roles, folder
<1>3. RequestsKeepTheirGround' /\ ExitDisconnects' /\ ReadyWasApproved'
      /\ RevokedByParty'
  BY <1>0 DEF RequestsKeepTheirGround, RoleOf, ExitDisconnects, ReadyWasApproved,
     RevokedByParty, folder
<1>4. ReceiptsAreHonest'
  BY <1>0, <1>1 DEF ReceiptsAreHonest, AckWrite, RoleOf, Authorized, folder
<1> QED
  BY <1>2, <1>3, <1>4

\* The invariant holds in every reachable state of a paired Folder.
THEOREM PairingInvariance == Spec => []PairingInv
<1>1. PairingInv /\ [Next]_vars => PairingInv'
  <2> SUFFICES ASSUME PairingInv, [Next]_vars PROVE PairingInv'
    OBVIOUS
  <2>1. CASE UNCHANGED vars
    <3>1. TypeOK' /\ RequestsKeepTheirGround'
      BY <2>1 DEF vars, PairingInv, TypeOK, RequestsKeepTheirGround, RoleOf
    <3> QED
      BY <2>1, <3>1, RowsUntouched DEF vars, folder
  <2>2. CASE Expire \/ ExitCleaned \/ (\E s \in Senders, i \in 1..MaxInvitations : Join(s, i))
    BY <2>2, FolderSteps
  <2>3. CASE Reopen \/ Check \/ Confirm \/ Renew
    BY <2>3, PanelStarts
  <2>4. ASSUME NEW who \in Principals,
               \/ Transfer(who) \/ Disconnect(who)
               \/ ExitIdentify(who) \/ CleanLocally(who) \/ AckIdentify(who)
        PROVE  PairingInv'
    BY <2>4, FolderSteps, RevocationInv, PartyRequests
  <2>5. ASSUME NEW r \in inflight,
               \/ CheckAnswer(r) \/ ConfirmIdentify(r) \/ ConfirmWrite(r)
               \/ RenewIdentify(r) \/ RenewWrite(r) \/ GiveUp(r)
               \/ ExitWrite(r) \/ AckWrite(r) \/ Drop(r)
        PROVE  PairingInv'
    BY <2>5, LookUps, ConfirmWriteInv, RenewWriteInv, RevocationInv, AckWriteInv
  <2> QED
    BY <2>1, <2>2, <2>3, <2>4, <2>5 DEF Next
<1> QED
  BY InitInv, <1>1, PTL DEF Spec

\* Type correctness of the Folder's rows and of the requests under way.
THEOREM PairingTyped == Spec => []TypeOK
BY PairingInvariance, PTL DEF PairingInv

\* No confirmation, however late, makes a sender ready whose code the user has
\* not accepted, and no other sender is ever let transfer (identity, confirm).
THEOREM ReadyNeedsApproval == Spec => []ReadyWasApproved
BY PairingInvariance, PTL DEF PairingInv

\* Only a party of the Folder at the time of the write ends it (clean_exit).
THEOREM OnlyPartiesRevoke == Spec => []RevokedByParty
BY PairingInvariance, PTL DEF PairingInv

\* A clean-up receipt is never given for a role whose device has not cleaned up.
THEOREM ReceiptsHonest == Spec => []ReceiptsAreHonest
BY PairingInvariance, PTL DEF PairingInv

\* No claim, renewal or confirmation under way revives a disconnected Folder or
\* changes its sender: every write asks for a connected Folder again.
THEOREM DisconnectionIsFinal == Spec => DisconnectIsFinal
<1> DEFINE A == disconnected => disconnected' /\ ~ready' /\ sender' = sender
                                /\ invite' = invite
<1>1. PairingInv /\ [Next]_vars => [A]_vars
  <2> SUFFICES ASSUME PairingInv, Next, disconnected
               PROVE  disconnected' /\ ~ready' /\ sender' = sender /\ invite' = invite
    OBVIOUS
  <2>0. ~ready
    BY DEF PairingInv, ReadyWasApproved
  <2>1. CASE UNCHANGED folder
    BY <2>0, <2>1 DEF folder
  <2>2. CASE Expire \/ ExitCleaned \/ (\E s \in Senders, i \in 1..MaxInvitations : Join(s, i))
    <3>1. UNCHANGED <<disconnected, ready, sender, invite>>
      BY <2>2 DEF Expire, ExitCleaned, Join, Claim, folder
    <3> QED
      BY <2>0, <3>1
  <2>3. CASE Reopen \/ Check \/ Confirm \/ Renew
    BY <2>1, <2>3 DEF Reopen, Check, Confirm, Renew
  <2>4. ASSUME NEW who \in Principals,
               \/ Transfer(who) \/ Disconnect(who)
               \/ ExitIdentify(who) \/ CleanLocally(who) \/ AckIdentify(who)
        PROVE  disconnected' /\ ~ready' /\ sender' = sender /\ invite' = invite
    BY <2>1, <2>4 DEF Transfer, Disconnect, Disconnected, ExitIdentify, CleanLocally,
       AckIdentify
  <2>5. ASSUME NEW r \in inflight, ConfirmWrite(r)
        PROVE  disconnected' /\ ~ready' /\ sender' = sender /\ invite' = invite
    <3>1. r.kind = "confirm" /\ r \in Requests
      BY <2>5 DEF ConfirmWrite, PairingInv, TypeOK
    <3>2. r.code # NoCode
      BY <3>1 DEF PairingInv, RequestsKeepTheirGround, TypeOK
    <3> QED
      BY <2>0, <2>5, <3>2 DEF ConfirmWrite, Handshake
  <2>6. ASSUME NEW r \in inflight,
               \/ CheckAnswer(r) \/ ConfirmIdentify(r) \/ RenewIdentify(r)
               \/ RenewWrite(r) \/ GiveUp(r) \/ ExitWrite(r) \/ AckWrite(r) \/ Drop(r)
        PROVE  disconnected' /\ ~ready' /\ sender' = sender /\ invite' = invite
    BY <2>1, <2>6 DEF CheckAnswer, ConfirmIdentify, RenewIdentify, RenewWrite, GiveUp,
       ExitWrite, Disconnected, AckWrite, Drop
  <2> QED
    BY <2>2, <2>3, <2>4, <2>5, <2>6 DEF Next
<1> QED
  BY <1>1, PairingInvariance, PTL DEF Spec, DisconnectIsFinal
=============================================================================
