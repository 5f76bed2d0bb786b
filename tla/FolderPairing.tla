---------------------------- MODULE FolderPairing ----------------------------
(***************************************************************************)
(* The life of one paired Folder on the relay (src/server/folders.rs and   *)
(* the request side of exit.rs): an invitation, the sender that claims it, *)
(* the receiver's confirmation, renewal, disconnection, clean exit and the *)
(* two clean-up receipts.                                                  *)
(*                                                                         *)
(* confirm, renew and the exit requests first look the credential up       *)
(* (identity) and write in a second database call; other requests run in   *)
(* between.  `inflight` holds the requests between the two calls.          *)
(***************************************************************************)
EXTENDS Integers, FiniteSets

CONSTANTS
  Receiver,       \* the receiver's credential
  Senders,        \* credentials of phones that may claim an invitation
  Codes,          \* comparison codes (first bytes of the credential hash)
  CodeOf,         \* [Senders -> Codes]
  NoSender,       \* sender_hash IS NULL
  NoCode,         \* no comparison code
  MaxInvitations, \* bound: invitations ever issued for the Folder
  MaxInflight     \* bound: requests between their two database calls

ASSUME PairingAssumption ==
  /\ CodeOf \in [Senders -> Codes]
  /\ Receiver \notin Senders
  /\ NoSender \notin Senders \cup {Receiver}
  /\ NoCode \notin Codes
  /\ MaxInvitations \in Nat \ {0}
  /\ MaxInflight \in Nat

VARIABLES
  invite,        \* the current invitation (invite_hash), numbered
  expired,       \* the current invitation is past its time
  sender,        \* sender_hash
  ready,         \* folders.ready
  disconnected,  \* folders.disconnected
  exit,          \* folder_exits: "none", "begun", "cleaned"
  receipts,      \* roles whose clean-up receipt is recorded
  inflight,      \* requests on their way and between the relay's database calls
  panel,         \* the pairing panel of the desktop
  seen,          \* invitations the panel showed, which a phone may have read
  admitted,      \* credentials the relay let transfer
  approved,      \* codes the receiver's user compared and accepted
  localDone,     \* credentials whose device finished its own clean-up
  revoker        \* the credential whose request disconnected the Folder

folder == <<invite, expired, sender, ready, disconnected>>
desktop == <<panel, seen, approved>>
vars == <<invite, expired, sender, ready, disconnected, exit, receipts,
          inflight, panel, seen, admitted, approved, localDone, revoker>>

Principals == Senders \cup {Receiver}
Roles == {"sender", "receiver"}
\* A request of the panel may outlive the panel's interest in it.
Requests ==
  [kind : {"exit", "ack"}, who : Principals, role : Roles]
    \cup [kind : {"check", "confirm", "renew"}, code : Codes \cup {NoCode},
          stage : {"sent", "identified"}, awaited : BOOLEAN]
Panel == [busy : BOOLEAN, verification : Codes \cup {NoCode}, confirm : BOOLEAN,
          code : 0..MaxInvitations]

\* What the variables range over.
TypeOK ==
  /\ invite \in 1..MaxInvitations
  /\ expired \in BOOLEAN
  /\ sender \in Senders \cup {NoSender}
  /\ ready \in BOOLEAN
  /\ disconnected \in BOOLEAN
  /\ exit \in {"none", "begun", "cleaned"}
  /\ receipts \subseteq Roles
  /\ inflight \subseteq Requests
  /\ panel \in Panel
  /\ seen \subseteq 1..MaxInvitations
  /\ admitted \subseteq Principals
  /\ approved \subseteq Codes
  /\ localDone \subseteq Principals
  /\ revoker \in Principals \cup {NoSender}

\* The panel once the relay answered create_folder: it shows the invitation.
CreatedPanel == [busy |-> FALSE, verification |-> NoCode, confirm |-> FALSE, code |-> 1]

\* create: a receiver credential and a first invitation, no sender yet.
Init ==
  /\ invite = 1
  /\ expired = FALSE
  /\ sender = NoSender
  /\ ready = FALSE
  /\ disconnected = FALSE
  /\ exit = "none"
  /\ receipts = {}
  /\ inflight = {}
  /\ panel = CreatedPanel
  /\ seen = {1}
  /\ admitted = {}
  /\ approved = {}
  /\ localDone = {}
  /\ revoker = NoSender

-----------------------------------------------------------------------------
(* Identity *)

Authorized(who) == who = Receiver \/ who = sender

RoleOf(who) == IF who = Receiver THEN "receiver" ELSE "sender"

\* identity: what both devices are told.
Handshake ==
  [state |-> CASE disconnected -> "disconnected"
               [] ~disconnected /\ ready -> "ready"
               [] ~disconnected /\ ~ready /\ sender # NoSender -> "awaiting_confirmation"
               [] ~disconnected /\ ~ready /\ sender = NoSender -> "awaiting_peer",
   verification |-> IF disconnected \/ sender = NoSender THEN NoCode ELSE CodeOf[sender]]

RequireConnected == Handshake.state # "disconnected"

Admit(request) ==
  /\ Cardinality(inflight) < MaxInflight
  /\ inflight' = inflight \cup {request}

Done(request) == inflight' = inflight \ {request}

\* authorize_transfer: both roles transfer only in a Folder that is ready.
Transfer(who) ==
  /\ Authorized(who)
  /\ RequireConnected
  /\ Handshake.state = "ready"
  /\ admitted' = admitted \cup {who}
  /\ UNCHANGED <<folder, exit, receipts, inflight, desktop, localDone, revoker>>

\* INVITATION_SECONDS pass.
Expire ==
  /\ ~expired
  /\ expired' = TRUE
  /\ UNCHANGED <<invite, sender, ready, disconnected, exit, receipts, inflight,
                 desktop, admitted, localDone, revoker>>

-----------------------------------------------------------------------------
(* claim: one transaction.  A retry by the same sender changes nothing; a   *)
(* claimed invitation is never given to another one.                        *)

Claim(s, i) ==
  /\ ~disconnected
  /\ i = invite
  /\ sender = NoSender
  /\ ~expired
  /\ sender' = s
  /\ UNCHANGED <<invite, expired, ready, disconnected, exit, receipts, inflight,
                 desktop, admitted, localDone, revoker>>

\* A phone uses a code it read from the panel, at any later time.
Join(s, i) == i \in seen /\ Claim(s, i)

-----------------------------------------------------------------------------
(* The panel's requests: one at a time while the panel waits, but one that   *)
(* it gave up on may still reach the relay and be carried out               *)

\* SetupTask::run: a second task is not started, and the panel is insensitive.
Run(kind, code, shown) ==
  /\ ~panel.busy
  /\ Admit([kind |-> kind, code |-> code, stage |-> "sent", awaited |-> TRUE])
  /\ panel' = [shown EXCEPT !.busy = TRUE]

\* The answer of the relay, or an error, reaches the panel that waits for it.
Answer(r, shown) ==
  panel' = IF r.awaited THEN [shown EXCEPT !.busy = FALSE] ELSE panel

\* request_limited: the connection fails or the time limit passes; the request
\* may still be carried out.
GiveUp(r) ==
  /\ r.kind \in {"check", "confirm", "renew"}
  /\ r.awaited
  /\ Answer(r, panel)
  /\ inflight' = (inflight \ {r}) \cup {[r EXCEPT !.awaited = FALSE]}
  /\ UNCHANGED <<folder, exit, receipts, seen, admitted, approved, localDone, revoker>>

\* The dialog is closed and opened for the Folder again: nothing is shown.
Reopen ==
  /\ ~panel.busy
  /\ panel' = [CreatedPanel EXCEPT !.code = 0]
  /\ UNCHANGED <<folder, exit, receipts, inflight, seen, admitted, approved, localDone,
                 revoker>>

\* "Check pairing"
Check ==
  /\ Run("check", NoCode, [panel EXCEPT !.verification = NoCode, !.confirm = FALSE])
  /\ UNCHANGED <<folder, exit, receipts, seen, admitted, approved, localDone, revoker>>

\* validate_handshake: a comparison code exactly where the state has a sender.
ValidHandshake(info) ==
  (info.verification = NoCode) <=> info.state \in {"awaiting_peer", "disconnected"}

CheckAnswer(r) ==
  /\ r.kind = "check"
  /\ Done(r)
  /\ LET info == Handshake
     IN Answer(r, IF ValidHandshake(info) /\ info.state = "awaiting_confirmation"
                  THEN [panel EXCEPT !.verification = info.verification,
                                     !.confirm = TRUE]
                  ELSE panel)
  /\ UNCHANGED <<folder, exit, receipts, seen, admitted, approved, localDone, revoker>>

\* "Codes match": the user compared the shown code with the phone's.
Confirm ==
  /\ panel.confirm
  /\ panel.verification # NoCode
  /\ Run("confirm", panel.verification, [panel EXCEPT !.confirm = FALSE])
  /\ approved' = approved \cup {panel.verification}
  /\ UNCHANGED <<folder, exit, receipts, seen, admitted, localDone, revoker>>

\* The relay looks the credential up, and refuses a code that is out of date.
Identified(r) == inflight' = (inflight \ {r}) \cup {[r EXCEPT !.stage = "identified"]}

ConfirmIdentify(r) ==
  /\ r.kind = "confirm" /\ r.stage = "sent"
  /\ \/ /\ RequireConnected /\ Handshake.verification = r.code
        /\ Identified(r)
        /\ UNCHANGED panel
     \/ /\ ~RequireConnected \/ Handshake.verification # r.code
        /\ Done(r)
        /\ Answer(r, panel)
  /\ UNCHANGED <<folder, exit, receipts, seen, admitted, approved, localDone, revoker>>

\* Mutant: the UPDATE relies on the look-up before it.
ConfirmWriteAnySender(r) ==
  /\ r.kind = "confirm" /\ r.stage = "identified"
  /\ Done(r)
  /\ ready' = IF disconnected \/ sender = NoSender THEN ready ELSE TRUE
  /\ Answer(r, panel)
  /\ UNCHANGED <<invite, expired, sender, disconnected, exit, receipts, seen, admitted,
                 approved, localDone, revoker>>

\* The UPDATE repeats the condition on the sender it was asked to confirm.
ConfirmWrite(r) ==
  /\ r.kind = "confirm" /\ r.stage = "identified"
  /\ Done(r)
  /\ ready' = IF Handshake.verification = r.code THEN TRUE ELSE ready
  /\ Answer(r, panel)
  /\ UNCHANGED <<invite, expired, sender, disconnected, exit, receipts, seen, admitted,
                 approved, localDone, revoker>>

-----------------------------------------------------------------------------
(* renew: a new invitation, which also drops the sender *)

\* "Disconnect and replace": the panel keeps what it shows until the answer.
Renew ==
  /\ Run("renew", NoCode, panel)
  /\ UNCHANGED <<folder, exit, receipts, seen, admitted, approved, localDone, revoker>>

RenewIdentify(r) ==
  /\ r.kind = "renew" /\ r.stage = "sent"
  /\ \/ RequireConnected /\ Identified(r) /\ UNCHANGED panel
     \/ ~RequireConnected /\ Done(r) /\ Answer(r, panel)
  /\ UNCHANGED <<folder, exit, receipts, seen, admitted, approved, localDone, revoker>>

\* The panel shows the new invitation, for a phone to read.
RenewAnswer(r) ==
  /\ Answer(r, [panel EXCEPT !.code = invite + 1, !.verification = NoCode,
                             !.confirm = FALSE])
  /\ seen' = IF r.awaited THEN seen \cup {invite + 1} ELSE seen

\* Mutant: the UPDATE does not ask for a connected Folder.
RenewWriteAlways(r) ==
  /\ r.kind = "renew" /\ r.stage = "identified"
  /\ invite < MaxInvitations
  /\ Done(r)
  /\ invite' = invite + 1
  /\ expired' = FALSE
  /\ sender' = NoSender
  /\ ready' = FALSE
  /\ RenewAnswer(r)
  /\ UNCHANGED <<disconnected, exit, receipts, admitted, approved, localDone, revoker>>

RenewWrite(r) ==
  /\ r.kind = "renew" /\ r.stage = "identified"
  /\ invite < MaxInvitations
  /\ Done(r)
  /\ \/ /\ disconnected
        /\ Answer(r, panel)
        /\ UNCHANGED <<folder, seen>>
     \/ /\ ~disconnected
        /\ invite' = invite + 1
        /\ expired' = FALSE
        /\ sender' = NoSender
        /\ ready' = FALSE
        /\ RenewAnswer(r)
        /\ UNCHANGED disconnected
  /\ UNCHANGED <<exit, receipts, admitted, approved, localDone, revoker>>

-----------------------------------------------------------------------------
(* disconnect: one transaction, from either party *)

Disconnected(who) ==
  /\ disconnected' = TRUE
  /\ ready' = FALSE
  /\ expired' = TRUE
  /\ revoker' = IF disconnected THEN revoker ELSE who
  /\ UNCHANGED <<invite, sender>>

Disconnect(who) ==
  /\ Authorized(who)
  /\ Disconnected(who)
  /\ UNCHANGED <<exit, receipts, inflight, desktop, admitted, localDone>>

-----------------------------------------------------------------------------
(* Clean exit: the request, the relay's clean-up (RelayStore, TusUpload),   *)
(* each device's own clean-up and its receipt                               *)

ExitIdentify(who) ==
  /\ Authorized(who)
  /\ Admit([kind |-> "exit", who |-> who, role |-> RoleOf(who)])
  /\ UNCHANGED <<folder, exit, receipts, desktop, admitted, localDone, revoker>>

\* Mutant: the credential is not looked up again.
ExitWriteTrusting(r) ==
  /\ r.kind = "exit"
  /\ Done(r)
  /\ Disconnected(r.who)
  /\ exit' = IF exit = "none" THEN "begun" ELSE exit
  /\ receipts' = IF exit = "none" /\ sender = NoSender THEN {"sender"}
                                                       ELSE receipts
  /\ UNCHANGED <<desktop, admitted, localDone>>

\* clean_exit looks the credential up again inside its transaction.  A Folder
\* nobody claimed has no sender to wait for.
ExitWrite(r) ==
  /\ r.kind = "exit"
  /\ Done(r)
  /\ \/ /\ ~Authorized(r.who)
        /\ UNCHANGED <<folder, exit, receipts, revoker>>
     \/ /\ Authorized(r.who)
        /\ Disconnected(r.who)
        /\ exit' = IF exit = "none" THEN "begun" ELSE exit
        /\ receipts' = IF exit = "none" /\ sender = NoSender THEN {"sender"}
                                                             ELSE receipts
  /\ UNCHANGED <<desktop, admitted, localDone>>

ExitCleaned ==
  /\ exit = "begun"
  /\ exit' = "cleaned"
  /\ UNCHANGED <<folder, receipts, inflight, desktop, admitted, localDone, revoker>>

\* A device that knows of the exit removes its own data first.
CleanLocally(who) ==
  /\ exit # "none"
  /\ Authorized(who)
  /\ localDone' = localDone \cup {who}
  /\ UNCHANGED <<folder, exit, receipts, inflight, desktop, admitted, revoker>>

AckIdentify(who) ==
  /\ who \in localDone
  /\ Authorized(who)
  /\ Admit([kind |-> "ack", who |-> who, role |-> RoleOf(who)])
  /\ UNCHANGED <<folder, exit, receipts, desktop, admitted, localDone, revoker>>

\* Mutant: the receipt does not wait for the relay's own clean-up.
AckWriteEarly(r) ==
  /\ r.kind = "ack"
  /\ Done(r)
  /\ receipts' = IF Authorized(r.who) /\ exit # "none"
                 THEN receipts \cup {r.role} ELSE receipts
  /\ UNCHANGED <<folder, exit, desktop, admitted, localDone, revoker>>

\* The receipt counts for the role looked up before, once the relay is clean.
AckWrite(r) ==
  /\ r.kind = "ack"
  /\ Done(r)
  /\ receipts' = IF Authorized(r.who) /\ exit = "cleaned"
                 THEN receipts \cup {r.role} ELSE receipts
  /\ UNCHANGED <<folder, exit, desktop, admitted, localDone, revoker>>

\* The connection or the relay dies between two calls.
Drop(r) ==
  /\ Done(r)
  /\ IF r.kind \in {"exit", "ack"} THEN UNCHANGED panel ELSE Answer(r, panel)
  /\ UNCHANGED <<folder, exit, receipts, seen, admitted, approved, localDone, revoker>>

-----------------------------------------------------------------------------
Next ==
  \/ Expire
  \/ Reopen \/ Check \/ Confirm \/ Renew
  \/ ExitCleaned
  \/ \E s \in Senders, i \in 1..MaxInvitations : Join(s, i)
  \/ \E who \in Principals :
       \/ Transfer(who) \/ Disconnect(who)
       \/ ExitIdentify(who) \/ CleanLocally(who) \/ AckIdentify(who)
  \/ \E r \in inflight :
       \/ CheckAnswer(r) \/ ConfirmIdentify(r) \/ ConfirmWrite(r)
       \/ RenewIdentify(r) \/ RenewWrite(r) \/ GiveUp(r)
       \/ ExitWrite(r) \/ AckWrite(r) \/ Drop(r)

Spec == Init /\ [][Next]_vars

-----------------------------------------------------------------------------
(* Properties *)

\* Transfers run only between the receiver and a sender whose code its user
\* accepted: a confirmation on its way cannot confirm a sender that replaced
\* the one it was meant for ("a stale dialog cannot confirm a replacement
\* claimant", identity and confirm), however late it comes; and no other sender
\* was ever let transfer.
ReadyWasApproved ==
  /\ ready => ~disconnected /\ sender # NoSender /\ CodeOf[sender] \in approved
  /\ \A s \in admitted \cap Senders : CodeOf[s] \in approved

\* Disconnection is permanent: no renewal, confirmation or claim that was
\* under way revives the Folder or changes its sender.
DisconnectIsFinal ==
  [][disconnected => disconnected' /\ ~ready' /\ sender' = sender
                     /\ invite' = invite]_vars

\* Only a party of the Folder ends it: a sender that was replaced while its
\* request was under way cannot (the second look-up in clean_exit).
RevokedByParty ==
  disconnected => revoker = Receiver \/ (revoker = sender /\ sender # NoSender)

\* A receipt says that this role's device has cleaned up and the relay too;
\* no credential can give the other role's receipt.
ReceiptsAreHonest ==
  /\ "receiver" \in receipts => exit = "cleaned" /\ Receiver \in localDone
  /\ "sender" \in receipts =>
       \/ exit # "none" /\ sender = NoSender
       \/ exit = "cleaned" /\ sender \in localDone

-----------------------------------------------------------------------------
(* Inductive invariant (FolderPairingProofs) *)

\* What was true of a request when the relay or the panel let it start, and
\* stays true however long it is on its way: an accepted code stays accepted,
\* a device that cleaned up stays clean, and a credential keeps its role.
RequestsKeepTheirGround ==
  \A r \in inflight :
    /\ r.kind = "confirm" => r.code \in approved
    /\ r.kind \in {"exit", "ack"} => r.role = RoleOf(r.who)
    /\ r.kind = "ack" => r.who \in localDone

\* A clean exit disconnects the Folder in the same transaction, which is what
\* freezes the sender its receipts are about.
ExitDisconnects == exit # "none" => disconnected

PairingInv ==
  /\ TypeOK
  /\ RequestsKeepTheirGround
  /\ ExitDisconnects
  /\ ReadyWasApproved
  /\ RevokedByParty
  /\ ReceiptsAreHonest
=============================================================================
