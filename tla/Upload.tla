------------------------------- MODULE Upload -------------------------------
(***************************************************************************)
(* Uploading scores from a browser (webserver/server.go) and the pairing   *)
(* dialog that confirms a browser's PIN (ui/pairing.go).  Every profile    *)
(* session makes a manager of its own and starts it on one port, which the *)
(* first session of the app keeps: its manager answers all browsers, and   *)
(* the dialogs of later sessions ask managers that nobody talks to.        *)
(***************************************************************************)
EXTENDS Naturals

CONSTANTS
  Browser,      \* the browsers
  Code,         \* the PINs, drawn at random: two requests may draw the same
  MaxRequests,  \* bound: PINs requested
  MaxSessions   \* bound: profile sessions of one run of the app

ASSUME UploadAssumption ==
  /\ Code # {}
  /\ MaxRequests \in Nat \ {0} /\ MaxSessions \in Nat \ {0}

VARIABLES
  profile,   \* the session the app is in
  status,    \* Status of the manager of each session
  code,      \* its CurrentPIN; {} or one PIN
  requests,  \* requests for a PIN so far
  confirmed, \* history: the requests whose PIN the user confirmed
  dialog,    \* the pairing dialog: "closed", "open", or "done"
  page,      \* what the page of each browser shows
  upload,    \* upload[b]: the request whose confirmation let it in; 0: none
  stored     \* history: the requests under which files were stored

uploadVars == <<profile, status, code, requests, confirmed, dialog, page, upload, stored>>

-----------------------------------------------------------------------------

ProfileSession == 1..MaxSessions
Serving == 1  \* the session whose manager has the port

PageOf == [at : {"away", "waiting", "connected"}, code : SUBSET Code]

UploadTypeOK ==
  /\ profile \in ProfileSession
  /\ status \in [ProfileSession -> {"idle", "pending", "connected"}]
  /\ code \in [ProfileSession -> SUBSET Code]
  /\ requests \in 0..MaxRequests
  /\ confirmed \in SUBSET (1..MaxRequests)
  /\ dialog \in {"closed", "open", "done"}
  /\ page \in [Browser -> PageOf]
  /\ upload \in [Browser -> 0..MaxRequests]
  /\ stored \in SUBSET (1..MaxRequests)

UploadInit ==
  /\ profile = 1
  /\ status = [s \in ProfileSession |-> "idle"]
  /\ code = [s \in ProfileSession |-> {}]
  /\ requests = 0
  /\ confirmed = {}
  /\ dialog = "closed"
  /\ page = [b \in Browser |-> [at |-> "away", code |-> {}]]
  /\ upload = [b \in Browser |-> 0]
  /\ stored = {}

-----------------------------------------------------------------------------
(* The manager *)

\* Mutant: a new PIN leaves the status as it was.
RequestPinKeeps(b) ==
  /\ requests < MaxRequests
  /\ requests' = requests + 1
  /\ \E c \in Code :
       /\ code' = [code EXCEPT ![Serving] = {c}]
       /\ page' = [page EXCEPT ![b] = [at |-> "waiting", code |-> {c}]]
  /\ status' = [status EXCEPT ![Serving] = IF @ = "idle" THEN "pending" ELSE @]
  /\ UNCHANGED <<profile, confirmed, dialog, upload, stored>>

\* The page of browser b is loaded, and asks for a PIN at once.
RequestPin(b) ==
  /\ requests < MaxRequests
  /\ requests' = requests + 1
  /\ \E c \in Code :
       /\ code' = [code EXCEPT ![Serving] = {c}]
       /\ page' = [page EXCEPT ![b] = [at |-> "waiting", code |-> {c}]]
  /\ status' = [status EXCEPT ![Serving] = "pending"]
  /\ UNCHANGED <<profile, confirmed, dialog, upload, stored>>

\* The page asks until it hears "connected", whoever's PIN was confirmed, and
\* then offers the upload for good.
SeeStatus(b) ==
  /\ page[b].at = "waiting" /\ status[Serving] = "connected"
  /\ page' = [page EXCEPT ![b].at = "connected"]
  /\ UNCHANGED <<profile, status, code, requests, confirmed, dialog, upload, stored>>

\* handleUpload reads the status under the lock, and works on without it.
BeginUpload(b) ==
  /\ page[b].at = "connected" /\ upload[b] = 0
  /\ status[Serving] = "connected"
  /\ upload' = [upload EXCEPT ![b] = requests]
  /\ UNCHANGED <<profile, status, code, requests, confirmed, dialog, page, stored>>

\* The file is complete, or the request has no file or breaks off.
EndUpload(b) ==
  /\ upload[b] # 0
  /\ upload' = [upload EXCEPT ![b] = 0]
  /\ stored' \in {stored, stored \cup {upload[b]}}
  /\ UNCHANGED <<profile, status, code, requests, confirmed, dialog, page>>

-----------------------------------------------------------------------------
(* The dialog *)

OpenPairing ==
  /\ dialog = "closed"
  /\ dialog' = "open"
  /\ UNCHANGED <<profile, status, code, requests, confirmed, page, upload, stored>>

\* The user types a PIN that some page shows; after a success the dialog takes
\* no other.
ConfirmPIN(b) ==
  /\ dialog = "open" /\ page[b].code # {}
  /\ status[profile] = "pending" /\ code[profile] = page[b].code
  /\ status' = [status EXCEPT ![profile] = "connected"]
  /\ confirmed' = confirmed \cup {requests}
  /\ dialog' = "done"
  /\ UNCHANGED <<profile, code, requests, page, upload, stored>>

ClosePairing ==
  /\ dialog # "closed"
  /\ dialog' = "closed"
  /\ UNCHANGED <<profile, status, code, requests, confirmed, page, upload, stored>>

NextProfile ==
  /\ dialog = "closed" /\ profile < MaxSessions
  /\ profile' = profile + 1
  /\ UNCHANGED <<status, code, requests, confirmed, dialog, page, upload, stored>>

-----------------------------------------------------------------------------

UploadNext ==
  \/ \E b \in Browser : \/ RequestPin(b) \/ SeeStatus(b) \/ ConfirmPIN(b)
                        \/ BeginUpload(b) \/ EndUpload(b)
  \/ OpenPairing \/ ClosePairing \/ NextProfile

UploadSpec == UploadInit /\ [][UploadNext]_uploadVars

-----------------------------------------------------------------------------
(* Properties *)

\* A file is stored only by a request that came while the PIN asked for last
\* was confirmed: a browser that asks again closes the door to all of them,
\* also to pages that still offer the upload, until its own PIN is confirmed
\* (handleRequestPin, handleUpload).
StoredAfterConfirm == stored \subseteq confirmed
=============================================================================
