---------------------------- MODULE UserProfile ----------------------------
(***************************************************************************)
(* The profile of one account and its images: uploading one                *)
(* (services/common/image_service.py), choosing one and a nickname         *)
(* (services/user/profile_service.py), and the withdrawal that takes them  *)
(* away.                                                                   *)
(*                                                                         *)
(* Uploads and withdrawals are coroutines of one event loop, which stands  *)
(* still while one of them uses the database.  Profile updates run in      *)
(* threads.  An action is one statement that takes row locks, or the       *)
(* statements up to the next one with a commit; what is not committed is   *)
(* in the locals of its request.                                           *)
(***************************************************************************)
EXTENDS Naturals, FiniteSets

CONSTANTS
  OldImages, \* images from before the behaviour
  Requests,  \* requests; each one runs a handler once
  Nicknames,
  Nickname,  \* the one that the provider has given to create_user
  NULL,
  Kept       \* a request without profileImageUrl

VARIABLES
  user,   \* the row of users; updated: updated_at is not created_at
  image,  \* rows of images
  blob,   \* images whose file is in the container
  tx      \* per request: program counter and locals

vars == <<user, image, blob, tx>>

ASSUME NicknameIsAllowed == Nickname \in Nicknames
ASSUME OldImagesAreOld == OldImages \cap Requests = {}
ASSUME NullIsNothing ==
  /\ NULL \notin OldImages \cup Requests \cup {"PROFILE_IMAGE", "ETC"}
  /\ Kept \notin OldImages \cup Requests \cup {NULL}

-----------------------------------------------------------------------------
(* Rows and handlers                                                       *)

\* An upload makes at most one image and stands for its id.
Images == OldImages \cup Requests

NoImage == [purpose |-> NULL, live |-> FALSE]

Idle == [pc |-> "idle", op |-> "none", result |-> "none", before |-> {}, purpose |-> NULL,
         nickname |-> NULL, picked |-> NULL, had |-> NULL, held |-> {}, fate |-> "clean"]

At(r, op, pc) == tx[r].op = op /\ tx[r].pc = pc

Finished == {r \in Requests : tx[r].pc = "done"}

Succeeded(r) == tx[r].pc = "done" /\ tx[r].result = "ok"

Fresh(op, pc) == [Idle EXCEPT !.op = op, !.pc = pc, !.before = Finished]

Ends(r, result, fate) ==
  tx' = [tx EXCEPT ![r] = [@ EXCEPT !.pc = "done", !.result = result, !.fate = fate,
                                    !.held = {}, !.had = NULL]]

\* A coroutine goes on unless another one is between two statements, or waits for
\* a row in a synchronous call.
LoopRuns(r) == \A s \in Requests \ {r} : tx[s].pc # "waiting" /\ ~At(s, "withdraw", "checked")

\* The row of users is locked until the withdrawal commits.  Its UPDATE changes a
\* column of a unique constraint: not even a foreign key may refer to the row.
WithdrawalIsPending == \E w \in Requests : At(w, "withdraw", "writing")

HeldBy(r) == tx[r].held

-----------------------------------------------------------------------------
(* upload_image                                                            *)

UploadCheck(r, purpose) ==
  /\ tx[r].pc = "idle" /\ LoopRuns(r) /\ user.active
  /\ tx' = [tx EXCEPT ![r] = [Fresh("upload", "checked") EXCEPT !.purpose = purpose]]
  /\ UNCHANGED <<user, image, blob>>

\* AzureBlobStorage.upload_image
UploadBlob(r) ==
  /\ At(r, "upload", "checked") /\ LoopRuns(r)
  /\ blob' = blob \cup {r}
  /\ tx' = [tx EXCEPT ![r].pc = "stored"]
  /\ UNCHANGED <<user, image>>

\* An AzureError; only its answer may have been lost.
UploadBlobFails(r) ==
  /\ At(r, "upload", "checked") /\ LoopRuns(r)
  /\ \/ Ends(r, "failed", "clean") /\ UNCHANGED blob
     \/ Ends(r, "failed", "unheard") /\ blob' = blob \cup {r}
  /\ UNCHANGED <<user, image>>

Uploaded(r) == [image EXCEPT ![r] = [purpose |-> tx[r].purpose, live |-> TRUE]]

\* The account is not looked at again.
UploadInsert(r) ==
  /\ At(r, "upload", "stored") /\ LoopRuns(r) /\ ~WithdrawalIsPending
  /\ image' = Uploaded(r)
  /\ Ends(r, "ok", "clean")
  /\ UNCHANGED <<user, blob>>

\* The foreign key of the INSERT waits, and with it the event loop.
UploadWaits(r) ==
  /\ At(r, "upload", "stored") /\ LoopRuns(r) /\ WithdrawalIsPending
  /\ tx' = [tx EXCEPT ![r].pc = "waiting"]
  /\ UNCHANGED <<user, image, blob>>

\* A SQLAlchemyError; the COMMIT may have been done and its answer lost.
UploadInsertFails(r) ==
  /\ At(r, "upload", "stored") /\ LoopRuns(r) /\ ~WithdrawalIsPending
  /\ \/ tx' = [tx EXCEPT ![r].pc = "cleaning"] /\ UNCHANGED image
     \/ /\ tx' = [tx EXCEPT ![r].pc = "cleaning", ![r].fate = "unheard"]
        /\ image' = Uploaded(r)
  /\ UNCHANGED <<user, blob>>

\* Mutant of Cleaned: the file stays.
Uncleaned(r) == blob

Cleaned(r) == blob \ {r}

\* AzureBlobStorage.delete_image, whose exceptions are logged.
UploadCleans(r) ==
  /\ At(r, "upload", "cleaning") /\ LoopRuns(r)
  /\ \/ blob' = Cleaned(r) /\ Ends(r, "failed", tx[r].fate)
     \/ UNCHANGED blob /\ Ends(r, "failed", "undeleted")
  /\ UNCHANGED <<user, image>>

-----------------------------------------------------------------------------
(* update_user_profile                                                     *)

\* find_user_image_by_url, image_purpose
MayBePicked(i) == image[i].live /\ image[i].purpose = "PROFILE_IMAGE"

\* The picture is an image, NULL to have none, or Kept.
ProfileCheck(r, nickname, picked) ==
  /\ tx[r].pc = "idle" /\ user.active
  /\ picked \in Images => MayBePicked(picked)
  /\ tx' = [tx EXCEPT ![r] =
              [Fresh("profile", IF picked = Kept THEN "demoted" ELSE "checked") EXCEPT
                 !.nickname = nickname, !.picked = picked,
                 !.had = [nickname |-> user.nickname, picture |-> user.picture]]]
  /\ UNCHANGED <<user, image, blob>>

\* ProfileImageUrlNotAllowedException
ProfileRefused(r, picked) ==
  /\ tx[r].pc = "idle" /\ user.active
  /\ image[picked].purpose # NULL /\ ~MayBePicked(picked)
  /\ tx' = [tx EXCEPT ![r] = [Fresh("profile", "done") EXCEPT !.result = "refused"]]
  /\ UNCHANGED <<user, image, blob>>

\* Mutant of DemotedRows: all but the picture that was read.
DemotedOthers(r) ==
  {i \in Images : image[i].live /\ image[i].purpose = "PROFILE_IMAGE" /\ i # tx[r].had.picture}

\* demote_user_profile_images_except
DemotedRows(r) ==
  {i \in Images : image[i].live /\ image[i].purpose = "PROFILE_IMAGE" /\ i # tx[r].picked}

\* The UPDATE waits for the rows that others have changed and not committed.
ProfileDemote(r) ==
  /\ At(r, "profile", "checked")
  /\ \A s \in Requests : HeldBy(s) \cap DemotedRows(r) = {}
  /\ tx' = [tx EXCEPT ![r] = [@ EXCEPT !.pc = "demoted", !.held = DemotedRows(r)]]
  /\ UNCHANGED <<user, image, blob>>

NewPicture(r) == IF tx[r].picked = Kept THEN tx[r].had.picture ELSE tx[r].picked

\* The columns whose value differs from the one that was read.
Changes(r) ==
  {c \in {"nickname", "picture"} :
     IF c = "nickname" THEN tx[r].nickname # tx[r].had.nickname
                       ELSE NewPicture(r) # tx[r].had.picture}

\* onupdate sets updated_at in an UPDATE, and without changes there is none.
ProfileCommit(r) ==
  /\ At(r, "profile", "demoted")
  /\ Changes(r) = {} \/ ~WithdrawalIsPending
  /\ user' = [user EXCEPT
                !.nickname = IF "nickname" \in Changes(r) THEN tx[r].nickname ELSE @,
                !.picture = IF "picture" \in Changes(r) THEN NewPicture(r) ELSE @,
                !.updated = @ \/ Changes(r) # {}]
  /\ image' = [i \in Images |-> IF i \in HeldBy(r) THEN [image[i] EXCEPT !.purpose = "ETC"]
                                  ELSE image[i]]
  /\ Ends(r, "ok", "clean")
  /\ UNCHANGED blob

ProfileFails(r) ==
  /\ tx[r].op = "profile" /\ tx[r].pc \in {"checked", "demoted"}
  /\ Ends(r, "failed", "clean")
  /\ UNCHANGED <<user, image, blob>>

-----------------------------------------------------------------------------
(* update_notification_settings, which writes the same row; PushDelivery   *)
(* has the rest of it                                                      *)

\* Some switch has another value than the row, or there is no UPDATE.
SwitchesChange(r, changed) ==
  /\ tx[r].pc = "idle" /\ user.active
  /\ changed => ~WithdrawalIsPending
  /\ user' = [user EXCEPT !.updated = @ \/ changed]
  /\ tx' = [tx EXCEPT ![r] = [Fresh("settings", "done") EXCEPT !.result = "ok"]]
  /\ UNCHANGED <<image, blob>>

-----------------------------------------------------------------------------
(* withdraw_user; AccountSessions has the rest of it                       *)

WithdrawReads(r) ==
  /\ tx[r].pc = "idle" /\ LoopRuns(r) /\ user.active
  /\ tx' = [tx EXCEPT ![r] = [Fresh("withdraw", "checked") EXCEPT
                                !.had = [nickname |-> user.nickname, picture |-> user.picture]]]
  /\ UNCHANGED <<user, image, blob>>

LiveImages == {i \in Images : image[i].live}

\* The UPDATEs, which wait for those of a profile update; then the awaits.
WithdrawWrites(r) ==
  /\ At(r, "withdraw", "checked") /\ ~WithdrawalIsPending
  /\ \A s \in Requests : HeldBy(s) \cap LiveImages = {}
  /\ tx' = [tx EXCEPT ![r] = [@ EXCEPT !.pc = "writing", !.held = LiveImages]]
  /\ UNCHANGED <<user, image, blob>>

\* Another withdrawal has the rows, and will not commit: the event loop waits here.
WithdrawWaits(r) ==
  /\ At(r, "withdraw", "checked") /\ WithdrawalIsPending
  /\ tx' = [tx EXCEPT ![r].pc = "waiting"]
  /\ UNCHANGED <<user, image, blob>>

\* profile_image_id is in the UPDATE unless it was NULL when it was read.
WithdrawCommit(r) ==
  /\ At(r, "withdraw", "writing") /\ LoopRuns(r)
  /\ user' = [user EXCEPT !.active = FALSE, !.updated = TRUE,
                          !.picture = IF tx[r].had.picture # NULL THEN NULL ELSE @]
  /\ image' = [i \in Images |-> IF i \in HeldBy(r) THEN [image[i] EXCEPT !.live = FALSE]
                                  ELSE image[i]]
  /\ Ends(r, "ok", "clean")
  /\ UNCHANGED blob

WithdrawFails(r) ==
  /\ At(r, "withdraw", "writing") /\ LoopRuns(r)
  /\ Ends(r, "failed", "clean")
  /\ UNCHANGED <<user, image, blob>>

-----------------------------------------------------------------------------
(* Specification                                                           *)

\* The process goes down with its handlers and comes up again.
Restart ==
  /\ \E r \in Requests : tx[r].pc \notin {"idle", "done"}
  /\ tx' = [r \in Requests |->
              IF tx[r].pc \in {"idle", "done"} THEN tx[r]
              ELSE [tx[r] EXCEPT !.pc = "done", !.result = "crashed", !.fate = "crashed",
                                 !.held = {}, !.had = NULL]]
  /\ UNCHANGED <<user, image, blob>>

\* create_user
Init ==
  /\ user = [active |-> TRUE, nickname |-> Nickname, picture |-> NULL, updated |-> FALSE]
  /\ image = [i \in Images |-> IF i \in OldImages THEN [purpose |-> "PROFILE_IMAGE", live |-> TRUE]
                              ELSE NoImage]
  /\ blob = OldImages
  /\ tx = [r \in Requests |-> Idle]

Uploads(r) ==
  \/ \E purpose \in {"PROFILE_IMAGE", "ETC"} : UploadCheck(r, purpose)
  \/ UploadBlob(r) \/ UploadBlobFails(r) \/ UploadInsert(r) \/ UploadWaits(r)
  \/ UploadInsertFails(r) \/ UploadCleans(r)

Profiles(r) ==
  \/ \E nickname \in Nicknames, picked \in Images \cup {NULL, Kept} :
       ProfileCheck(r, nickname, picked)
  \/ \E picked \in Images : ProfileRefused(r, picked)
  \/ ProfileDemote(r) \/ ProfileCommit(r) \/ ProfileFails(r)

Withdraws(r) ==
  \/ WithdrawReads(r) \/ WithdrawWrites(r) \/ WithdrawWaits(r)
  \/ WithdrawCommit(r) \/ WithdrawFails(r)

Switches(r) == \E changed \in BOOLEAN : SwitchesChange(r, changed)

Next ==
  \/ \E r \in Requests : Uploads(r) \/ Profiles(r) \/ Switches(r) \/ Withdraws(r)
  \/ Restart

Spec == Init /\ [][Next]_vars

-----------------------------------------------------------------------------
(* Properties                                                              *)

Overlap(r, s) == r # s /\ r \notin tx[s].before /\ s \notin tx[r].before

\* Profile updates that choose a picture, and have done so.
Choosing == {r \in Requests : tx[r].op = "profile" /\ tx[r].picked # Kept}
Chosen == {r \in Choosing : Succeeded(r)}

\* The picture of the profile is the one that was chosen last; it is a profile
\* image, and of those that were there none else is.  Two choices that overlap
\* may leave a picture that is none, and nothing is said of images whose upload
\* overlaps the choice.
ChoiceIsExclusive ==
  user.active /\ ~(\E r, s \in Choosing : Overlap(r, s)) =>
    /\ user.picture # NULL => MayBePicked(user.picture)
    /\ \A i \in Images, s \in Chosen :
         MayBePicked(i) /\ i \in OldImages \cup tx[s].before => i = user.picture
    /\ \A s \in Chosen :
         user.picture = tx[s].picked \/ \E s2 \in Chosen \ {s} : s \in tx[s2].before

\* A withdrawal leaves no image and no picture, unless a request overlaps it.
WithdrawalTakesImages ==
  \A w \in Requests : At(w, "withdraw", "done") /\ Succeeded(w) =>
    /\ \A i \in OldImages \cup tx[w].before : ~image[i].live
    /\ user.picture = NULL \/ \E r \in Choosing : Overlap(r, w)

\* After the onboarding updated_at differs from created_at.  An onboarding that keeps
\* the nickname of the provider and chooses no picture writes nothing: only one
\* that gives another nickname is sure to be seen.
OnboardingIsSeen ==
  \A r \in Requests :
    tx[r].op = "profile" /\ Succeeded(r) /\ tx[r].nickname # Nickname => user.updated

\* The row of the account and its images are what these requests have made of them.
ProfileFollowsTheLastRequest ==
  ChoiceIsExclusive /\ WithdrawalTakesImages /\ OnboardingIsSeen

\* An image has its file and a file has its row, and the client of the upload knows
\* of both or of none, unless the process crashed, an answer of the database or
\* the container was lost, or the cleaning has failed; a client that was told of
\* an image has it in any case.
FilesMatchRows ==
  \A r \in Requests : tx[r].op = "upload" /\ tx[r].pc = "done" =>
    LET told == tx[r].result = "ok"
        row == image[r].purpose # NULL
    IN  /\ told => row /\ r \in blob
        /\ tx[r].fate = "clean" => (row <=> told) /\ (r \in blob <=> told)

=============================================================================
