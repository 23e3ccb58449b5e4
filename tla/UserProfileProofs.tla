------------------------- MODULE UserProfileProofs -------------------------
(***************************************************************************)
(* Proofs about UserProfile, for any number of requests, images and        *)
(* nicknames.                                                              *)
(***************************************************************************)
EXTENDS UserProfile, TLAPS

USE NicknameIsAllowed, OldImagesAreOld, NullIsNothing

-----------------------------------------------------------------------------
(* Types, and the files of uploads                                         *)

Purposes == {"PROFILE_IMAGE", "ETC"}

UserRow == [active : BOOLEAN, nickname : Nicknames, picture : Images \cup {NULL},
            updated : BOOLEAN]

ImageRow == [purpose : Purposes \cup {NULL}, live : BOOLEAN]

\* What a request reads of the profile.
Had == [nickname : Nicknames, picture : Images \cup {NULL}]

Pcs == {"idle", "checked", "stored", "waiting", "cleaning", "demoted", "writing", "done"}

Ops == {"none", "upload", "profile", "settings", "withdraw"}

Results == {"none", "ok", "failed", "refused", "crashed"}

Fates == {"clean", "unheard", "undeleted", "crashed"}

HadOrNull == Had \cup {NULL}

TxRecord == [pc : Pcs,
             op : Ops,
             result : Results,
             before : SUBSET Requests,
             purpose : Purposes \cup {NULL},
             nickname : Nicknames \cup {NULL},
             picked : Images \cup {NULL, Kept},
             had : HadOrNull,
             held : SUBSET Images,
             fate : Fates]

RowsOK ==
  /\ user \in UserRow
  /\ image \in [Images -> ImageRow]
  /\ blob \subseteq Images
  /\ \A i \in Images : image[i].live => image[i].purpose # NULL

\* What a request holds at each point of its program.
TxOK(r) ==
  /\ tx[r].before \subseteq Finished
  /\ tx[r].pc = "idle" <=> tx[r].op = "none"
  /\ tx[r].pc # "idle" => r \notin tx[r].before
  /\ tx[r].op = "profile" /\ tx[r].pc # "done" =>
       /\ tx[r].pc \in {"checked", "demoted"}
       /\ tx[r].nickname \in Nicknames
       /\ tx[r].had \in Had
       /\ tx[r].pc = "checked" => tx[r].picked # Kept
  /\ tx[r].op = "withdraw" /\ tx[r].pc # "done" => tx[r].had \in Had
  /\ tx[r].held # {} =>
       \/ At(r, "profile", "demoted") /\ tx[r].picked # Kept
       \/ At(r, "withdraw", "writing")
  /\ \A i \in tx[r].held : image[i].purpose # NULL

\* Row and file of the image of an upload, at each point of its program.
FileOK(r) ==
  /\ tx[r].op # "upload" => image[r].purpose = NULL /\ r \notin blob
  /\ tx[r].op = "upload" =>
       /\ tx[r].purpose \in Purposes
       /\ tx[r].pc = "checked" => image[r].purpose = NULL /\ r \notin blob
       /\ tx[r].pc \in {"stored", "waiting"} => image[r].purpose = NULL /\ r \in blob
       /\ tx[r].pc = "cleaning" =>
            r \in blob /\ (tx[r].fate = "clean" => image[r].purpose = NULL)
       /\ tx[r].pc = "done" =>
            /\ tx[r].result = "ok" => image[r].purpose # NULL /\ r \in blob
            /\ tx[r].fate = "clean" /\ tx[r].result # "ok" =>
                 image[r].purpose = NULL /\ r \notin blob

TypeInv ==
  /\ RowsOK
  /\ tx \in [Requests -> TxRecord]
  /\ \A r \in Requests : TxOK(r) /\ FileOK(r)

-----------------------------------------------------------------------------
(* Steps                                                                   *)

Alone(r) == tx' \in [Requests -> TxRecord] /\ \A s \in Requests \ {r} : tx'[s] = tx[s]

Begins(r, op) ==
  /\ tx[r].pc = "idle" /\ user.active
  /\ tx'[r].op = op /\ tx'[r].pc # "idle" /\ tx'[r].before = Finished /\ tx'[r].held = {}

Goes(r) ==
  /\ tx[r].pc \notin {"idle", "done"} /\ tx'[r].pc # "idle"
  /\ tx'[r].op = tx[r].op /\ tx'[r].before = tx[r].before /\ tx'[r].purpose = tx[r].purpose
  /\ tx'[r].nickname = tx[r].nickname /\ tx'[r].picked = tx[r].picked

HasRead(r) ==
  /\ tx'[r].had \in Had
  /\ tx'[r].had.nickname = user.nickname /\ tx'[r].had.picture = user.picture

\* A request begins, or all of it is one step.
Starts(r) ==
  /\ image' = image
  /\ \/ Begins(r, "upload") /\ user' = user
     \/ /\ Begins(r, "profile") /\ user' = user
        /\ tx'[r].pc = "done" /\ tx'[r].result = "refused"
     \/ /\ Begins(r, "profile") /\ user' = user /\ HasRead(r)
        /\ tx'[r].pc = (IF tx'[r].picked = Kept THEN "demoted" ELSE "checked")
        /\ tx'[r].picked \in Images => MayBePicked(tx'[r].picked)
     \/ /\ Begins(r, "settings")
        /\ \E changed \in BOOLEAN : user' = [user EXCEPT !.updated = user.updated \/ changed]
     \/ Begins(r, "withdraw") /\ user' = user /\ HasRead(r) /\ tx'[r].pc = "checked"

\* A request goes on in its locals, or ends without success.
Continues(r) ==
  /\ user' = user /\ image' = image /\ Goes(r)
  /\ \/ tx'[r].pc = "done" /\ tx'[r].result # "ok"
     \/ tx[r].op = "upload"
     \/ /\ At(r, "profile", "checked") /\ tx'[r].pc = "demoted" /\ tx'[r].had = tx[r].had
        /\ tx'[r].held = DemotedRows(r)
     \/ /\ At(r, "withdraw", "checked") /\ tx'[r].had = tx[r].had
        /\ \/ tx'[r].pc = "writing" /\ tx'[r].held = LiveImages
           \/ tx'[r].pc = "waiting"

Inserts(r) ==
  /\ user' = user /\ Goes(r) /\ tx[r].op = "upload"
  /\ image[r].purpose = NULL /\ image' = Uploaded(r)

Commits(r) == ProfileCommit(r) /\ Goes(r) /\ tx'[r].pc = "done"

Leaves(r) == WithdrawCommit(r) /\ Goes(r) /\ tx'[r].pc = "done"

StepOf(r) == Alone(r) /\ (Starts(r) \/ Continues(r) \/ Inserts(r) \/ Commits(r) \/ Leaves(r))

-----------------------------------------------------------------------------
(* What an action does to the record of its request                        *)

LEMMA IdleRecord == Idle \in TxRecord
BY DEF Idle, TxRecord, Pcs, Ops, Results, Fates, HadOrNull

LEMMA FreshRecord ==
  ASSUME NEW op \in {"upload", "profile", "settings", "withdraw"},
         NEW pc \in {"checked", "demoted", "done"}
  PROVE  /\ Fresh(op, pc) \in TxRecord
         /\ Fresh(op, pc).op = op /\ Fresh(op, pc).pc = pc
         /\ Fresh(op, pc).before = Finished /\ Fresh(op, pc).held = {}
         /\ Fresh(op, pc).fate = "clean" /\ Fresh(op, pc).result = "none"
<1>1. op \in Ops /\ pc \in Pcs /\ Finished \subseteq Requests
  BY DEF Ops, Pcs, Finished
<1>2. Idle \in TxRecord
  BY IdleRecord
<1>3. Fresh(op, pc) \in TxRecord
  BY <1>1, <1>2 DEF Fresh, TxRecord
<1> QED BY <1>3 DEF Fresh, Idle

LEMMA Updated ==
  ASSUME TypeInv, NEW r \in Requests, NEW rec \in TxRecord, tx' = [tx EXCEPT ![r] = rec]
  PROVE  Alone(r) /\ tx'[r] = rec
BY DEF TypeInv, Alone

LEMMA EndedRecord ==
  ASSUME NEW f \in TxRecord, NEW result \in Results, NEW fate \in Fates
  PROVE  [f EXCEPT !.pc = "done", !.result = result, !.fate = fate,
                   !.held = {}, !.had = NULL] \in TxRecord
<1>1. "done" \in Pcs /\ NULL \in HadOrNull
  BY DEF Pcs, HadOrNull
<1> QED BY <1>1 DEF TxRecord

LEMMA Ended ==
  ASSUME TypeInv, NEW r \in Requests, tx[r].pc \notin {"idle", "done"},
         NEW result \in Results, NEW fate \in Fates, Ends(r, result, fate)
  PROVE  /\ Alone(r) /\ Goes(r)
         /\ tx'[r].pc = "done" /\ tx'[r].result = result /\ tx'[r].fate = fate
         /\ tx'[r].held = {}
<1> DEFINE rec == [tx[r] EXCEPT !.pc = "done", !.result = result, !.fate = fate,
                                !.held = {}, !.had = NULL]
<1>1. tx[r] \in TxRecord
  BY DEF TypeInv
<1>2. rec \in TxRecord
  BY <1>1, EndedRecord
<1>3. tx' = [tx EXCEPT ![r] = rec]
  BY DEF Ends
<1>4. Alone(r) /\ tx'[r] = rec
  <2> HIDE DEF rec
  <2> QED BY <1>2, <1>3, Updated
<1>5. /\ rec.pc = "done" /\ rec.result = result /\ rec.fate = fate /\ rec.held = {}
      /\ rec.op = tx[r].op /\ rec.before = tx[r].before /\ rec.purpose = tx[r].purpose
      /\ rec.nickname = tx[r].nickname /\ rec.picked = tx[r].picked
  BY <1>1 DEF TxRecord
<1> QED BY <1>4, <1>5 DEF Goes

\* Everything else that a step can disturb: the requests that it does not advance.
\* Their images keep their rows and files, for nobody else touches a file.
LEMMA OthersKeepType ==
  ASSUME TypeInv, NEW r \in Requests, Alone(r),
         tx[r].pc # "done",
         \A i \in Images : image[i].purpose # NULL => image'[i].purpose # NULL,
         \A s \in Requests \ {r} : image[s].purpose = NULL => image'[s].purpose = NULL,
         \A s \in Requests \ {r} : s \in blob <=> s \in blob'
  PROVE  \A s \in Requests \ {r} : TxOK(s)' /\ FileOK(s)'
<1> SUFFICES ASSUME NEW s \in Requests \ {r} PROVE TxOK(s)' /\ FileOK(s)'
  OBVIOUS
<1>1. tx'[s] = tx[s] /\ tx[s] \in TxRecord /\ TxOK(s) /\ FileOK(s)
  BY DEF Alone, TypeInv
<1>2. Finished \subseteq Finished'
  BY DEF Finished, Alone
<1>3. TxOK(s)'
  <2>1. \A i \in tx[s].held : i \in Images
    BY <1>1 DEF TxRecord
  <2> QED BY <1>1, <1>2, <2>1 DEF TxOK, At
<1>4. FileOK(s)'
  BY <1>1 DEF FileOK, Images
<1> QED BY <1>3, <1>4

LEMMA TypeInvFrom ==
  ASSUME TypeInv, NEW r \in Requests, Alone(r), RowsOK', TxOK(r)', FileOK(r)',
         \A s \in Requests \ {r} : TxOK(s)' /\ FileOK(s)'
  PROVE  TypeInv'
BY DEF TypeInv, Alone

\* A step in the locals of one request.
LEMMA QuietKeepsType ==
  ASSUME TypeInv, NEW r \in Requests, Alone(r), tx[r].pc # "done",
         UNCHANGED <<user, image, blob>>, TxOK(r)', FileOK(r)'
  PROVE  TypeInv'
<1>1. RowsOK'
  BY DEF TypeInv, RowsOK
<1>2. \A s \in Requests \ {r} : TxOK(s)' /\ FileOK(s)'
  BY OthersKeepType
<1> QED BY <1>1, <1>2, TypeInvFrom

\* A request that begins holds nothing, and has no image unless it uploads one.
LEMMA BegunIsOK ==
  ASSUME TypeInv, NEW r \in Requests, NEW op \in {"upload", "profile", "settings", "withdraw"},
         Alone(r), Begins(r, op), image' = image, blob' = blob,
         op = "upload" => tx'[r].purpose \in Purposes /\ tx'[r].pc = "checked",
         op = "profile" /\ tx'[r].pc # "done" =>
           /\ tx'[r].pc \in {"checked", "demoted"}
           /\ tx'[r].nickname \in Nicknames
           /\ tx'[r].had \in Had
           /\ tx'[r].pc = "checked" => tx'[r].picked # Kept,
         op = "withdraw" /\ tx'[r].pc # "done" => tx'[r].had \in Had
  PROVE  TxOK(r)' /\ FileOK(r)'
<1>1. TxOK(r) /\ FileOK(r) /\ tx[r].op = "none"
  BY DEF TypeInv, TxOK, Begins
<1>2. Finished \subseteq Finished' /\ r \notin Finished
  BY DEF Finished, Alone, Begins
<1>3. TxOK(r)'
  BY <1>1, <1>2 DEF TxOK, Begins, At
<1>4. FileOK(r)'
  BY <1>1 DEF FileOK, Begins
<1> QED BY <1>3, <1>4

-----------------------------------------------------------------------------
(* The steps of an upload                                                  *)

LEMMA UploadCheckStep ==
  ASSUME TypeInv, NEW r \in Requests, NEW purpose \in Purposes, UploadCheck(r, purpose)
  PROVE  TypeInv' /\ StepOf(r)
<1> DEFINE f == Fresh("upload", "checked")
           rec == [f EXCEPT !.purpose = purpose]
<1>1. f \in TxRecord /\ f.op = "upload" /\ f.pc = "checked" /\ f.before = Finished /\ f.held = {}
  BY FreshRecord
<1>2. tx' = [tx EXCEPT ![r] = rec]
  BY DEF UploadCheck
<1>3. rec \in TxRecord
  <2> HIDE DEF f
  <2> QED BY <1>1 DEF TxRecord
<1>4. rec.op = "upload" /\ rec.pc = "checked" /\ rec.before = Finished /\ rec.held = {}
      /\ rec.purpose = purpose
  <2> HIDE DEF f
  <2> QED BY <1>1 DEF TxRecord
<1>5. Alone(r) /\ tx'[r] = rec
  <2> HIDE DEF rec
  <2> QED BY <1>2, <1>3, Updated
<1> HIDE DEF rec
<1>6. Begins(r, "upload")
  BY <1>4, <1>5 DEF Begins, UploadCheck
<1>7. TxOK(r)' /\ FileOK(r)'
  BY <1>4, <1>5, <1>6, BegunIsOK DEF UploadCheck
<1>8. TypeInv'
  BY <1>5, <1>7, QuietKeepsType DEF UploadCheck
<1> QED BY <1>5, <1>6, <1>8 DEF StepOf, Starts, UploadCheck

\* An upload that goes on, with the fate that it has or another one.
LEMMA UploadMoves ==
  ASSUME TypeInv, NEW r \in Requests, tx[r].op = "upload", tx[r].pc \notin {"idle", "done"},
         NEW rec \in TxRecord, tx' = [tx EXCEPT ![r] = rec],
         rec.pc \in {"stored", "waiting", "cleaning"}, rec.op = tx[r].op, rec.before = tx[r].before,
         rec.purpose = tx[r].purpose, rec.nickname = tx[r].nickname, rec.picked = tx[r].picked,
         rec.held = tx[r].held
  PROVE  Alone(r) /\ Goes(r) /\ TxOK(r)' /\ tx'[r] = rec
<1>1. Alone(r) /\ tx'[r] = rec
  BY Updated
<1>2. Goes(r)
  BY <1>1 DEF Goes
<1>3. TxOK(r) /\ tx[r].held = {}
  BY DEF TypeInv, TxOK, At
<1>4. Finished \subseteq Finished' /\ r \notin Finished
  BY <1>1 DEF Finished, Alone
<1>5. TxOK(r)'
  BY <1>1, <1>3, <1>4 DEF TxOK, At
<1> QED BY <1>1, <1>2, <1>5

LEMMA UploadMovesTo ==
  ASSUME TypeInv, NEW r \in Requests, tx[r].op = "upload", tx[r].pc \notin {"idle", "done"},
         NEW pc \in {"stored", "waiting", "cleaning"}, tx' = [tx EXCEPT ![r].pc = pc]
  PROVE  /\ Alone(r) /\ Goes(r) /\ TxOK(r)'
         /\ tx'[r].pc = pc /\ tx'[r].fate = tx[r].fate
<1> DEFINE f == tx[r]
           rec == [f EXCEPT !.pc = pc]
<1>1. f \in TxRecord /\ pc \in Pcs
  BY DEF TypeInv, Pcs
<1>3. tx' = [tx EXCEPT ![r] = rec]
  OBVIOUS
<1>2. /\ rec \in TxRecord
      /\ rec.pc = pc /\ rec.fate = f.fate /\ rec.op = f.op /\ rec.before = f.before
      /\ rec.purpose = f.purpose /\ rec.nickname = f.nickname /\ rec.picked = f.picked
      /\ rec.held = f.held /\ f.fate \in Fates
  <2> HIDE DEF f
  <2> QED BY <1>1 DEF TxRecord
<1> HIDE DEF rec
<1>4. Alone(r) /\ Goes(r) /\ TxOK(r)' /\ tx'[r] = rec
  BY <1>1, <1>2, <1>3, UploadMoves
<1> QED BY <1>2, <1>4

LEMMA UploadMovesUnheard ==
  ASSUME TypeInv, NEW r \in Requests, tx[r].op = "upload", tx[r].pc \notin {"idle", "done"},
         tx' = [tx EXCEPT ![r].pc = "cleaning", ![r].fate = "unheard"]
  PROVE  /\ Alone(r) /\ Goes(r) /\ TxOK(r)'
         /\ tx'[r].pc = "cleaning" /\ tx'[r].fate = "unheard"
<1> DEFINE f == tx[r]
           rec == [f EXCEPT !.pc = "cleaning", !.fate = "unheard"]
<1>1. f \in TxRecord /\ "cleaning" \in Pcs /\ "unheard" \in Fates
  BY DEF TypeInv, Pcs, Fates
<1>2. tx' = [tx EXCEPT ![r] = rec]
  OBVIOUS
<1>3. /\ rec \in TxRecord
      /\ rec.pc = "cleaning" /\ rec.fate = "unheard" /\ rec.op = f.op /\ rec.before = f.before
      /\ rec.purpose = f.purpose /\ rec.nickname = f.nickname /\ rec.picked = f.picked
      /\ rec.held = f.held
  <2> HIDE DEF f
  <2> QED BY <1>1 DEF TxRecord
<1> HIDE DEF rec
<1>4. Alone(r) /\ Goes(r) /\ TxOK(r)' /\ tx'[r] = rec
  BY <1>1, <1>2, <1>3, UploadMoves
<1> QED BY <1>3, <1>4

\* An upload that ends.
LEMMA UploadEnded ==
  ASSUME TypeInv, NEW r \in Requests, tx[r].op = "upload", tx[r].pc \notin {"idle", "done"},
         NEW result \in {"ok", "failed"}, NEW fate \in Fates,
         Ends(r, result, fate)
  PROVE  /\ Alone(r) /\ Goes(r) /\ TxOK(r)'
         /\ tx'[r].pc = "done" /\ tx'[r].fate = fate /\ tx'[r].result = result
<1>1. /\ Alone(r) /\ Goes(r)
      /\ tx'[r].pc = "done" /\ tx'[r].result = result /\ tx'[r].fate = fate
      /\ tx'[r].held = {}
  <2>1. result \in Results
    BY DEF Results
  <2> QED BY <2>1, Ended
<1>2. TxOK(r) /\ Finished \subseteq Finished'
  BY <1>1 DEF TypeInv, Finished, Alone
<1>3. TxOK(r)'
  BY <1>1, <1>2 DEF TxOK, Goes, At
<1> QED BY <1>1, <1>3

\* A file that comes or goes is the own one of its upload.
LEMMA FilesKeepType ==
  ASSUME TypeInv, NEW r \in Requests, Alone(r), tx[r].pc # "done", user' = user, image' = image,
         blob' \in {blob, blob \cup {r}, blob \ {r}}, TxOK(r)', FileOK(r)'
  PROVE  TypeInv'
<1>1. RowsOK'
  BY DEF TypeInv, RowsOK, Images
<1>2. \A s \in Requests \ {r} : TxOK(s)' /\ FileOK(s)'
  BY OthersKeepType
<1> QED BY <1>1, <1>2, TypeInvFrom

LEMMA UploadBlobSteps ==
  ASSUME TypeInv, NEW r \in Requests, UploadBlob(r) \/ UploadBlobFails(r)
  PROVE  TypeInv' /\ StepOf(r)
<1>1. tx[r].op = "upload" /\ tx[r].pc = "checked" /\ FileOK(r) /\ user' = user /\ image' = image
  BY DEF UploadBlob, UploadBlobFails, At, TypeInv
<1>2. blob' \in {blob, blob \cup {r}, blob \ {r}}
  BY DEF UploadBlob, UploadBlobFails
<1>3. CASE UploadBlob(r)
  <2>1. Alone(r) /\ Goes(r) /\ TxOK(r)' /\ tx'[r].pc = "stored"
    BY <1>1, <1>3, UploadMovesTo DEF UploadBlob
  <2>2. FileOK(r)'
    BY <1>1, <1>3, <2>1 DEF FileOK, Goes, UploadBlob
  <2> QED BY <1>1, <1>2, <2>1, <2>2, FilesKeepType DEF StepOf, Continues
<1>4. CASE UploadBlobFails(r)
  <2>2. PICK fate \in {"clean", "unheard"} :
          Ends(r, "failed", fate) /\ (fate = "clean" => blob' = blob)
    BY <1>4 DEF UploadBlobFails
  <2>3. fate \in Fates
    BY DEF Fates
  <2>4. /\ Alone(r) /\ Goes(r) /\ TxOK(r)'
        /\ tx'[r].pc = "done" /\ tx'[r].fate = fate /\ tx'[r].result = "failed"
    BY <1>1, <2>2, <2>3, UploadEnded
  <2>5. FileOK(r)'
    BY <1>1, <2>2, <2>4 DEF FileOK, Goes
  <2> QED BY <1>1, <1>2, <2>4, <2>5, FilesKeepType DEF StepOf, Continues
<1> QED BY <1>3, <1>4

LEMMA UploadWaitsStep ==
  ASSUME TypeInv, NEW r \in Requests, UploadWaits(r)
  PROVE  TypeInv' /\ StepOf(r)
<1>1. /\ tx[r].op = "upload" /\ tx[r].pc = "stored" /\ FileOK(r)
      /\ user' = user /\ image' = image /\ blob' = blob
  BY DEF UploadWaits, At, TypeInv
<1>2. Alone(r) /\ Goes(r) /\ TxOK(r)' /\ tx'[r].pc = "waiting"
  BY <1>1, UploadMovesTo DEF UploadWaits
<1>3. FileOK(r)'
  BY <1>1, <1>2 DEF FileOK, Goes
<1> QED BY <1>1, <1>2, <1>3, FilesKeepType DEF StepOf, Continues

LEMMA UploadCleansStep ==
  ASSUME TypeInv, NEW r \in Requests, UploadCleans(r)
  PROVE  TypeInv' /\ StepOf(r)
<1>1. /\ tx[r].op = "upload" /\ tx[r].pc = "cleaning" /\ FileOK(r) /\ tx[r].fate \in Fates
      /\ user' = user /\ image' = image
  BY DEF UploadCleans, At, TypeInv, TxRecord
<1>2. blob' \in {blob, blob \cup {r}, blob \ {r}}
  BY DEF UploadCleans, Cleaned
<1>3. "undeleted" \in Fates
  BY DEF Fates
<1>4. PICK fate \in Fates :
          Ends(r, "failed", fate)
          /\ (fate = "clean" => tx[r].fate = "clean" /\ blob' = blob \ {r})
  BY <1>1, <1>3 DEF UploadCleans, Cleaned
<1>5. /\ Alone(r) /\ Goes(r) /\ TxOK(r)'
      /\ tx'[r].pc = "done" /\ tx'[r].fate = fate /\ tx'[r].result = "failed"
  BY <1>1, <1>4, UploadEnded
<1>6. FileOK(r)'
  BY <1>1, <1>4, <1>5 DEF FileOK, Goes
<1> QED BY <1>1, <1>2, <1>5, <1>6, FilesKeepType DEF StepOf, Continues

\* The row is inserted: the upload's own, which was not there.
LEMMA InsertKeepsType ==
  ASSUME TypeInv, NEW r \in Requests, Alone(r), At(r, "upload", "stored"), user' = user,
         image' = Uploaded(r), blob' = blob, TxOK(r)', FileOK(r)'
  PROVE  TypeInv'
<1>1. tx[r].pc # "done" /\ FileOK(r) /\ RowsOK
  BY DEF At, TypeInv
<1>2. tx[r].purpose \in Purposes /\ r \in Images
  BY <1>1 DEF FileOK, At, Images
<1> DEFINE row == [purpose |-> tx[r].purpose, live |-> TRUE]
<1>3. row \in ImageRow /\ row.purpose # NULL
  BY <1>2 DEF ImageRow, Purposes
<1>4. image' = [image EXCEPT ![r] = row]
  BY DEF Uploaded
<1> HIDE DEF row
<1>5. RowsOK'
  BY <1>1, <1>2, <1>3, <1>4 DEF RowsOK
<1>6. \A s \in Requests \ {r} : TxOK(s)' /\ FileOK(s)'
  <2>1. \A i \in Images : image[i].purpose # NULL => image'[i].purpose # NULL
    BY <1>1, <1>2, <1>3, <1>4 DEF RowsOK
  <2>2. \A s \in Requests \ {r} : image'[s] = image[s]
    BY <1>1, <1>2, <1>4 DEF RowsOK, Images
  <2> QED BY <1>1, <2>1, <2>2, OthersKeepType
<1> QED BY <1>5, <1>6, TypeInvFrom

LEMMA UploadInsertStep ==
  ASSUME TypeInv, NEW r \in Requests, UploadInsert(r)
  PROVE  TypeInv' /\ StepOf(r)
<1>1. /\ tx[r].op = "upload" /\ tx[r].pc = "stored" /\ At(r, "upload", "stored") /\ FileOK(r)
      /\ RowsOK /\ user' = user /\ blob' = blob /\ image' = Uploaded(r)
      /\ Ends(r, "ok", "clean") /\ "clean" \in Fates
  BY DEF UploadInsert, At, TypeInv, Fates
<1>2. /\ Alone(r) /\ Goes(r) /\ TxOK(r)'
      /\ tx'[r].pc = "done" /\ tx'[r].result = "ok"
  BY <1>1, UploadEnded
<1>3. image'[r].purpose = tx[r].purpose
  BY <1>1 DEF Uploaded, RowsOK, Images
<1>4. FileOK(r)'
  BY <1>1, <1>2, <1>3 DEF FileOK, Goes, Purposes
<1>5. Inserts(r)
  BY <1>1, <1>2 DEF Inserts, FileOK
<1> QED BY <1>1, <1>2, <1>4, <1>5, InsertKeepsType DEF StepOf

LEMMA UploadInsertFailsStep ==
  ASSUME TypeInv, NEW r \in Requests, UploadInsertFails(r)
  PROVE  TypeInv' /\ StepOf(r)
<1>1. /\ tx[r].op = "upload" /\ tx[r].pc = "stored" /\ At(r, "upload", "stored") /\ FileOK(r)
      /\ RowsOK /\ user' = user /\ blob' = blob
  BY DEF UploadInsertFails, At, TypeInv
<1>2. CASE tx' = [tx EXCEPT ![r].pc = "cleaning"] /\ UNCHANGED image
  <2>1. Alone(r) /\ Goes(r) /\ TxOK(r)' /\ tx'[r].pc = "cleaning"
    BY <1>1, <1>2, UploadMovesTo
  <2>2. FileOK(r)'
    BY <1>1, <1>2, <2>1 DEF FileOK, Goes
  <2> QED BY <1>1, <1>2, <2>1, <2>2, FilesKeepType DEF StepOf, Continues
<1>3. CASE /\ tx' = [tx EXCEPT ![r].pc = "cleaning", ![r].fate = "unheard"]
           /\ image' = Uploaded(r)
  <2>1. /\ Alone(r) /\ Goes(r) /\ TxOK(r)'
        /\ tx'[r].pc = "cleaning" /\ tx'[r].fate = "unheard"
    BY <1>1, <1>3, UploadMovesUnheard
  <2>2. FileOK(r)'
    BY <1>1, <2>1 DEF FileOK, Goes
  <2>3. Inserts(r)
    BY <1>1, <1>3, <2>1 DEF Inserts, FileOK
  <2> QED BY <1>1, <1>3, <2>1, <2>2, <2>3, InsertKeepsType DEF StepOf
<1> QED BY <1>2, <1>3 DEF UploadInsertFails

-----------------------------------------------------------------------------
(* The steps of a profile update, of the switches and of a withdrawal      *)

\* Their requests have no image.
LEMMA NoFile ==
  ASSUME TypeInv, NEW r \in Requests, tx[r].op # "upload", tx'[r].op # "upload",
         image'[r].purpose = image[r].purpose, blob' = blob
  PROVE  FileOK(r)'
BY DEF TypeInv, FileOK

LEMMA ProfileCheckStep ==
  ASSUME TypeInv, NEW r \in Requests, NEW nickname \in Nicknames,
         NEW picked \in Images \cup {NULL, Kept}, ProfileCheck(r, nickname, picked)
  PROVE  TypeInv' /\ StepOf(r)
<1> DEFINE pc == IF picked = Kept THEN "demoted" ELSE "checked"
           f == Fresh("profile", pc)
           had == [nickname |-> user.nickname, picture |-> user.picture]
           rec == [f EXCEPT !.nickname = nickname, !.picked = picked, !.had = had]
<1>1. /\ f \in TxRecord /\ f.op = "profile" /\ f.pc = pc /\ f.before = Finished /\ f.held = {}
      /\ pc \in {"checked", "demoted"}
  <2>1. pc \in {"checked", "demoted"}
    OBVIOUS
  <2> HIDE DEF pc
  <2>2. pc \in {"checked", "demoted", "done"}
    BY <2>1
  <2> QED BY <2>1, <2>2, FreshRecord
<1>2. tx' = [tx EXCEPT ![r] = rec]
  BY DEF ProfileCheck
<1>3. had \in Had /\ had \in HadOrNull /\ had.nickname = user.nickname /\ had.picture = user.picture
  BY DEF TypeInv, RowsOK, UserRow, Had, HadOrNull
<1>4. /\ rec \in TxRecord
      /\ rec.op = "profile" /\ rec.pc = pc /\ rec.before = Finished /\ rec.held = {}
      /\ rec.nickname = nickname /\ rec.picked = picked /\ rec.had = had
  <2> HIDE DEF f, had, pc
  <2> QED BY <1>1, <1>3 DEF TxRecord
<1> HIDE DEF rec, had
<1>5. Alone(r) /\ tx'[r] = rec
  BY <1>2, <1>4, Updated
<1>6. Begins(r, "profile")
  BY <1>1, <1>4, <1>5 DEF Begins, ProfileCheck
<1>7. TxOK(r)' /\ FileOK(r)'
  BY <1>1, <1>3, <1>4, <1>5, <1>6, BegunIsOK DEF ProfileCheck
<1>8. TypeInv'
  BY <1>5, <1>7, QuietKeepsType DEF ProfileCheck
<1>9. Starts(r)
  BY <1>1, <1>3, <1>4, <1>5, <1>6 DEF Starts, HasRead, ProfileCheck
<1> QED BY <1>5, <1>8, <1>9 DEF StepOf

LEMMA ProfileRefusedStep ==
  ASSUME TypeInv, NEW r \in Requests, NEW picked \in Images, ProfileRefused(r, picked)
  PROVE  TypeInv' /\ StepOf(r)
<1> DEFINE f == Fresh("profile", "done")
           rec == [f EXCEPT !.result = "refused"]
<1>1. /\ f \in TxRecord /\ f.op = "profile" /\ f.pc = "done" /\ f.before = Finished /\ f.held = {}
      /\ "refused" \in Results
  BY FreshRecord DEF Results
<1>2. tx' = [tx EXCEPT ![r] = rec]
  BY DEF ProfileRefused
<1>3. /\ rec \in TxRecord
      /\ rec.op = "profile" /\ rec.pc = "done" /\ rec.before = Finished /\ rec.held = {}
      /\ rec.result = "refused"
  <2> HIDE DEF f
  <2> QED BY <1>1 DEF TxRecord
<1> HIDE DEF rec
<1>4. Alone(r) /\ tx'[r] = rec
  BY <1>2, <1>3, Updated
<1>5. Begins(r, "profile")
  BY <1>3, <1>4 DEF Begins, ProfileRefused
<1>6. TxOK(r)' /\ FileOK(r)'
  BY <1>3, <1>4, <1>5, BegunIsOK DEF ProfileRefused
<1>7. TypeInv'
  BY <1>4, <1>6, QuietKeepsType DEF ProfileRefused
<1> QED BY <1>3, <1>4, <1>5, <1>7 DEF StepOf, Starts, ProfileRefused

LEMMA SwitchesChangeStep ==
  ASSUME TypeInv, NEW r \in Requests, NEW changed \in BOOLEAN, SwitchesChange(r, changed)
  PROVE  TypeInv' /\ StepOf(r)
<1> DEFINE f == Fresh("settings", "done")
           rec == [f EXCEPT !.result = "ok"]
<1>1. /\ f \in TxRecord /\ f.op = "settings" /\ f.pc = "done" /\ f.before = Finished /\ f.held = {}
      /\ "ok" \in Results
  BY FreshRecord DEF Results
<1>2. tx' = [tx EXCEPT ![r] = rec]
  BY DEF SwitchesChange
<1>3. /\ rec \in TxRecord
      /\ rec.op = "settings" /\ rec.pc = "done" /\ rec.before = Finished /\ rec.held = {}
  <2> HIDE DEF f
  <2> QED BY <1>1 DEF TxRecord
<1> HIDE DEF rec
<1>4. Alone(r) /\ tx'[r] = rec
  BY <1>2, <1>3, Updated
<1>5. Begins(r, "settings") /\ image' = image /\ blob' = blob /\ tx[r].pc # "done"
  BY <1>3, <1>4 DEF Begins, SwitchesChange
<1>6. TxOK(r)' /\ FileOK(r)'
  BY <1>3, <1>4, <1>5, BegunIsOK
<1>7. RowsOK'
  BY <1>5 DEF TypeInv, RowsOK, UserRow, SwitchesChange
<1>8. TypeInv'
  BY <1>4, <1>5, <1>6, <1>7, OthersKeepType, TypeInvFrom
<1> QED BY <1>4, <1>5, <1>8 DEF StepOf, Starts, SwitchesChange, Switches

LEMMA WithdrawReadsStep ==
  ASSUME TypeInv, NEW r \in Requests, WithdrawReads(r)
  PROVE  TypeInv' /\ StepOf(r)
<1> DEFINE f == Fresh("withdraw", "checked")
           had == [nickname |-> user.nickname, picture |-> user.picture]
           rec == [f EXCEPT !.had = had]
<1>1. f \in TxRecord /\ f.op = "withdraw" /\ f.pc = "checked" /\ f.before = Finished /\ f.held = {}
  BY FreshRecord
<1>2. tx' = [tx EXCEPT ![r] = rec]
  BY DEF WithdrawReads
<1>3. had \in Had /\ had \in HadOrNull /\ had.nickname = user.nickname /\ had.picture = user.picture
  BY DEF TypeInv, RowsOK, UserRow, Had, HadOrNull
<1>4. /\ rec \in TxRecord
      /\ rec.op = "withdraw" /\ rec.pc = "checked" /\ rec.before = Finished /\ rec.held = {}
      /\ rec.had = had
  <2> HIDE DEF f, had
  <2> QED BY <1>1, <1>3 DEF TxRecord
<1> HIDE DEF rec, had
<1>5. Alone(r) /\ tx'[r] = rec
  BY <1>2, <1>4, Updated
<1>6. Begins(r, "withdraw")
  BY <1>4, <1>5 DEF Begins, WithdrawReads
<1>7. TxOK(r)' /\ FileOK(r)'
  BY <1>3, <1>4, <1>5, <1>6, BegunIsOK DEF WithdrawReads
<1>8. TypeInv'
  BY <1>5, <1>7, QuietKeepsType DEF WithdrawReads
<1> QED BY <1>3, <1>4, <1>5, <1>6, <1>8 DEF StepOf, Starts, HasRead, WithdrawReads

\* A request takes the locks of the rows that it will write.
LEMMA Holds ==
  ASSUME TypeInv, NEW r \in Requests, tx[r].pc \notin {"idle", "done"},
         NEW pc \in {"demoted", "writing"}, NEW rows \in SUBSET Images,
         tx' = [tx EXCEPT ![r] = [@ EXCEPT !.pc = pc, !.held = rows]]
  PROVE  /\ Alone(r) /\ Goes(r)
         /\ tx'[r].pc = pc /\ tx'[r].held = rows /\ tx'[r].had = tx[r].had
<1> DEFINE f == tx[r]
           rec == [f EXCEPT !.pc = pc, !.held = rows]
<1>1. f \in TxRecord /\ pc \in Pcs
  BY DEF TypeInv, Pcs
<1>2. tx' = [tx EXCEPT ![r] = rec]
  OBVIOUS
<1>3. /\ rec \in TxRecord
      /\ rec.pc = pc /\ rec.held = rows /\ rec.had = f.had
      /\ rec.op = f.op /\ rec.before = f.before
      /\ rec.purpose = f.purpose /\ rec.nickname = f.nickname /\ rec.picked = f.picked
  <2> HIDE DEF f
  <2> QED BY <1>1 DEF TxRecord
<1> HIDE DEF rec
<1>4. Alone(r) /\ tx'[r] = rec
  BY <1>2, <1>3, Updated
<1> QED BY <1>3, <1>4 DEF Goes

LEMMA ProfileDemoteStep ==
  ASSUME TypeInv, NEW r \in Requests, ProfileDemote(r)
  PROVE  TypeInv' /\ StepOf(r)
<1>1. /\ At(r, "profile", "checked") /\ tx[r].op = "profile" /\ tx[r].pc = "checked"
      /\ user' = user /\ image' = image /\ blob' = blob /\ RowsOK /\ TxOK(r) /\ FileOK(r)
  BY DEF ProfileDemote, At, TypeInv
<1>2. DemotedRows(r) \in SUBSET Images
  BY DEF DemotedRows
<1>3. /\ Alone(r) /\ Goes(r)
      /\ tx'[r].pc = "demoted" /\ tx'[r].held = DemotedRows(r) /\ tx'[r].had = tx[r].had
  BY <1>1, <1>2, Holds DEF ProfileDemote
<1>4. Finished \subseteq Finished'
  BY <1>1, <1>3 DEF Finished, Alone
<1>5. \A i \in DemotedRows(r) : image[i].purpose # NULL
  BY DEF DemotedRows
<1>6. TxOK(r)'
  BY <1>1, <1>3, <1>4, <1>5 DEF TxOK, Goes, At
<1>7. FileOK(r)'
  BY <1>1, <1>3, NoFile DEF Goes
<1> QED BY <1>1, <1>3, <1>6, <1>7, QuietKeepsType DEF StepOf, Continues

LEMMA WithdrawWritesStep ==
  ASSUME TypeInv, NEW r \in Requests, WithdrawWrites(r)
  PROVE  TypeInv' /\ StepOf(r)
<1>1. /\ At(r, "withdraw", "checked") /\ tx[r].op = "withdraw" /\ tx[r].pc = "checked"
      /\ user' = user /\ image' = image /\ blob' = blob /\ RowsOK /\ TxOK(r) /\ FileOK(r)
  BY DEF WithdrawWrites, At, TypeInv
<1>2. LiveImages \in SUBSET Images
  BY DEF LiveImages
<1>3. /\ Alone(r) /\ Goes(r)
      /\ tx'[r].pc = "writing" /\ tx'[r].held = LiveImages /\ tx'[r].had = tx[r].had
  BY <1>1, <1>2, Holds DEF WithdrawWrites
<1>4. Finished \subseteq Finished'
  BY <1>1, <1>3 DEF Finished, Alone
<1>5. \A i \in LiveImages : image[i].purpose # NULL
  BY <1>1 DEF LiveImages, RowsOK
<1>6. TxOK(r)'
  BY <1>1, <1>3, <1>4, <1>5 DEF TxOK, Goes, At
<1>7. FileOK(r)'
  BY <1>1, <1>3, NoFile DEF Goes
<1> QED BY <1>1, <1>3, <1>6, <1>7, QuietKeepsType DEF StepOf, Continues

LEMMA WithdrawWaitsStep ==
  ASSUME TypeInv, NEW r \in Requests, WithdrawWaits(r)
  PROVE  TypeInv' /\ StepOf(r)
<1>1. /\ At(r, "withdraw", "checked") /\ tx[r].op = "withdraw" /\ tx[r].pc = "checked"
      /\ user' = user /\ image' = image /\ blob' = blob /\ RowsOK /\ TxOK(r) /\ FileOK(r)
  BY DEF WithdrawWaits, At, TypeInv
<1> DEFINE f == tx[r]
           rec == [f EXCEPT !.pc = "waiting"]
<1>2. f \in TxRecord /\ "waiting" \in Pcs
  BY DEF TypeInv, Pcs
<1>3. tx' = [tx EXCEPT ![r] = rec]
  BY DEF WithdrawWaits
<1>4. /\ rec \in TxRecord
      /\ rec.pc = "waiting" /\ rec.held = f.held /\ rec.had = f.had
      /\ rec.op = f.op /\ rec.before = f.before
      /\ rec.purpose = f.purpose /\ rec.nickname = f.nickname /\ rec.picked = f.picked
  <2> HIDE DEF f
  <2> QED BY <1>2 DEF TxRecord
<1> HIDE DEF rec
<1>5. Alone(r) /\ tx'[r] = rec
  BY <1>3, <1>4, Updated
<1>6. Goes(r)
  BY <1>1, <1>4, <1>5 DEF Goes
<1>7. Finished \subseteq Finished'
  BY <1>1, <1>5 DEF Finished, Alone
<1>8. TxOK(r)'
  <2>1. tx[r].held = {}
    BY <1>1 DEF TxOK, At
  <2> QED BY <1>1, <1>4, <1>5, <1>7, <2>1 DEF TxOK, At
<1>9. FileOK(r)'
  BY <1>1, <1>4, <1>5, NoFile
<1> QED BY <1>1, <1>4, <1>5, <1>6, <1>8, <1>9, QuietKeepsType DEF StepOf, Continues

\* A request that ends holds no more locks.
LEMMA EndedIsOK ==
  ASSUME TypeInv, NEW r \in Requests, Alone(r), Goes(r), tx'[r].pc = "done", tx'[r].held = {}
  PROVE  TxOK(r)'
<1>1. TxOK(r) /\ Finished \subseteq Finished'
  BY DEF TypeInv, Finished, Alone, Goes
<1> QED BY <1>1 DEF TxOK, Goes, At

LEMMA FailsSteps ==
  ASSUME TypeInv, NEW r \in Requests, ProfileFails(r) \/ WithdrawFails(r)
  PROVE  TypeInv' /\ StepOf(r)
<1>1. /\ tx[r].pc \notin {"idle", "done"} /\ tx[r].op # "upload"
      /\ user' = user /\ image' = image /\ blob' = blob
      /\ Ends(r, "failed", "clean") /\ "failed" \in Results /\ "clean" \in Fates
  BY DEF ProfileFails, WithdrawFails, At, Results, Fates
<1>2. /\ Alone(r) /\ Goes(r)
      /\ tx'[r].pc = "done" /\ tx'[r].result = "failed" /\ tx'[r].held = {}
  BY <1>1, Ended
<1>3. TxOK(r)' /\ FileOK(r)'
  BY <1>1, <1>2, EndedIsOK, NoFile DEF Goes
<1> QED BY <1>1, <1>2, <1>3, QuietKeepsType DEF StepOf, Continues

\* A commit changes the rows that it holds and keeps that they are there.
LEMMA CommitKeepsType ==
  ASSUME TypeInv, NEW r \in Requests, Alone(r), Goes(r), tx'[r].pc = "done", tx'[r].held = {},
         tx[r].op # "upload", user' \in UserRow, blob' = blob,
         image' \in [Images -> ImageRow],
         \A i \in Images :
           /\ image'[i].purpose = NULL <=> image[i].purpose = NULL
           /\ image'[i].live => image[i].live
  PROVE  TypeInv'
<1>1. RowsOK'
  BY DEF TypeInv, RowsOK
<1>2. \A s \in Requests \ {r} : TxOK(s)' /\ FileOK(s)'
  <2>1. \A i \in Images : image[i].purpose # NULL => image'[i].purpose # NULL
    OBVIOUS
  <2>2. \A s \in Requests \ {r} : image[s].purpose = NULL => image'[s].purpose = NULL
    BY DEF Images
  <2> QED BY <2>1, <2>2, OthersKeepType DEF Goes
<1>3. TxOK(r)'
  BY EndedIsOK
<1>4. FileOK(r)'
  BY DEF TypeInv, FileOK, Goes, Images
<1> QED BY <1>1, <1>2, <1>3, <1>4, TypeInvFrom

LEMMA ProfileCommitStep ==
  ASSUME TypeInv, NEW r \in Requests, ProfileCommit(r)
  PROVE  TypeInv' /\ StepOf(r)
<1>1. /\ tx[r].op = "profile" /\ tx[r].pc = "demoted" /\ blob' = blob /\ RowsOK /\ TxOK(r)
      /\ Ends(r, "ok", "clean") /\ "ok" \in Results /\ "clean" \in Fates /\ tx[r] \in TxRecord
  BY DEF ProfileCommit, At, TypeInv, Results, Fates
<1>2. Alone(r) /\ Goes(r) /\ tx'[r].pc = "done" /\ tx'[r].held = {}
  BY <1>1, Ended
<1>3. NewPicture(r) \in Images \cup {NULL} /\ tx[r].nickname \in Nicknames
  BY <1>1 DEF NewPicture, TxOK, Had, TxRecord
<1>4. user' \in UserRow
  BY <1>1, <1>3 DEF ProfileCommit, RowsOK, UserRow
<1>5. \A i \in Images : image'[i] = IF i \in HeldBy(r) THEN [image[i] EXCEPT !.purpose = "ETC"]
                                                      ELSE image[i]
  BY DEF ProfileCommit
<1>6. \A i \in Images : [image[i] EXCEPT !.purpose = "ETC"] \in ImageRow
                        /\ [image[i] EXCEPT !.purpose = "ETC"].purpose = "ETC"
                        /\ [image[i] EXCEPT !.purpose = "ETC"].live = image[i].live
  BY <1>1 DEF RowsOK, ImageRow, Purposes
<1>7. image' \in [Images -> ImageRow]
  BY <1>1, <1>5, <1>6 DEF ProfileCommit, RowsOK
<1>8. \A i \in Images : /\ image'[i].purpose = NULL <=> image[i].purpose = NULL
                        /\ image'[i].live => image[i].live
  BY <1>1, <1>5, <1>6 DEF TxOK, HeldBy
<1>9. TypeInv'
  BY <1>1, <1>2, <1>4, <1>7, <1>8, CommitKeepsType
<1> QED BY <1>2, <1>9 DEF StepOf, Commits

LEMMA WithdrawCommitStep ==
  ASSUME TypeInv, NEW r \in Requests, WithdrawCommit(r)
  PROVE  TypeInv' /\ StepOf(r)
<1>1. /\ tx[r].op = "withdraw" /\ tx[r].pc = "writing" /\ blob' = blob /\ RowsOK
      /\ Ends(r, "ok", "clean") /\ "ok" \in Results /\ "clean" \in Fates
  BY DEF WithdrawCommit, At, TypeInv, Results, Fates
<1>2. Alone(r) /\ Goes(r) /\ tx'[r].pc = "done" /\ tx'[r].held = {}
  BY <1>1, Ended
<1>3. user' \in UserRow
  BY <1>1 DEF WithdrawCommit, RowsOK, UserRow
<1>4. \A i \in Images : image'[i] = IF i \in HeldBy(r) THEN [image[i] EXCEPT !.live = FALSE]
                                                      ELSE image[i]
  BY DEF WithdrawCommit
<1>5. \A i \in Images : [image[i] EXCEPT !.live = FALSE] \in ImageRow
                        /\ [image[i] EXCEPT !.live = FALSE].purpose = image[i].purpose
                        /\ ~[image[i] EXCEPT !.live = FALSE].live
  BY <1>1 DEF RowsOK, ImageRow
<1>6. image' \in [Images -> ImageRow]
  BY <1>1, <1>4, <1>5 DEF WithdrawCommit, RowsOK
<1>7. \A i \in Images : /\ image'[i].purpose = NULL <=> image[i].purpose = NULL
                        /\ image'[i].live => image[i].live
  BY <1>4, <1>5
<1>8. TypeInv'
  BY <1>1, <1>2, <1>3, <1>6, <1>7, CommitKeepsType
<1> QED BY <1>2, <1>8 DEF StepOf, Leaves

-----------------------------------------------------------------------------
(* The process goes down                                                   *)

\* A request is as it was, or it was under way and has crashed.
Crash ==
  /\ user' = user /\ image' = image
  /\ tx' \in [Requests -> TxRecord]
  /\ \A r \in Requests :
       \/ tx'[r] = tx[r] /\ tx[r].pc \in {"idle", "done"}
       \/ /\ Goes(r) /\ tx'[r].pc = "done" /\ tx'[r].result = "crashed"
          /\ tx'[r].fate = "crashed" /\ tx'[r].held = {}

LEMMA RestartStep ==
  ASSUME TypeInv, Restart
  PROVE  TypeInv' /\ Crash
<1> DEFINE Crashed(f) == [f EXCEPT !.pc = "done", !.result = "crashed", !.fate = "crashed",
                                   !.held = {}, !.had = NULL]
<1>1. ASSUME NEW f \in TxRecord
      PROVE  /\ Crashed(f) \in TxRecord
             /\ Crashed(f).pc = "done" /\ Crashed(f).result = "crashed"
             /\ Crashed(f).fate = "crashed" /\ Crashed(f).held = {}
             /\ Crashed(f).op = f.op /\ Crashed(f).before = f.before
             /\ Crashed(f).purpose = f.purpose /\ Crashed(f).nickname = f.nickname
             /\ Crashed(f).picked = f.picked
  <2>1. "crashed" \in Results /\ "crashed" \in Fates
    BY DEF Results, Fates
  <2>2. Crashed(f) \in TxRecord
    BY <2>1, EndedRecord
  <2> QED BY <2>2 DEF TxRecord
<1>2. tx' = [r \in Requests |-> IF tx[r].pc \in {"idle", "done"} THEN tx[r] ELSE Crashed(tx[r])]
  BY DEF Restart
<1> HIDE DEF Crashed
<1>3. user' = user /\ image' = image /\ blob' = blob /\ tx \in [Requests -> TxRecord]
  BY DEF Restart, TypeInv
<1>4. tx' \in [Requests -> TxRecord]
  BY <1>1, <1>2, <1>3
<1>5. ASSUME NEW r \in Requests
      PROVE  \/ tx'[r] = tx[r] /\ tx[r].pc \in {"idle", "done"}
             \/ /\ Goes(r) /\ tx'[r].pc = "done" /\ tx'[r].result = "crashed"
                /\ tx'[r].fate = "crashed" /\ tx'[r].held = {}
  BY <1>1, <1>2, <1>3 DEF Goes
<1>6. Finished \subseteq Finished'
  BY <1>5 DEF Finished
<1>7. ASSUME NEW r \in Requests PROVE TxOK(r)' /\ FileOK(r)'
  <2>1. TxOK(r) /\ FileOK(r)
    BY DEF TypeInv
  <2>2. TxOK(r)'
    BY <1>3, <1>5, <1>6, <2>1 DEF TxOK, Goes, At
  <2>3. FileOK(r)'
    BY <1>3, <1>5, <2>1 DEF FileOK, Goes
  <2> QED BY <2>2, <2>3
<1>8. RowsOK'
  BY <1>3 DEF TypeInv, RowsOK
<1> QED BY <1>3, <1>4, <1>5, <1>7, <1>8 DEF TypeInv, Crash

LEMMA RequestStep ==
  ASSUME TypeInv, NEW r \in Requests,
         Uploads(r) \/ Profiles(r) \/ Switches(r) \/ Withdraws(r)
  PROVE  TypeInv' /\ StepOf(r)
<1>1. CASE Uploads(r)
  BY <1>1, UploadCheckStep, UploadBlobSteps, UploadInsertStep, UploadWaitsStep,
     UploadInsertFailsStep, UploadCleansStep DEF Uploads, Purposes
<1>2. CASE Profiles(r)
  BY <1>2, ProfileCheckStep, ProfileRefusedStep, ProfileDemoteStep, ProfileCommitStep,
     FailsSteps DEF Profiles
<1>3. CASE Switches(r)
  BY <1>3, SwitchesChangeStep DEF Switches
<1>4. CASE Withdraws(r)
  BY <1>4, WithdrawReadsStep, WithdrawWritesStep, WithdrawWaitsStep, WithdrawCommitStep,
     FailsSteps DEF Withdraws
<1> QED BY <1>1, <1>2, <1>3, <1>4

\* Every step is one of one request, or takes all of them down.
LEMMA NextIsStep ==
  ASSUME TypeInv, Next
  PROVE  TypeInv' /\ (Crash \/ \E r \in Requests : StepOf(r))
BY RequestStep, RestartStep DEF Next

LEMMA TypeInvInit == Init => TypeInv
<1> SUFFICES ASSUME Init PROVE TypeInv
  OBVIOUS
<1>1. RowsOK
  <2>1. NoImage \in ImageRow /\ [purpose |-> "PROFILE_IMAGE", live |-> TRUE] \in ImageRow
    BY DEF NoImage, ImageRow, Purposes
  <2> QED BY <2>1 DEF Init, RowsOK, UserRow, Images, NoImage
<1>2. \A r \in Requests : TxOK(r) /\ FileOK(r)
  BY DEF Init, TxOK, FileOK, Idle, Images, NoImage, At
<1> QED BY <1>1, <1>2, IdleRecord DEF TypeInv, Init

LEMMA TypeInvHolds == Spec => []TypeInv
<1>1. TypeInv /\ UNCHANGED vars => TypeInv'
  BY DEF TypeInv, vars, RowsOK, TxOK, FileOK, Finished, At
<1>2. TypeInv /\ [Next]_vars => TypeInv'
  BY <1>1, NextIsStep
<1> QED BY <1>2, TypeInvInit, PTL DEF Spec

\* The file of an image and its row are both there or both not when the upload is
\* over, whatever fails, overlaps it or withdraws the account, but for the ambiguous
\* ends; an upload that succeeded always has both.
THEOREM FilesAndRowsMatch == Spec => []FilesMatchRows
<1>1. TypeInv => FilesMatchRows
  BY DEF TypeInv, FileOK, FilesMatchRows
<1> QED BY <1>1, TypeInvHolds, PTL

-----------------------------------------------------------------------------
(* What the steps keep, and what the commits write                         *)

IsStep == TypeInv /\ TypeInv' /\ (Crash \/ \E r \in Requests : StepOf(r))

LEMMA NextMakesStep ==
  ASSUME TypeInv, Next
  PROVE  IsStep
BY NextIsStep DEF IsStep

\* A request that has begun keeps what it is; one that has ended keeps everything.
LEMMA RequestsKept ==
  ASSUME IsStep, NEW s \in Requests
  PROVE  /\ tx[s].op # "none" =>
              /\ tx'[s].op = tx[s].op /\ tx'[s].before = tx[s].before
              /\ tx'[s].picked = tx[s].picked /\ tx'[s].nickname = tx[s].nickname
         /\ tx[s].pc = "done" => tx'[s] = tx[s]
         /\ tx[s].op = "none" => tx'[s] = tx[s] \/ (user.active /\ tx'[s].before = Finished)
<1>1. TxOK(s)
  BY DEF IsStep, TypeInv
<1>2. CASE Crash
  BY <1>1, <1>2 DEF Crash, Goes, TxOK
<1>3. ASSUME NEW r \in Requests, StepOf(r)
      PROVE  tx'[s] = tx[s] \/ Goes(s) \/ (tx[s].pc = "idle" /\ user.active /\ tx'[s].before = Finished)
  BY <1>3 DEF StepOf, Alone, Starts, Begins, Continues, Inserts, Commits, Leaves
<1>4. CASE \E r \in Requests : StepOf(r)
  BY <1>1, <1>3, <1>4 DEF Goes, TxOK
<1> QED BY <1>2, <1>4 DEF IsStep

LEMMA FinishedKept ==
  ASSUME IsStep
  PROVE  Finished \subseteq Finished'
BY RequestsKept DEF Finished

LEMMA ChoosingKept ==
  ASSUME IsStep
  PROVE  Choosing \subseteq Choosing'
BY RequestsKept DEF Choosing

LEMMA OverlapKept ==
  ASSUME IsStep, NEW r \in Requests, NEW s \in Requests, tx[r].op # "none", tx[s].op # "none"
  PROVE  Overlap(r, s) <=> Overlap(r, s)'
BY RequestsKept DEF Overlap

\* Two requests under way overlap.
LEMMA UnderWayOverlap ==
  ASSUME TypeInv, NEW r \in Requests, NEW s \in Requests \ {r},
         tx[r].pc # "done", tx[s].pc # "done"
  PROVE  Overlap(r, s)
BY DEF TypeInv, TxOK, Finished, Overlap

LEMMA CommitWrites ==
  ASSUME TypeInv, NEW r \in Requests, ProfileCommit(r)
  PROVE  /\ user'.active = user.active
         /\ user'.nickname = IF tx[r].nickname # tx[r].had.nickname THEN tx[r].nickname
                                                                   ELSE user.nickname
         /\ user'.picture = IF NewPicture(r) # tx[r].had.picture THEN NewPicture(r)
                                                                 ELSE user.picture
         /\ user'.updated <=> \/ user.updated \/ tx[r].nickname # tx[r].had.nickname
                              \/ NewPicture(r) # tx[r].had.picture
         /\ \A i \in Images :
              /\ image'[i].live <=> image[i].live
              /\ image'[i].purpose = IF i \in tx[r].held THEN "ETC" ELSE image[i].purpose
<1>1. user \in UserRow /\ \A i \in Images : image[i] \in ImageRow
  BY DEF TypeInv, RowsOK
<1>2. /\ "nickname" \in Changes(r) <=> tx[r].nickname # tx[r].had.nickname
      /\ "picture" \in Changes(r) <=> NewPicture(r) # tx[r].had.picture
      /\ Changes(r) # {} <=> "nickname" \in Changes(r) \/ "picture" \in Changes(r)
  BY DEF Changes
<1> DEFINE nicknameChanges == "nickname" \in Changes(r)
           pictureChanges == "picture" \in Changes(r)
           changes == Changes(r) # {}
<1>3. user' = [user EXCEPT
                !.nickname = IF nicknameChanges THEN tx[r].nickname ELSE user.nickname,
                !.picture = IF pictureChanges THEN NewPicture(r) ELSE user.picture,
                !.updated = user.updated \/ changes]
  BY DEF ProfileCommit
<1>4. /\ user'.active = user.active
      /\ user'.nickname = IF nicknameChanges THEN tx[r].nickname ELSE user.nickname
      /\ user'.picture = IF pictureChanges THEN NewPicture(r) ELSE user.picture
      /\ user'.updated = (user.updated \/ changes)
  <2> HIDE DEF nicknameChanges, pictureChanges, changes
  <2> QED BY <1>1, <1>3 DEF UserRow
<1>5. \A i \in Images : image'[i] = IF i \in tx[r].held THEN [image[i] EXCEPT !.purpose = "ETC"]
                                                        ELSE image[i]
  BY DEF ProfileCommit, HeldBy
<1>6. \A i \in Images : /\ image'[i].live <=> image[i].live
                        /\ image'[i].purpose = IF i \in tx[r].held THEN "ETC" ELSE image[i].purpose
  BY <1>1, <1>5 DEF ImageRow
<1> QED BY <1>2, <1>4, <1>6

LEMMA LeaveWrites ==
  ASSUME TypeInv, NEW r \in Requests, WithdrawCommit(r)
  PROVE  /\ ~user'.active /\ user'.updated /\ user'.nickname = user.nickname
         /\ user'.picture = IF tx[r].had.picture # NULL THEN NULL ELSE user.picture
         /\ \A i \in Images : image'[i].live <=> image[i].live /\ i \notin tx[r].held
<1>1. user \in UserRow /\ \A i \in Images : image[i] \in ImageRow
  BY DEF TypeInv, RowsOK
<1>2. /\ ~user'.active /\ user'.updated /\ user'.nickname = user.nickname
      /\ user'.picture = IF tx[r].had.picture # NULL THEN NULL ELSE user.picture
  BY <1>1 DEF WithdrawCommit, UserRow
<1>3. \A i \in Images : image'[i] = IF i \in tx[r].held THEN [image[i] EXCEPT !.live = FALSE]
                                                        ELSE image[i]
  BY DEF WithdrawCommit, HeldBy
<1>4. \A i \in Images : image'[i].live <=> image[i].live /\ i \notin tx[r].held
  BY <1>1, <1>3 DEF ImageRow
<1> QED BY <1>2, <1>4

-----------------------------------------------------------------------------
(* A nickname that was chosen shows that the account was set up            *)

SeenInv ==
  /\ user.nickname # Nickname => user.updated
  /\ \A r \in Requests :
       tx[r].op = "profile" /\ tx[r].pc # "done" /\ tx[r].had.nickname # Nickname => user.updated
  /\ OnboardingIsSeen

\* The row is updated for good.
LEMMA UpdatedKept ==
  ASSUME IsStep, user.updated
  PROVE  user'.updated
<1>1. user \in UserRow
  BY DEF IsStep, TypeInv, RowsOK
<1>2. ASSUME NEW r \in Requests, StepOf(r) PROVE user'.updated
  BY <1>1, <1>2, CommitWrites, LeaveWrites
     DEF IsStep, StepOf, Starts, Continues, Inserts, Commits, Leaves, UserRow
<1> QED BY <1>2 DEF IsStep, Crash

LEMMA SeenInvStep ==
  ASSUME SeenInv, IsStep
  PROVE  SeenInv'
<1>1. CASE user.updated
  BY <1>1, UpdatedKept DEF SeenInv, OnboardingIsSeen
<1>2. CASE ~user.updated
  <2>1. /\ user.nickname = Nickname
        /\ \A r \in Requests : tx[r].op = "profile" /\ tx[r].pc # "done" => tx[r].had.nickname = Nickname
        /\ \A r \in Requests : tx[r].op = "profile" /\ Succeeded(r) => tx[r].nickname = Nickname
    BY <1>2 DEF SeenInv, OnboardingIsSeen
  <2>2. CASE Crash
    BY <2>1, <2>2 DEF Crash, Goes, SeenInv, OnboardingIsSeen, Succeeded
  <2>3. ASSUME NEW r \in Requests, StepOf(r), ~user'.updated
        PROVE  /\ user'.nickname = Nickname
               /\ tx'[r].op = "profile" /\ tx'[r].pc # "done" => tx'[r].had.nickname = Nickname
               /\ tx'[r].op = "profile" /\ Succeeded(r)' => tx'[r].nickname = Nickname
    <3>1. CASE Starts(r)
      BY <2>1, <2>3, <3>1 DEF Starts, Begins, HasRead, Succeeded, IsStep, TypeInv, RowsOK, UserRow
    <3>2. CASE Continues(r)
      BY <2>1, <3>2 DEF Continues, Goes, Succeeded, At
    <3>3. CASE Inserts(r)
      BY <2>1, <3>3 DEF Inserts, Goes
    <3>4. CASE Commits(r)
      <4>1. tx[r].op = "profile" /\ tx[r].pc # "done" /\ Goes(r) /\ tx'[r].pc = "done"
        BY <3>4 DEF Commits, ProfileCommit, At
      <4> QED BY <2>1, <2>3, <3>4, <4>1, CommitWrites DEF Commits, Goes, IsStep
    <3>5. CASE Leaves(r)
      BY <2>3, <3>5, LeaveWrites DEF Leaves, IsStep
    <3> QED BY <2>3, <3>1, <3>2, <3>3, <3>4, <3>5 DEF StepOf
  <2>4. ASSUME NEW r \in Requests, StepOf(r) PROVE SeenInv'
    <3>1. \A s \in Requests \ {r} : tx'[s] = tx[s]
      BY <2>4 DEF StepOf, Alone
    <3> QED BY <2>1, <2>3, <2>4, <3>1 DEF SeenInv, OnboardingIsSeen, Succeeded
  <2> QED BY <2>2, <2>4 DEF IsStep
<1> QED BY <1>1, <1>2

LEMMA SeenInvHolds == Spec => []SeenInv
<1>1. Init => SeenInv
  BY DEF Init, SeenInv, OnboardingIsSeen, Idle
<1>2. SeenInv /\ UNCHANGED vars => SeenInv'
  BY DEF SeenInv, OnboardingIsSeen, Succeeded, vars
<1>3. TypeInv /\ SeenInv /\ [Next]_vars => SeenInv'
  BY <1>2, NextMakesStep, SeenInvStep
<1> QED BY <1>1, <1>3, TypeInvHolds, PTL DEF Spec

-----------------------------------------------------------------------------
(* A withdrawal leaves nothing behind                                      *)

\* The picture is gone, or a choice has set it meanwhile.
NoPicture(w) == user.picture = NULL \/ \E r \in Choosing : Overlap(r, w)

WithdrawalOK(w) ==
  /\ tx[w].pc = "writing" =>
       \A i \in OldImages \cup tx[w].before : image[i].live => i \in tx[w].held
  /\ tx[w].pc # "done" /\ tx[w].had.picture = NULL => NoPicture(w)
  /\ Succeeded(w) =>
       /\ ~user.active
       /\ \A i \in OldImages \cup tx[w].before : ~image[i].live
       /\ NoPicture(w)

\* Nobody begins after a withdrawal has succeeded.
WithdrawalInv ==
  \A w \in Requests : tx[w].op = "withdraw" =>
    /\ WithdrawalOK(w)
    /\ Succeeded(w) => \A r \in Requests : w \notin tx[r].before

LEMMA WithdrawalSteps ==
  ASSUME IsStep, NEW w \in Requests, tx'[w].op = "withdraw"
  PROVE  \/ tx'[w] = tx[w]
         \/ /\ tx[w].op = "none" /\ user' = user /\ image' = image
            /\ HasRead(w) /\ tx'[w].pc = "checked"
         \/ /\ tx[w].op = "withdraw" /\ tx[w].pc # "done" /\ Goes(w) /\ user' = user /\ image' = image
            /\ \/ tx'[w].pc = "done" /\ tx'[w].result # "ok"
               \/ /\ tx'[w].had = tx[w].had
                  /\ \/ tx'[w].pc = "writing" /\ tx'[w].held = LiveImages
                     \/ tx'[w].pc = "waiting"
         \/ tx[w].op = "withdraw" /\ Leaves(w)
<1>1. TxOK(w)
  BY DEF IsStep, TypeInv
<1>2. CASE Crash
  BY <1>2 DEF Crash, Goes
<1>3. ASSUME NEW r \in Requests, StepOf(r), r # w PROVE tx'[w] = tx[w]
  BY <1>3 DEF StepOf, Alone
<1>4. CASE StepOf(w)
  <2>1. CASE Starts(w)
    BY <1>1, <2>1 DEF Starts, Begins, TxOK
  <2>2. CASE Continues(w)
    BY <2>2 DEF Continues, Goes, At
  <2>3. CASE Inserts(w) \/ Commits(w)
    BY <2>3 DEF Inserts, Commits, ProfileCommit, Goes, At
  <2>4. CASE Leaves(w)
    BY <2>4 DEF Leaves, WithdrawCommit, At
  <2> QED BY <1>4, <2>1, <2>2, <2>3, <2>4 DEF StepOf
<1> QED BY <1>2, <1>3, <1>4 DEF IsStep

\* Only an upload under way brings an image.
LEMMA LiveKept ==
  ASSUME IsStep, NEW i \in OldImages \cup Finished, image'[i].live
  PROVE  image[i].live
<1>1. i \in Images
  BY DEF Images, Finished
<1>2. CASE Crash
  BY <1>2 DEF Crash
<1>3. ASSUME NEW r \in Requests, StepOf(r) PROVE image[i].live
  <2>1. CASE Inserts(r)
    <3>1. i # r
      BY <2>1 DEF Inserts, Goes, Finished
    <3> QED BY <1>1, <2>1, <3>1 DEF Inserts, Uploaded, IsStep, TypeInv, RowsOK
  <2>2. CASE Commits(r) \/ Leaves(r)
    BY <1>1, <2>2, CommitWrites, LeaveWrites DEF Commits, Leaves, IsStep
  <2> QED BY <1>3, <2>1, <2>2 DEF StepOf, Starts, Continues
<1> QED BY <1>2, <1>3 DEF IsStep

\* The account is withdrawn for good.
LEMMA InactiveKept ==
  ASSUME IsStep, ~user.active
  PROVE  ~user'.active
<1>1. user \in UserRow
  BY DEF IsStep, TypeInv, RowsOK
<1>2. ASSUME NEW r \in Requests, StepOf(r) PROVE ~user'.active
  BY <1>1, <1>2, CommitWrites, LeaveWrites
     DEF IsStep, StepOf, Starts, Continues, Inserts, Commits, Leaves, UserRow
<1> QED BY <1>2 DEF IsStep, Crash

\* Only a choice sets a picture.
LEMMA PictureKept ==
  ASSUME IsStep
  PROVE  \/ user'.picture = user.picture
         \/ \E r \in Choosing : Commits(r) /\ user'.picture = tx[r].picked /\ tx[r].pc # "done"
         \/ \E r \in Requests : Leaves(r) /\ user'.picture = NULL
<1>1. user \in UserRow
  BY DEF IsStep, TypeInv, RowsOK
<1>2. ASSUME NEW r \in Requests, StepOf(r)
      PROVE  \/ user'.picture = user.picture
             \/ r \in Choosing /\ Commits(r) /\ user'.picture = tx[r].picked /\ tx[r].pc # "done"
             \/ Leaves(r) /\ user'.picture = NULL
  <2>1. CASE Commits(r)
    <3>1. tx[r].op = "profile" /\ tx[r].pc # "done"
      BY <2>1 DEF Commits, ProfileCommit, At
    <3>2. user'.picture = IF NewPicture(r) # tx[r].had.picture THEN NewPicture(r) ELSE user.picture
      BY <2>1, CommitWrites DEF Commits, IsStep
    <3> QED BY <2>1, <3>1, <3>2 DEF NewPicture, Choosing
  <2>2. CASE Leaves(r)
    BY <2>2, LeaveWrites DEF Leaves, IsStep
  <2>3. CASE Starts(r)
    BY <1>1, <2>3 DEF Starts, UserRow
  <2> QED BY <1>2, <2>1, <2>2, <2>3 DEF StepOf, Continues, Inserts
<1> QED BY <1>2 DEF IsStep, Crash

LEMMA NoPictureKept ==
  ASSUME IsStep, NEW w \in Requests, tx[w].op = "withdraw", NoPicture(w),
         tx[w].pc # "done" \/ \A r \in Requests : w \notin tx[r].before
  PROVE  NoPicture(w)'
<1>1. CASE \E r \in Choosing : Overlap(r, w)
  <2>1. PICK r \in Choosing : Overlap(r, w)
    BY <1>1
  <2>2. Overlap(r, w)' /\ r \in Choosing'
    BY <2>1, OverlapKept, ChoosingKept DEF Choosing
  <2> QED BY <2>2 DEF NoPicture
<1>2. CASE user.picture = NULL /\ user'.picture # NULL
  <2>1. PICK r \in Choosing : Commits(r) /\ tx[r].pc # "done"
    BY <1>2, PictureKept
  <2>2. r # w /\ r \in Requests /\ tx[r].op = "profile"
    BY <2>1 DEF Choosing
  <2>3. Overlap(r, w)
    BY <2>1, <2>2, UnderWayOverlap DEF IsStep, TypeInv, TxOK, Finished, Overlap
  <2>4. Overlap(r, w)' /\ r \in Choosing'
    BY <2>1, <2>2, <2>3, OverlapKept, ChoosingKept
  <2> QED BY <2>4 DEF NoPicture
<1> QED BY <1>1, <1>2 DEF NoPicture

LEMMA WithdrawalInvStep ==
  ASSUME WithdrawalInv, IsStep
  PROVE  WithdrawalInv'
<1> SUFFICES ASSUME NEW w \in Requests, tx'[w].op = "withdraw"
             PROVE  /\ WithdrawalOK(w)'
                    /\ Succeeded(w)' => \A r \in Requests : w \notin tx'[r].before
  BY DEF WithdrawalInv
<1>1. TypeInv /\ TypeInv' /\ TxOK(w) /\ Finished \subseteq Requests
  BY DEF IsStep, TypeInv, Finished
<1>2. ASSUME Succeeded(w)', NEW r \in Requests PROVE w \notin tx'[r].before
  <2>1. tx'[r].before \in {tx[r].before, Finished}
    BY RequestsKept DEF IsStep
  <2>2. CASE w \notin Finished
    BY <1>1, <2>1, <2>2 DEF TypeInv, TxOK
  <2>3. CASE w \in Finished
    <3>1. tx'[w] = tx[w] /\ Succeeded(w) /\ tx[w].op = "withdraw"
      BY <1>2, <2>3, RequestsKept DEF Finished, Succeeded
    <3>2. w \notin tx[r].before /\ ~user.active
      BY <3>1 DEF WithdrawalInv, WithdrawalOK
    <3> QED BY <3>2, RequestsKept
  <2> QED BY <2>2, <2>3
<1>3. CASE tx'[w] = tx[w]
  <2>1. WithdrawalOK(w) /\ tx[w].op = "withdraw"
    BY <1>3 DEF WithdrawalInv
  <2>2. \A i \in OldImages \cup tx[w].before : image'[i].live => image[i].live
    BY <1>1, LiveKept DEF TxOK
  <2>3. tx[w].pc # "done" /\ NoPicture(w) => NoPicture(w)'
    BY <2>1, NoPictureKept
  <2>4. Succeeded(w) => ~user'.active /\ NoPicture(w)'
    BY <2>1, InactiveKept, NoPictureKept DEF WithdrawalInv, WithdrawalOK
  <2> QED BY <1>2, <1>3, <2>1, <2>2, <2>3, <2>4 DEF WithdrawalOK, Succeeded
<1>4. CASE /\ tx[w].op = "none" /\ user' = user /\ image' = image
           /\ HasRead(w) /\ tx'[w].pc = "checked"
  BY <1>2, <1>4 DEF WithdrawalOK, HasRead, NoPicture, Succeeded
<1>5. CASE /\ tx[w].op = "withdraw" /\ tx[w].pc # "done" /\ Goes(w) /\ user' = user /\ image' = image
           /\ \/ tx'[w].pc = "done" /\ tx'[w].result # "ok"
              \/ /\ tx'[w].had = tx[w].had
                 /\ \/ tx'[w].pc = "writing" /\ tx'[w].held = LiveImages
                    \/ tx'[w].pc = "waiting"
  <2>1. WithdrawalOK(w)
    BY <1>5 DEF WithdrawalInv
  <2>2. NoPicture(w) => NoPicture(w)'
    BY <1>5, NoPictureKept
  <2>3. tx'[w].pc = "writing" =>
          \A i \in OldImages \cup tx'[w].before : image'[i].live => i \in tx'[w].held
    BY <1>1, <1>5 DEF LiveImages, Goes, Images, TxOK
  <2> QED BY <1>2, <1>5, <2>1, <2>2, <2>3 DEF WithdrawalOK, Succeeded
<1>6. CASE tx[w].op = "withdraw" /\ Leaves(w)
  <2>1. WithdrawalOK(w) /\ tx[w].pc = "writing" /\ WithdrawCommit(w) /\ Goes(w) /\ tx'[w].pc = "done"
    BY <1>6 DEF WithdrawalInv, Leaves, WithdrawCommit, At
  <2>2. /\ ~user'.active
        /\ user'.picture = IF tx[w].had.picture # NULL THEN NULL ELSE user.picture
        /\ \A i \in Images : image'[i].live <=> image[i].live /\ i \notin tx[w].held
    BY <1>1, <2>1, LeaveWrites
  <2>3. \A i \in OldImages \cup tx'[w].before : ~image'[i].live
    BY <1>1, <2>1, <2>2 DEF WithdrawalOK, Goes, Images, TxOK
  <2>4. NoPicture(w)'
    BY <1>6, <2>1, <2>2, NoPictureKept DEF WithdrawalOK, NoPicture
  <2> QED BY <1>2, <2>1, <2>2, <2>3, <2>4 DEF WithdrawalOK, Succeeded
<1> QED BY <1>3, <1>4, <1>5, <1>6, WithdrawalSteps

LEMMA WithdrawalInvHolds == Spec => []WithdrawalInv
<1>1. Init => WithdrawalInv
  BY DEF Init, WithdrawalInv, Idle
<1>2. WithdrawalInv /\ UNCHANGED vars => WithdrawalInv'
  BY DEF WithdrawalInv, WithdrawalOK, NoPicture, Choosing, Overlap, Succeeded, vars
<1>3. TypeInv /\ WithdrawalInv /\ [Next]_vars => WithdrawalInv'
  BY <1>2, NextMakesStep, WithdrawalInvStep
<1> QED BY <1>1, <1>3, TypeInvHolds, PTL DEF Spec

-----------------------------------------------------------------------------
(* The last choice of a picture wins                                       *)

\* No two choices have overlapped yet.
Serial == user.active /\ ~(\E r, s \in Choosing : Overlap(r, s))

\* What an unfinished choice has decided from is still so, and it holds what it
\* will demote.
ChoiceOK(s) ==
  /\ tx[s].picked \in Images => MayBePicked(tx[s].picked)
  /\ tx[s].had.picture = user.picture
  /\ tx[s].pc = "demoted" =>
       /\ tx[s].picked \notin tx[s].held
       /\ \A i \in OldImages \cup tx[s].before :
            MayBePicked(i) /\ i # tx[s].picked => i \in tx[s].held

ChoiceInv ==
  /\ \A r, s \in Requests : r \in tx[s].before => tx[r].before \subseteq tx[s].before
  /\ ChoiceIsExclusive
  /\ Serial => \A s \in Choosing : tx[s].pc # "done" => ChoiceOK(s)

LEMMA BeforeIsTransitive ==
  ASSUME ChoiceInv, IsStep, NEW r \in Requests, NEW s \in Requests, r \in tx'[s].before
  PROVE  tx'[r].before \subseteq tx'[s].before
<1>1. /\ tx[s].before \subseteq Finished /\ tx[r].before \subseteq Finished
      /\ tx[r].op = "none" <=> tx[r].pc = "idle"
      /\ tx[s].op = "none" <=> tx[s].pc = "idle"
  BY DEF IsStep, TypeInv, TxOK
<1>2. tx'[s].before \in {tx[s].before, Finished} /\ r \in Finished
  BY <1>1, RequestsKept
<1>3. tx'[r].before = tx[r].before
  BY <1>2, RequestsKept DEF Finished
<1>4. r \in tx[s].before => tx[r].before \subseteq tx[s].before
  BY DEF ChoiceInv
<1>5. CASE tx'[s].before = tx[s].before
  BY <1>3, <1>4, <1>5
<1>6. CASE tx'[s].before = Finished
  BY <1>1, <1>3, <1>6
<1> QED BY <1>2, <1>5, <1>6

LEMMA SerialWas ==
  ASSUME IsStep, Serial'
  PROVE  Serial
<1>1. user.active
  BY InactiveKept DEF Serial
<1>2. ASSUME NEW r \in Choosing, NEW s \in Choosing, Overlap(r, s) PROVE FALSE
  <2>1. r \in Choosing' /\ s \in Choosing'
    BY ChoosingKept
  <2>2. Overlap(r, s)'
    BY <1>2, OverlapKept DEF Choosing
  <2> QED BY <2>1, <2>2 DEF Serial
<1> QED BY <1>1, <1>2 DEF Serial

\* Among serial choices only one is under way.
LEMMA OneChoosing ==
  ASSUME TypeInv, Serial, NEW r \in Choosing, NEW s \in Choosing,
         tx[r].pc # "done", tx[s].pc # "done"
  PROVE  r = s
BY UnderWayOverlap DEF Serial, Choosing

\* A step that commits no choice and no withdrawal leaves the picture, the choices
\* that were made and the rows as they are; there may be a new row.
LEMMA CalmSteps ==
  ASSUME IsStep, user'.active, \A r \in Choosing : ~Commits(r)
  PROVE  /\ user'.picture = user.picture
         /\ Chosen' = Chosen
         /\ \A i \in Images : MayBePicked(i) => MayBePicked(i)'
         /\ \A i \in OldImages \cup Finished : MayBePicked(i)' => MayBePicked(i)
<1>1. user'.picture = user.picture
  BY PictureKept, LeaveWrites DEF Leaves, IsStep
<1>2. ASSUME NEW r \in Requests, StepOf(r)
      PROVE  /\ r \in Chosen' => r \in Chosen
             /\ \A i \in Images : MayBePicked(i) => MayBePicked(i)'
             /\ \A i \in OldImages \cup Finished : MayBePicked(i)' => MayBePicked(i)
  <2>0. TxOK(r) /\ OldImages \cup Finished \subseteq Images
    BY DEF IsStep, TypeInv, Images, Finished
  <2>1. CASE Starts(r)
    BY <2>0, <2>1 DEF Starts, Begins, MayBePicked, Chosen, Choosing, Succeeded
  <2>2. CASE Continues(r)
    BY <2>2 DEF Continues, Goes, At, MayBePicked, Chosen, Choosing, Succeeded
  <2>3. CASE Inserts(r)
    <3>1. \A i \in Images \ {r} : image'[i] = image[i]
      BY <2>3 DEF Inserts, Uploaded, IsStep, TypeInv, RowsOK
    <3>2. ~MayBePicked(r) /\ r \notin OldImages \cup Finished
      BY <2>3 DEF Inserts, MayBePicked, Goes, Finished
    <3> QED BY <2>0, <2>3, <3>1, <3>2 DEF Inserts, Goes, MayBePicked, Chosen, Choosing, Succeeded
  <2>4. CASE Commits(r)
    <3>1. tx[r].op = "profile" /\ tx[r].picked = Kept /\ Goes(r)
      BY <2>4 DEF Commits, ProfileCommit, At, Choosing
    <3>2. tx[r].held = {}
      BY <2>0, <3>1 DEF TxOK, At
    <3>3. \A i \in Images : (image'[i].live <=> image[i].live) /\ image'[i].purpose = image[i].purpose
      BY <2>4, <3>2, CommitWrites DEF Commits, IsStep
    <3> QED BY <2>0, <3>1, <3>3 DEF Goes, MayBePicked, Chosen, Choosing
  <2>5. ~Leaves(r)
    BY LeaveWrites DEF Leaves, IsStep
  <2> QED BY <1>2, <2>1, <2>2, <2>3, <2>4, <2>5 DEF StepOf
<1>3. Chosen \subseteq Chosen'
  BY RequestsKept DEF Chosen, Choosing, Succeeded
<1>4. CASE Crash
  <2>1. Chosen' \subseteq Chosen
    BY <1>4 DEF Crash, Goes, Chosen, Choosing, Succeeded
  <2> QED BY <1>1, <1>3, <1>4, <2>1 DEF Crash, MayBePicked
<1>5. ASSUME NEW r \in Requests, StepOf(r) PROVE Chosen' \subseteq Chosen
  <2>1. \A s \in Requests \ {r} : tx'[s] = tx[s]
    BY <1>5 DEF StepOf, Alone
  <2> QED BY <1>2, <1>5, <2>1 DEF Chosen, Choosing, Succeeded
<1> QED BY <1>1, <1>2, <1>3, <1>4, <1>5 DEF IsStep

\* The picture that is committed was pickable all along, and what else was there
\* is demoted with it.
LEMMA ChoiceCommits ==
  ASSUME ChoiceInv, IsStep, Serial', NEW r \in Choosing, Commits(r)
  PROVE  ChoiceIsExclusive'
<1>1. /\ Serial /\ TypeInv /\ TxOK(r) /\ tx[r] \in TxRecord /\ r \in Requests
      /\ tx[r].op = "profile" /\ tx[r].picked # Kept
      /\ tx[r].pc = "demoted" /\ Goes(r) /\ tx'[r].pc = "done" /\ ProfileCommit(r)
  BY SerialWas DEF Choosing, Commits, ProfileCommit, At, IsStep, TypeInv
<1>2. ChoiceOK(r)
  BY <1>1 DEF ChoiceInv
<1>3. user'.picture = tx[r].picked /\ tx[r].picked \in Images \cup {NULL}
  BY <1>1, <1>2, CommitWrites DEF ChoiceOK, NewPicture, TxRecord
<1>4. \A i \in Images :
        /\ image'[i].live <=> image[i].live
        /\ image'[i].purpose = IF i \in tx[r].held THEN "ETC" ELSE image[i].purpose
  BY <1>1, CommitWrites
<1>5. \A i \in Images : MayBePicked(i)' <=> MayBePicked(i) /\ i \notin tx[r].held
  BY <1>4 DEF MayBePicked
<1>6. user'.picture # NULL => MayBePicked(user.picture)'
  BY <1>1, <1>2, <1>3, <1>5 DEF ChoiceOK
<1>7. ASSUME NEW s \in Chosen', s # r
      PROVE  s \in Chosen /\ tx'[s] = tx[s] /\ s \in tx[r].before /\ tx[s].before \subseteq tx[r].before
  <2>1. tx'[s] = tx[s] /\ s \in Requests
    BY <1>1, <1>7 DEF ProfileCommit, Ends, IsStep, TypeInv, Chosen, Choosing
  <2>2. s \in Chosen /\ s \in Choosing
    BY <1>7, <2>1 DEF Chosen, Choosing, Succeeded
  <2>3. r \notin tx[s].before
    BY <1>1, <2>1 DEF TypeInv, TxOK, Finished
  <2>4. s \in tx[r].before
    BY <1>1, <1>7, <2>2, <2>3 DEF Serial, Overlap
  <2> QED BY <1>1, <2>1, <2>2, <2>4 DEF ChoiceInv
<1>8. ASSUME NEW i \in Images, NEW s \in Chosen', MayBePicked(i)', i \in OldImages \cup tx'[s].before
      PROVE  i = user'.picture
  <2>1. i \in OldImages \cup tx[r].before
    BY <1>1, <1>7, <1>8 DEF Goes
  <2> QED BY <1>1, <1>2, <1>3, <1>5, <1>8, <2>1 DEF ChoiceOK
<1>9. ASSUME NEW s \in Chosen'
      PROVE  user'.picture = tx'[s].picked \/ \E s2 \in Chosen' \ {s} : s \in tx'[s2].before
  <2>1. tx'[r].result = "ok"
    BY <1>1 DEF ProfileCommit, Ends, IsStep, TypeInv, TxRecord
  <2>2. r \in Chosen' /\ tx'[r].picked = tx[r].picked /\ tx'[r].before = tx[r].before
    BY <1>1, <2>1 DEF Chosen, Choosing, Succeeded, Goes
  <2> QED BY <1>3, <1>7, <2>2
<1> QED BY <1>6, <1>8, <1>9 DEF ChoiceIsExclusive

\* A choice that is still under way after a step has begun with it, or has what it
\* had, or has just demoted.
LEMMA ChoosingSteps ==
  ASSUME IsStep, NEW s \in Choosing', tx'[s].pc # "done"
  PROVE  \/ tx'[s] = tx[s] /\ s \in Choosing
         \/ /\ user' = user /\ image' = image /\ HasRead(s) /\ tx'[s].pc = "checked"
            /\ tx'[s].picked \in Images => MayBePicked(tx'[s].picked)
         \/ /\ user' = user /\ image' = image /\ s \in Choosing /\ Goes(s) /\ tx[s].pc = "checked"
            /\ tx'[s].had = tx[s].had /\ tx'[s].held = DemotedRows(s)
<1>1. s \in Requests /\ tx'[s].op = "profile" /\ tx'[s].picked # Kept /\ TxOK(s)
  BY DEF Choosing, IsStep, TypeInv
<1>2. CASE Crash
  BY <1>1, <1>2 DEF Crash, Choosing
<1>3. ASSUME NEW r \in Requests, StepOf(r), r # s PROVE tx'[s] = tx[s] /\ s \in Choosing
  BY <1>1, <1>3 DEF StepOf, Alone, Choosing
<1>4. CASE StepOf(s)
  <2>1. CASE Starts(s)
    BY <1>1, <2>1 DEF Starts, Begins
  <2>2. CASE Continues(s)
    BY <1>1, <2>2 DEF Continues, Goes, At, Choosing
  <2> QED BY <1>1, <1>4, <2>1, <2>2 DEF StepOf, Inserts, Commits, Leaves, Goes
<1> QED BY <1>2, <1>3, <1>4 DEF IsStep

LEMMA ChoiceInvStep ==
  ASSUME ChoiceInv, IsStep
  PROVE  ChoiceInv'
<1>1. \A r, s \in Requests : r \in tx'[s].before => tx'[r].before \subseteq tx'[s].before
  BY BeforeIsTransitive
<1>2. CASE ~Serial'
  BY <1>1, <1>2 DEF ChoiceInv, ChoiceIsExclusive, Serial
<1>3. CASE Serial'
  <2>1. Serial /\ user'.active /\ TypeInv
    BY <1>3, SerialWas DEF Serial, IsStep
  <2>2. CASE \A r \in Choosing : ~Commits(r)
    <3>1. /\ user'.picture = user.picture
          /\ Chosen' = Chosen
          /\ \A i \in Images : MayBePicked(i) => MayBePicked(i)'
          /\ \A i \in OldImages \cup Finished : MayBePicked(i)' => MayBePicked(i)
      BY <2>1, <2>2, CalmSteps
    <3>2. user.picture \in Images \cup {NULL}
      BY <2>1 DEF TypeInv, RowsOK, UserRow
    <3>3. \A s \in Chosen : s \in Requests /\ tx'[s] = tx[s] /\ tx[s].before \subseteq Finished
      BY <2>1, RequestsKept DEF Chosen, Choosing, Succeeded, TypeInv, TxOK
    <3>4. /\ user.picture # NULL => MayBePicked(user.picture)
          /\ \A i \in Images, s \in Chosen :
               MayBePicked(i) /\ i \in OldImages \cup tx[s].before => i = user.picture
          /\ \A s \in Chosen :
               user.picture = tx[s].picked \/ \E s2 \in Chosen \ {s} : s \in tx[s2].before
      BY <2>1 DEF ChoiceInv, ChoiceIsExclusive, Serial
    <3>5. user'.picture # NULL => MayBePicked(user.picture)'
      BY <3>1, <3>2, <3>4
    <3>6. \A i \in Images, s \in Chosen' :
            MayBePicked(i)' /\ i \in OldImages \cup tx'[s].before => i = user'.picture
      BY <3>1, <3>3, <3>4
    <3>7. \A s \in Chosen' :
            user'.picture = tx'[s].picked \/ \E s2 \in Chosen' \ {s} : s \in tx'[s2].before
      BY <3>1, <3>3, <3>4
    <3>8. ChoiceIsExclusive'
      BY <3>5, <3>6, <3>7 DEF ChoiceIsExclusive
    <3>9. ASSUME NEW s \in Choosing', tx'[s].pc # "done" PROVE ChoiceOK(s)'
      <4>1. s \in Requests
        BY <3>9 DEF Choosing
      <4>2. CASE tx'[s] = tx[s] /\ s \in Choosing
        <5>1. ChoiceOK(s) /\ tx[s].before \subseteq Finished
          BY <2>1, <3>9, <4>1, <4>2 DEF ChoiceInv, TypeInv, TxOK
        <5> QED BY <3>1, <4>2, <5>1 DEF ChoiceOK
      <4>3. CASE /\ user' = user /\ image' = image /\ HasRead(s) /\ tx'[s].pc = "checked"
                 /\ tx'[s].picked \in Images => MayBePicked(tx'[s].picked)
        BY <4>3 DEF ChoiceOK, HasRead, MayBePicked
      <4>4. CASE /\ user' = user /\ image' = image /\ s \in Choosing /\ Goes(s) /\ tx[s].pc = "checked"
                 /\ tx'[s].had = tx[s].had /\ tx'[s].held = DemotedRows(s)
        <5>1. ChoiceOK(s) /\ tx[s].before \subseteq Requests
          BY <2>1, <4>1, <4>4 DEF ChoiceInv, TypeInv, TxOK, Finished
        <5>2. tx'[s].picked = tx[s].picked /\ tx'[s].before = tx[s].before
          BY <4>4 DEF Goes
        <5> QED BY <4>4, <5>1, <5>2 DEF ChoiceOK, DemotedRows, MayBePicked, Images
      <4> QED BY <3>9, <4>2, <4>3, <4>4, ChoosingSteps
    <3> QED BY <1>1, <3>8, <3>9 DEF ChoiceInv
  <2>3. ASSUME NEW r \in Choosing, Commits(r) PROVE ChoiceInv'
    <3>1. ChoiceIsExclusive'
      BY <1>3, <2>3, ChoiceCommits
    <3>2. ASSUME NEW s \in Choosing', tx'[s].pc # "done" PROVE FALSE
      <4>1. /\ r \in Requests /\ r \in Choosing' /\ tx'[r].pc = "done" /\ tx[r].pc = "demoted"
            /\ tx[r].op = "profile"
        BY <2>3, ChoosingKept DEF Commits, ProfileCommit, At, Choosing
      <4>2. s \in Requests \ {r} /\ tx'[s] = tx[s] /\ s \in Choosing
        BY <2>3, <3>2, <4>1
           DEF Commits, ProfileCommit, Ends, IsStep, TypeInv, Choosing
      <4> QED BY <2>1, <2>3, <3>2, <4>1, <4>2, OneChoosing
    <3> QED BY <1>1, <3>1, <3>2 DEF ChoiceInv
  <2> QED BY <2>2, <2>3
<1> QED BY <1>2, <1>3

LEMMA ChoiceInvHolds == Spec => []ChoiceInv
<1>1. Init => ChoiceInv
  BY DEF Init, ChoiceInv, ChoiceIsExclusive, Chosen, Choosing, Idle
<1>2. ChoiceInv /\ UNCHANGED vars => ChoiceInv'
  BY DEF ChoiceInv, ChoiceIsExclusive, Serial, ChoiceOK, Chosen, Choosing, Overlap, Succeeded,
         MayBePicked, vars
<1>3. TypeInv /\ ChoiceInv /\ [Next]_vars => ChoiceInv'
  BY <1>2, NextMakesStep, ChoiceInvStep
<1> QED BY <1>1, <1>3, TypeInvHolds, PTL DEF Spec

\* The profile shows the last of the choices that did not overlap, a withdrawal
\* leaves no image of before and no picture but one that was chosen meanwhile, and a
\* new nickname is seen as an onboarding, whatever requests run at the same time.
THEOREM LastRequestWins == Spec => []ProfileFollowsTheLastRequest
<1>1. SeenInv /\ WithdrawalInv /\ ChoiceInv => ProfileFollowsTheLastRequest
  BY DEF SeenInv, WithdrawalInv, WithdrawalOK, NoPicture, ChoiceInv, WithdrawalTakesImages,
         ProfileFollowsTheLastRequest, At
<1> QED BY <1>1, SeenInvHolds, WithdrawalInvHolds, ChoiceInvHolds, PTL

=============================================================================
