------------------------------ MODULE Avatars ------------------------------
(***************************************************************************)
(* The pictures of the members: a URL in the member's row, and a file on   *)
(* the server's disk (members/service.py and storage/local.py).  The new   *)
(* file is written and the old one deleted while the request runs; the URL *)
(* is committed afterwards.                                                *)
(*                                                                         *)
(* A form brings a new picture, or a URL that is stored as it is: the one  *)
(* the row has, one of another member or of a file of another part, or one *)
(* that names no file at all.  Which row saved a file is written nowhere,  *)
(* so that replacing a picture deletes it for all.                         *)
(***************************************************************************)
EXTENDS Requests

CONSTANTS
    Pictured,  \* the members who have pictures
    File,      \* files by their random names, never given again; bounds how many are saved
    Attached   \* those of other parts, on disk from the start: attachments, backdrops

ASSUME FilesAssumption == Attached \subseteq File /\ Null \notin File

VARIABLES
    avatar,    \* the file that avatar_url names, or Null, of every member
    shown,     \* the files whose URL has been in a row
    pictures,  \* the files on disk
    upload,    \* what each open request is about to commit
    lent,      \* the files whose URL a form has brought to a row, see below
    torn       \* those deleted by a request that then failed, or by their own part

avatarVars == <<avatar, shown, pictures, upload, lent, torn>>

\* A URL is the file it names, or Null: no URL, or one that names no file of
\* the service.
Url == File \cup {Null}

(* LocalFileStorage.save draws a name. *)
Fresh == File \ (pictures \cup shown)

(* Mutant of Replaced: the old file goes even if its URL stays. *)
ReplacedAll(old, changed) == {old} \cap File

(* The file that is deleted when a row with URL old gets another. *)
Replaced(old, changed) == IF changed THEN {old} \cap File ELSE {}

(* Member p's row is to get url, which is saved now if it is a new file.   *)
(* The URL may change where the file does not: the host in it is not       *)
(* looked at (_key_from_url), and of those that name no file there are many. *)
Uploads(w, p, url, changed) ==
    /\ upload[w] = Null
    /\ url # avatar[p] => changed
    /\ pictures' = (pictures \cup ({url} \cap Fresh)) \ Replaced(avatar[p], changed)
    /\ upload' = [upload EXCEPT ![w] =
          [of |-> p, url |-> url, changed |-> changed, gone |-> Replaced(avatar[p], changed)]]
    /\ UNCHANGED <<avatar, shown, lent, torn>>

(* With a new picture (as at signup too), with none, or with any URL: the  *)
(* one the form was loaded with need no longer be the row's, and none is   *)
(* checked.                                                                *)
SetAvatar(w, p) ==
    \E url \in Fresh \cup shown \cup {Null}, changed \in BOOLEAN :
        Uploads(w, p, url, changed)

(* The picture is read from disk, scaled down and saved as a new file. *)
ReprocessAvatar(w, p) ==
    /\ avatar[p] \in pictures
    /\ \E url \in Fresh : Uploads(w, p, url, TRUE)

(* A URL that has been in a row before is lent by this. *)
CommitUpload(w) ==
    /\ upload[w] # Null
    /\ LET r == upload[w]
       IN  IF ~r.changed THEN UNCHANGED <<avatar, shown, lent>>
           ELSE /\ avatar' = [avatar EXCEPT ![r.of] = r.url]
                /\ shown' = shown \cup ({r.url} \cap File)
                /\ lent' = lent \cup ({r.url} \cap shown)
    /\ upload' = [upload EXCEPT ![w] = Null]
    /\ UNCHANGED <<pictures, torn>>

(* The row keeps the URL of the file the request has deleted. *)
DropUpload(w) ==
    /\ upload[w] # Null
    /\ torn' = torn \cup upload[w].gone
    /\ upload' = [upload EXCEPT ![w] = Null]
    /\ UNCHANGED <<avatar, shown, pictures, lent>>

(* An attachment goes with its schedule, a replay with its match, whatever *)
(* pictures are set to its URL.                                            *)
LetGo(f) ==
    /\ f \in Attached \cap pictures
    /\ pictures' = pictures \ {f}
    /\ torn' = torn \cup {f}
    /\ UNCHANGED <<avatar, shown, upload, lent>>

AvatarsInit ==
    /\ avatar = [p \in Pictured |-> Null]
    /\ shown = Attached
    /\ pictures = Attached
    /\ upload = Idle
    /\ lent = {}
    /\ torn = {}

AvatarsNext ==
    \/ \E w \in Worker :
          \/ \E p \in Pictured : SetAvatar(w, p) \/ ReprocessAvatar(w, p)
          \/ CommitUpload(w)
          \/ DropUpload(w)
    \/ \E f \in Attached : LetGo(f)

AvatarsSpec == AvatarsInit /\ [][AvatarsNext]_avatarVars

-----------------------------------------------------------------------------

UploadRow == [of : Pictured, url : Url, changed : BOOLEAN, gone : SUBSET File]

\* NULL is not one of the rows.
ASSUME UploadRowsAssumption == Null \notin UploadRow

(* A URL of a file in a row has been shown. *)
AvatarsTypeOK ==
    /\ avatar \in [Pictured -> Url]
    /\ pictures \subseteq File /\ shown \subseteq File
    /\ lent \subseteq shown /\ torn \subseteq File
    /\ upload \in [Worker -> UploadRow \cup {Null}]
    /\ \A p \in Pictured : avatar[p] \in shown \cup {Null}

(* The file a member's URL names is on disk, while edits of it overlap,    *)
(* forms are sent twice or late, and others replace their pictures; and so *)
(* is a file of another part that has not let it go.  Excepted are: a      *)
(* member whose picture an open request is replacing; a file deleted by    *)
(* such a request that failed to commit; and a file whose URL a form has   *)
(* once brought to a row, for then several rows may name it, and the first *)
(* to let go of it deletes it (update_profile, reprocess_avatar).          *)
PicturesExist ==
    /\ \A p \in Pictured :
          \/ avatar[p] \in pictures \cup lent \cup torn \cup {Null}
          \/ \E w \in Worker :
                upload[w] # Null /\ upload[w].of = p /\ avatar[p] \in upload[w].gone
    /\ Attached \subseteq pictures \cup lent \cup torn

=============================================================================
