---------------------------- MODULE CedarStorage -----------------------------
(***************************************************************************)
(* The container storage (ContainerStorageCedar.cc, CedarFSDir.cc): a      *)
(* symbolic name is a file at the first of up to three places that has a   *)
(* readable one, and the containers are listed place by place.  Files come *)
(* and go while the directories are looked at.                             *)
(*                                                                         *)
(* One process makes one call after the other; it keeps nothing between    *)
(* two calls.  isData is look_for; adding and deleting always throw.       *)
(***************************************************************************)
EXTENDS Naturals

CONSTANTS
  Sym,        \* symbolic names
  MaxChanges  \* bound on the changes to the files during one call

ASSUME StorageAssumption == MaxChanges \in Nat

\* The places, in the order in which they are tried: <name>.cbf in
\* Cedar.BaseDir, <name>.001 and <name>.cbf in Madrigal.BaseDir.
Place == 1..3

\* What a place has for a name: no entry, a file that can be read, one that
\* cannot, a directory, or an entry that stat() fails on.
Kind == {"none", "file", "locked", "dir", "broken"}

VARIABLES
  madrigal,  \* Madrigal.BaseDir is set
  nested,    \* the names with a '/', which never change: their file is in a
             \* sub-directory of a place, no entry of its directory
  files,     \* files[k][s]: what place k has for s
  pc,        \* "idle", "look", "list" or "entries"
  place,     \* the place that the call has come to
  sym,       \* the name that look_for was last asked for
  found,     \* where it found it, 0 if nowhere or if no look_for came last
  unread,    \* the names that readdir is yet to return
  lines,     \* the containers of the last listing: place and name; nothing
             \* once a file has changed and the next call begins
  failed,    \* the places whose directory it could not open
  changes,   \* how often the files have changed since the call began (a bound)
  was,       \* was[k][s]: all that place k had for s since the call under
             \* way began (an observer)
  steady     \* no file has changed since the last listing began (an observer)

looking == <<sym, found>>
listing == <<unread, lines, failed>>
storVars == <<madrigal, nested, files, pc, place, looking, listing, changes, was, steady>>

Places == IF madrigal THEN Place ELSE {1}

Forgotten == [k \in Place |-> [s \in Sym |-> {}]]

StorInit ==
  /\ madrigal \in BOOLEAN
  /\ nested \in SUBSET Sym
  /\ files \in {f \in [Place -> [Sym -> Kind]] :
                  \A k \in Place \ Places, s \in Sym : f[k][s] = "none"}
  /\ pc = "idle"
  /\ place = 1
  /\ sym \in Sym
  /\ found = 0
  /\ unread = {}
  /\ lines = {}
  /\ failed = {}
  /\ changes = 0
  /\ was = Forgotten
  /\ steady = FALSE

-----------------------------------------------------------------------------
Begins(l) ==
  /\ pc = "idle"
  /\ pc' = l
  /\ place' = 1
  /\ changes' = 0
  /\ was' = [k \in Place |-> [s \in Sym |-> {files[k][s]}]]

Ends ==
  /\ pc' = "idle"
  /\ changes' = 0
  /\ was' = Forgotten
  /\ place' = 1

Advances(l) ==
  /\ pc' = l
  /\ place' = place + 1
  /\ UNCHANGED <<changes, was>>

LookFor(s) ==
  /\ Begins("look")
  /\ sym' = s
  /\ found' = 0
  /\ IF steady THEN UNCHANGED <<lines, failed>> ELSE lines' = {} /\ failed' = {}
  /\ UNCHANGED <<madrigal, nested, files, unread, steady>>

\* access(R_OK) does not mind a directory.
Accessible(kind) == kind \in {"file", "dir"}

\* A slip: the places are tried in another order.
TriesMadrigalFirst ==
  /\ pc = "look"
  /\ LET k == IF madrigal THEN 4 - place ELSE place IN
       \/ Accessible(files[k][sym]) /\ found' = k /\ Ends
       \/ /\ ~Accessible(files[k][sym])
          /\ IF place + 1 \in Places THEN Advances("look") ELSE Ends
          /\ UNCHANGED found
  /\ UNCHANGED <<madrigal, nested, files, sym, listing, steady>>

\* The next access(): the file is there, or the next place is tried.
look_for ==
  /\ pc = "look"
  /\ \/ Accessible(files[place][sym]) /\ found' = place /\ Ends
     \/ /\ ~Accessible(files[place][sym])
        /\ IF place + 1 \in Places THEN Advances("look") ELSE Ends
        /\ UNCHANGED found
  /\ UNCHANGED <<madrigal, nested, files, sym, listing, steady>>

-----------------------------------------------------------------------------
ShowContainers ==
  /\ Begins("list")
  /\ lines' = {}
  /\ failed' = {}
  /\ steady' = TRUE
  /\ found' = 0
  /\ UNCHANGED <<madrigal, nested, files, sym, unread>>

\* A slip: Madrigal's directory is listed whether it is configured or not.
NextOfThree == IF place + 1 \in Place THEN Advances("list") ELSE Ends

NextPlace == IF place + 1 \in Places THEN Advances("list") ELSE Ends

\* loadDir reads the one directory and descends into no other.  It throws if
\* it cannot open the directory: the listing goes on.
OpenDir ==
  /\ pc = "list"
  /\ \/ /\ pc' = "entries"
        /\ unread' = {s \in Sym \ nested : files[place][s] # "none"}
        /\ UNCHANGED <<place, failed, changes, was>>
     \/ /\ failed' = failed \cup {place}
        /\ NextPlace
        /\ UNCHANGED unread
  /\ UNCHANGED <<madrigal, nested, files, looking, lines, steady>>

\* A slip: what is not a plain file that can be read is left out.
ListsReadable(kind) == IF kind = "file" THEN {TRUE} ELSE {FALSE}

\* Whether an entry is listed: all but directories are.  If stat() fails the
\* mode it did not set decides, which may be anything.
Listed(kind) ==
  CASE kind = "dir" -> {FALSE}
    [] kind \in {"file", "locked"} -> {TRUE}
    [] kind \in {"none", "broken"} -> BOOLEAN

ReadEntry(s) ==
  /\ pc = "entries"
  /\ s \in unread
  /\ unread' = unread \ {s}
  /\ \E yes \in Listed(files[place][s]) :
       lines' = lines \cup IF yes THEN {<<place, s>>} ELSE {}
  /\ UNCHANGED <<madrigal, nested, files, pc, place, looking, failed, changes, was, steady>>

\* A slip: only the first of Madrigal's two kinds of names is listed.
ClosesEarly ==
  /\ pc = "entries"
  /\ unread = {}
  /\ IF place + 1 \in Places \ {3} THEN Advances("list") ELSE Ends
  /\ UNCHANGED <<madrigal, nested, files, looking, listing, steady>>

CloseDir ==
  /\ pc = "entries"
  /\ unread = {}
  /\ NextPlace
  /\ UNCHANGED <<madrigal, nested, files, looking, listing, steady>>

-----------------------------------------------------------------------------
(* The environment: the entry for s at place k becomes another one.  It is *)
(* not specified whether readdir returns an entry that comes or goes while *)
(* the directory is open.                                                  *)
Change(k, s) ==
  /\ \E kind \in Kind \ {files[k][s]} :
       /\ files' = [files EXCEPT ![k][s] = kind]
       /\ IF pc = "idle"
          THEN UNCHANGED <<changes, was>>
          ELSE /\ changes < MaxChanges
               /\ changes' = changes + 1
               /\ was' = [was EXCEPT ![k][s] = @ \cup {kind}]
       /\ \/ UNCHANGED unread
          \/ /\ pc = "entries" /\ place = k /\ s \notin nested
             /\ \/ files[k][s] = "none" /\ unread' = unread \cup {s}
                \/ kind = "none" /\ unread' = unread \ {s}
  /\ steady' = FALSE
  /\ UNCHANGED <<madrigal, nested, pc, place, looking, lines, failed>>

StorNext ==
  \/ \E s \in Sym : LookFor(s)
  \/ look_for
  \/ ShowContainers
  \/ OpenDir
  \/ \E s \in Sym : ReadEntry(s)
  \/ CloseDir
  \/ \E k \in Places, s \in Sym : Change(k, s)

StorSpec == StorInit /\ [][StorNext]_storVars

-----------------------------------------------------------------------------
(* Type correctness; no call leaves the configured places, and only an     *)
(* open directory has names to return, which are those of its own entries. *)
StorTypeOK ==
  /\ madrigal \in BOOLEAN
  /\ nested \subseteq Sym
  /\ files \in [Place -> [Sym -> Kind]]
  /\ pc \in {"idle", "look", "list", "entries"}
  /\ place \in Places
  /\ sym \in Sym
  /\ found \in Places \cup {0}
  /\ unread \subseteq Sym \ nested
  /\ lines \subseteq Places \X (Sym \ nested)
  /\ failed \subseteq Places
  /\ changes \in 0..MaxChanges
  /\ was \in [Place -> [Sym -> SUBSET Kind]]
  /\ steady \in BOOLEAN
  /\ pc # "entries" => unread = {}

Looked == pc = "look" /\ pc' = "idle"
Shown == pc \in {"list", "entries"} /\ pc' = "idle"

(* Whatever changes while look_for tries one place after the other, the    *)
(* file it answers with could be read at some moment of the call, and none *)
(* at an earlier place could be read throughout; if it answers with none,  *)
(* no place had a readable file throughout.                                *)
LookIsJustified ==
  [][Looked =>
       /\ found' # 0 => \E kind \in was[found'][sym] : Accessible(kind)
       /\ \A k \in Places :
            found' = 0 \/ k < found' => \E kind \in was[k][sym] : ~Accessible(kind)]_storVars

(* Whatever changes while the directories are read, each line was an entry *)
(* of its directory itself at some moment of the call; and each directory  *)
(* that could be opened gives a line for every file that was there         *)
(* throughout, and none for a directory that was, nor for what is in it.   *)
ListIsJustified ==
  [][Shown =>
       \A k \in Places, s \in Sym :
         /\ <<k, s>> \in lines' =>
              s \notin nested /\ was[k][s] # {"none"} /\ was[k][s] # {"dir"}
         /\ s \notin nested /\ k \notin failed' /\ was[k][s] \subseteq {"file", "locked"} =>
              <<k, s>> \in lines']_storVars

(* What was listed is what is served: as long as no file changes, look_for *)
(* answers with the first readable file that the listing has for the name, *)
(* although a name may be listed three times.  It answers with something   *)
(* not listed only for a directory, in a place that could not be opened,   *)
(* or for a name with a '/': the file of a sub-directory is served and     *)
(* never listed.                                                           *)
ListingPredicts ==
  [][Looked /\ steady =>
       /\ found' # 0 /\ files[found'][sym] = "file" =>
            found' \in failed \/ sym \in nested \/ <<found', sym>> \in lines
       /\ \A k \in Places :
            <<k, sym>> \in lines /\ files[k][sym] = "file" => found' \in 1..k]_storVars

\* What an observed call rests on: the present is part of what was, and all
\* of it if nothing has changed since the listing.
PresentIsSeen ==
  pc # "idle" =>
    \A k \in Places, s \in Sym :
      /\ files[k][s] \in was[k][s]
      /\ steady => was[k][s] = {files[k][s]}

\* What look_for knows of the places before the one it has come to.
Tried ==
  pc = "look" =>
    /\ found = 0
    /\ \A k \in Places : k < place => \E kind \in was[k][sym] : ~Accessible(kind)

\* What a listing has of the places before this one, and of this one.
SoFar ==
  pc \in {"list", "entries"} =>
    \A k \in Places, s \in Sym \ nested :
      /\ <<k, s>> \in lines => was[k][s] # {"none"} /\ was[k][s] # {"dir"}
      /\ k < place /\ k \notin failed /\ was[k][s] \subseteq {"file", "locked"} =>
           <<k, s>> \in lines
      /\ k = place /\ pc = "entries" =>
           /\ s \in unread => was[k][s] # {"none"}
           /\ was[k][s] \subseteq {"file", "locked"} => s \in unread \/ <<k, s>> \in lines

\* What a finished listing says while nothing changes.
Current ==
  steady /\ pc \in {"idle", "look"} =>
    \A k \in Places, s \in Sym \ nested :
      files[k][s] = "file" => k \in failed \/ <<k, s>> \in lines

(* The inductive invariant.                                                *)
StorIInv == StorTypeOK /\ PresentIsSeen /\ Tried /\ SoFar /\ Current

=============================================================================
