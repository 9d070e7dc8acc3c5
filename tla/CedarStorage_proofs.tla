------------------------ MODULE CedarStorage_proofs -------------------------
(***************************************************************************)
(* The container storage, for any set of names and however often the files *)
(* change while a call looks at them.                                      *)
(***************************************************************************)
EXTENDS CedarStorage, TLAPS

\* The places are tried in order up to the last one.
LEMMA PlacesInOrder ==
  /\ Places \subseteq 1..3 /\ 1 \in Places
  /\ \A k \in Places : k + 1 \notin Places => \A j \in Places : j <= k
  /\ \A j, k \in Places : j < k + 1 <=> j < k \/ j = k
BY DEF Places, Place

LEMMA PlacesStay == ASSUME UNCHANGED madrigal PROVE Places' = Places
BY DEF Places

LEMMA StorInitIInv == StorInit => StorIInv
<1> SUFFICES ASSUME StorInit PROVE StorIInv
  OBVIOUS
<1>1. Forgotten \in [Place -> [Sym -> SUBSET Kind]]
  BY DEF Forgotten
<1>2. StorTypeOK
  <2>1. 0 \in 0..MaxChanges /\ 1 \in Places
    BY StorageAssumption, PlacesInOrder
  <2>2. madrigal \in BOOLEAN /\ files \in [Place -> [Sym -> Kind]] /\ sym \in Sym
    BY DEF StorInit
  <2>3. nested \subseteq Sym
    BY DEF StorInit
  <2> QED BY <1>1, <2>1, <2>2, <2>3 DEF StorInit, StorTypeOK
<1> QED BY <1>2 DEF StorInit, StorIInv, PresentIsSeen, Tried, SoFar, Current

-----------------------------------------------------------------------------
(* The steps of look_for.                                                  *)

\* A call begins with what the files are now.
LEMMA BeginsSees ==
  ASSUME StorTypeOK, NEW l, Begins(l)
  PROVE  /\ was' \in [Place -> [Sym -> SUBSET Kind]]
         /\ \A k \in Place, s \in Sym : was'[k][s] = {files[k][s]}
BY DEF Begins, StorTypeOK

LEMMA LookForIInv ==
  ASSUME StorIInv, NEW s \in Sym, LookFor(s)
  PROVE  StorIInv'
<1> USE DEF StorIInv, LookFor, looking, listing
<1>1. Places' = Places
  BY PlacesStay
<1>2. /\ was' \in [Place -> [Sym -> SUBSET Kind]]
      /\ \A k \in Place, t \in Sym : was'[k][t] = {files[k][t]}
  BY BeginsSees
<1>3. StorTypeOK'
  <2>1. 0 \in 0..MaxChanges /\ 1 \in Places
    BY StorageAssumption, PlacesInOrder
  <2>2. lines' \subseteq lines /\ failed' \subseteq failed
    OBVIOUS
  <2> QED BY <1>1, <1>2, <2>1, <2>2 DEF StorTypeOK, Begins
<1>4. PresentIsSeen'
  <2> SUFFICES ASSUME NEW k \in Places, NEW t \in Sym
               PROVE  files[k][t] \in was'[k][t] /\ was'[k][t] = {files[k][t]}
    BY <1>1 DEF PresentIsSeen
  <2>1. k \in Place
    BY PlacesInOrder DEF Place
  <2> QED BY <1>2, <2>1
<1>5. Tried'
  BY <1>1, PlacesInOrder DEF Tried, Begins
<1>6. SoFar' /\ Current'
  BY <1>1 DEF SoFar, Current, Begins
<1> QED BY <1>3, <1>4, <1>5, <1>6

LEMMA LookIInv ==
  ASSUME StorIInv, look_for
  PROVE  StorIInv'
<1> USE DEF StorIInv, look_for, listing
<1>1. Places' = Places
  BY PlacesStay
<1>2. CASE /\ pc' = "idle" /\ place' = 1 /\ changes' = 0 /\ was' = Forgotten
           /\ found' \in {0, place}
  <2>1. StorTypeOK'
    BY <1>1, <1>2, PlacesInOrder, StorageAssumption DEF StorTypeOK, Forgotten, Tried
  <2>2. PresentIsSeen' /\ Tried' /\ SoFar'
    BY <1>2 DEF PresentIsSeen, Tried, SoFar
  <2>3. Current'
    BY <1>1, <1>2 DEF Current
  <2> QED BY <2>1, <2>2, <2>3
<1>3. CASE /\ pc' = "look" /\ place' = place + 1 /\ place + 1 \in Places
           /\ ~Accessible(files[place][sym]) /\ UNCHANGED <<found, changes, was>>
  <2>1. StorTypeOK'
    BY <1>1, <1>3, PlacesInOrder DEF StorTypeOK
  <2>2. PresentIsSeen' /\ SoFar' /\ Current'
    BY <1>1, <1>3 DEF PresentIsSeen, SoFar, Current
  <2>3. files[place][sym] \in was[place][sym]
    BY DEF PresentIsSeen, StorTypeOK
  <2>4. Tried'
    BY <1>1, <1>3, <2>3, PlacesInOrder DEF Tried, StorTypeOK
  <2> QED BY <2>1, <2>2, <2>4
<1>4. found = 0
  BY DEF Tried
<1> QED BY <1>2, <1>3, <1>4 DEF Ends, Advances

-----------------------------------------------------------------------------
(* The steps of show_containers.                                           *)

LEMMA ShowIInv ==
  ASSUME StorIInv, ShowContainers
  PROVE  StorIInv'
<1> USE DEF StorIInv, ShowContainers
<1>1. Places' = Places
  BY PlacesStay
<1>2. /\ was' \in [Place -> [Sym -> SUBSET Kind]]
      /\ \A k \in Place, t \in Sym : was'[k][t] = {files[k][t]}
  BY BeginsSees
<1>3. StorTypeOK'
  BY <1>1, <1>2, PlacesInOrder, StorageAssumption DEF StorTypeOK, Begins
<1>4. PresentIsSeen'
  <2> SUFFICES ASSUME NEW k \in Places, NEW t \in Sym
               PROVE  files[k][t] \in was'[k][t] /\ was'[k][t] = {files[k][t]}
    BY <1>1 DEF PresentIsSeen
  <2>1. k \in Place
    BY PlacesInOrder DEF Place
  <2> QED BY <1>2, <2>1
<1>5. SoFar'
  <2>1. pc' = "list" /\ place' = 1 /\ lines' = {} /\ \A k \in Places : ~(k < 1)
    BY PlacesInOrder DEF Begins
  <2> QED BY <1>1, <2>1 DEF SoFar
<1>6. Tried' /\ Current'
  BY DEF Tried, Current, Begins
<1> QED BY <1>3, <1>4, <1>5, <1>6

\* The listing goes on after a place that has been done or has failed.
LEMMA NextPlaceIInv ==
  ASSUME StorIInv, pc \in {"list", "entries"}, NextPlace,
         unread = {}, unread' = {},
         UNCHANGED <<madrigal, nested, files, looking, lines, steady>>,
         failed \subseteq failed', failed' \subseteq failed \cup {place},
         place \in failed' \/ pc = "entries"
  PROVE  StorIInv'
<1> USE DEF StorIInv, looking
<1>1. Places' = Places
  BY PlacesStay
<1>2. \A k \in Places, s \in Sym \ nested :
        /\ <<k, s>> \in lines => was[k][s] # {"none"} /\ was[k][s] # {"dir"}
        /\ k <= place /\ k \notin failed' /\ was[k][s] \subseteq {"file", "locked"} =>
             <<k, s>> \in lines
  <2> SUFFICES ASSUME NEW k \in Places, NEW s \in Sym \ nested
               PROVE  /\ <<k, s>> \in lines => was[k][s] # {"none"} /\ was[k][s] # {"dir"}
                      /\ k <= place /\ k \notin failed' /\ was[k][s] \subseteq {"file", "locked"} =>
                           <<k, s>> \in lines
    OBVIOUS
  <2>1. k <= place => k < place \/ k = place
    BY PlacesInOrder DEF StorTypeOK
  <2> QED BY <2>1 DEF SoFar
<1>3. CASE place + 1 \in Places
  <2>1. pc' = "list" /\ place' = place + 1 /\ UNCHANGED <<changes, was>>
    BY <1>3 DEF NextPlace, Advances
  <2>2. StorTypeOK'
    BY <1>1, <1>3, <2>1 DEF StorTypeOK
  <2>3. SoFar'
    BY <1>1, <1>2, <1>3, <2>1, PlacesInOrder DEF SoFar, StorTypeOK
  <2>4. PresentIsSeen' /\ Tried' /\ Current'
    BY <1>1, <2>1 DEF PresentIsSeen, Tried, Current
  <2> QED BY <2>2, <2>3, <2>4
<1>4. CASE place + 1 \notin Places
  <2>1. pc' = "idle" /\ place' = 1 /\ changes' = 0 /\ was' = Forgotten
    BY <1>4 DEF NextPlace, Ends
  <2>2. StorTypeOK'
    BY <1>1, <2>1, PlacesInOrder, StorageAssumption DEF StorTypeOK, Forgotten
  <2>3. \A k \in Places : k <= place
    BY <1>4, PlacesInOrder DEF StorTypeOK
  <2>4. Current'
    BY <1>1, <1>2, <2>1, <2>3 DEF Current, PresentIsSeen
  <2>5. PresentIsSeen' /\ Tried' /\ SoFar'
    BY <2>1 DEF PresentIsSeen, Tried, SoFar
  <2> QED BY <2>2, <2>4, <2>5
<1> QED BY <1>3, <1>4

LEMMA OpenDirIInv ==
  ASSUME StorIInv, OpenDir
  PROVE  StorIInv'
<1> USE DEF StorIInv, OpenDir, looking
<1>1. CASE /\ pc' = "entries" /\ unread' = {s \in Sym \ nested : files[place][s] # "none"}
           /\ UNCHANGED <<place, failed, changes, was>>
  <2>1. Places' = Places
    BY PlacesStay
  <2>2. StorTypeOK'
    BY <1>1, <2>1 DEF StorTypeOK
  <2>3. PresentIsSeen' /\ Tried' /\ Current'
    BY <1>1, <2>1 DEF PresentIsSeen, Tried, Current
  <2>4. SoFar'
    <3> SUFFICES ASSUME NEW k \in Places, NEW s \in Sym \ nested, k = place
                 PROVE  /\ s \in unread' => was[k][s] # {"none"}
                        /\ was[k][s] \subseteq {"file", "locked"} => s \in unread'
      BY <1>1, <2>1 DEF SoFar
    <3>1. files[k][s] \in was[k][s]
      BY DEF PresentIsSeen
    <3> QED BY <1>1, <3>1
  <2> QED BY <2>2, <2>3, <2>4
<1>2. CASE failed' = failed \cup {place} /\ NextPlace /\ UNCHANGED unread
  <2>1. unread = {}
    BY DEF StorTypeOK
  <2> QED BY <1>2, <2>1, NextPlaceIInv
<1> QED BY <1>1, <1>2

LEMMA ReadEntryIInv ==
  ASSUME StorIInv, NEW s \in Sym, ReadEntry(s)
  PROVE  StorIInv'
<1> USE DEF StorIInv, ReadEntry, looking
<1>1. Places' = Places
  BY PlacesStay
<1>2. PICK yes \in Listed(files[place][s]) :
        lines' = lines \cup IF yes THEN {<<place, s>>} ELSE {}
  OBVIOUS
<1>3. /\ place \in Places /\ s \notin nested /\ files[place][s] \in Kind
      /\ files[place][s] \in was[place][s] /\ was[place][s] # {"none"}
  BY PlacesInOrder DEF StorTypeOK, PresentIsSeen, SoFar, Place
<1>4. /\ yes => files[place][s] # "dir"
      /\ files[place][s] \in {"file", "locked"} => yes
  BY <1>2, <1>3 DEF Listed, Kind
<1>5. StorTypeOK'
  BY <1>1, <1>2, <1>3 DEF StorTypeOK
<1>6. PresentIsSeen' /\ Tried' /\ Current'
  BY <1>1 DEF PresentIsSeen, Tried, Current
<1>7. SoFar'
  <2> SUFFICES ASSUME NEW k \in Places, NEW t \in Sym \ nested
               PROVE  /\ <<k, t>> \in lines' => was[k][t] # {"none"} /\ was[k][t] # {"dir"}
                      /\ k < place /\ k \notin failed /\ was[k][t] \subseteq {"file", "locked"} =>
                           <<k, t>> \in lines'
                      /\ k = place =>
                           /\ t \in unread' => was[k][t] # {"none"}
                           /\ was[k][t] \subseteq {"file", "locked"} => t \in unread' \/ <<k, t>> \in lines'
    BY <1>1 DEF SoFar
  <2>1. CASE k = place /\ t = s
    BY <2>1, <1>2, <1>3, <1>4 DEF SoFar
  <2>2. CASE ~(k = place /\ t = s)
    <3>1. <<k, t>> \in lines' <=> <<k, t>> \in lines
      BY <2>2, <1>2
    <3>2. k = place => (t \in unread' <=> t \in unread)
      BY <2>2
    <3> QED BY <3>1, <3>2 DEF SoFar
  <2> QED BY <2>1, <2>2
<1> QED BY <1>5, <1>6, <1>7

LEMMA CloseDirIInv ==
  ASSUME StorIInv, CloseDir
  PROVE  StorIInv'
BY NextPlaceIInv DEF CloseDir, listing

-----------------------------------------------------------------------------
(* A change of the files outdates listings, and calls have seen more.      *)
LEMMA ChangeIInv ==
  ASSUME StorIInv, NEW k \in Places, NEW s \in Sym, Change(k, s)
  PROVE  StorIInv'
<1> USE DEF StorIInv, Change, looking
<1>1. Places' = Places
  BY PlacesStay
<1>2. PICK kind \in Kind \ {files[k][s]} :
        /\ files' = [files EXCEPT ![k][s] = kind]
        /\ IF pc = "idle"
           THEN UNCHANGED <<changes, was>>
           ELSE /\ changes < MaxChanges
                /\ changes' = changes + 1
                /\ was' = [was EXCEPT ![k][s] = @ \cup {kind}]
        /\ \/ UNCHANGED unread
           \/ /\ pc = "entries" /\ place = k /\ s \notin nested
              /\ \/ files[k][s] = "none" /\ unread' = unread \cup {s}
                 \/ kind = "none" /\ unread' = unread \ {s}
  OBVIOUS
<1>3. k \in Place
  BY PlacesInOrder DEF Place
<1>4. StorTypeOK'
  <2>1. files' \in [Place -> [Sym -> Kind]]
    BY <1>2, <1>3 DEF StorTypeOK
  <2>2. was' \in [Place -> [Sym -> SUBSET Kind]]
    <3>1. CASE pc = "idle"
      BY <1>2, <3>1 DEF StorTypeOK
    <3>2. CASE pc # "idle"
      <4>1. was' = [was EXCEPT ![k][s] = @ \cup {kind}]
        BY <1>2, <3>2
      <4>2. was[k][s] \cup {kind} \in SUBSET Kind
        BY <1>3 DEF StorTypeOK
      <4> QED BY <1>3, <4>1, <4>2 DEF StorTypeOK
    <3> QED BY <3>1, <3>2
  <2>3. changes' \in 0..MaxChanges
    BY <1>2, StorageAssumption DEF StorTypeOK
  <2>4. unread' \subseteq Sym \ nested /\ (pc # "entries" => unread' = {})
    BY <1>2 DEF StorTypeOK
  <2> QED BY <1>1, <2>1, <2>2, <2>3, <2>4 DEF StorTypeOK
<1>5. \A j \in Places, t \in Sym : pc # "idle" =>
        /\ files'[j][t] = (IF j = k /\ t = s THEN kind ELSE files[j][t])
        /\ was'[j][t] = was[j][t] \cup (IF j = k /\ t = s THEN {kind} ELSE {})
  BY <1>2, <1>3, PlacesInOrder DEF StorTypeOK, Place
<1>6. PresentIsSeen'
  BY <1>1, <1>5 DEF PresentIsSeen
<1>7. Tried'
  BY <1>1, <1>5 DEF Tried, StorTypeOK
<1>8. Current'
  BY DEF Current
<1>9. SoFar'
  <2> SUFFICES ASSUME pc \in {"list", "entries"}, NEW j \in Places, NEW t \in Sym \ nested
               PROVE  /\ <<j, t>> \in lines => was'[j][t] # {"none"} /\ was'[j][t] # {"dir"}
                      /\ j < place /\ j \notin failed /\ was'[j][t] \subseteq {"file", "locked"} =>
                           <<j, t>> \in lines
                      /\ j = place /\ pc = "entries" =>
                           /\ t \in unread' => was'[j][t] # {"none"}
                           /\ was'[j][t] \subseteq {"file", "locked"} => t \in unread' \/ <<j, t>> \in lines
    BY <1>1 DEF SoFar
  <2>1. was[j][t] \subseteq was'[j][t] /\ files[j][t] \in was[j][t]
    BY <1>5 DEF PresentIsSeen
  <2>2. <<j, t>> \in lines => was'[j][t] # {"none"} /\ was'[j][t] # {"dir"}
    BY <2>1 DEF SoFar
  <2>3. j < place /\ j \notin failed /\ was'[j][t] \subseteq {"file", "locked"} => <<j, t>> \in lines
    BY <2>1 DEF SoFar
  <2>4. ASSUME j = place, pc = "entries", t \in unread'
        PROVE  was'[j][t] # {"none"}
    <3>1. CASE t \in unread
      <4>1. was[j][t] # {"none"}
        BY <2>4, <3>1 DEF SoFar
      <4> QED BY <2>1, <4>1
    <3>2. CASE t \notin unread
      <4>1. j = k /\ t = s /\ kind # "none"
        BY <2>4, <3>2, <1>2
      <4> QED BY <2>4, <4>1, <1>5
    <3> QED BY <3>1, <3>2
  <2>5. ASSUME j = place, pc = "entries", was'[j][t] \subseteq {"file", "locked"}
        PROVE  t \in unread' \/ <<j, t>> \in lines
    BY <2>1, <2>5, <1>2, <1>5 DEF SoFar
  <2> QED BY <2>2, <2>3, <2>4, <2>5
<1> QED BY <1>4, <1>6, <1>7, <1>8, <1>9

LEMMA StorNextIInv == StorIInv /\ [StorNext]_storVars => StorIInv'
<1> SUFFICES ASSUME StorIInv, [StorNext]_storVars PROVE StorIInv'
  OBVIOUS
<1>1. CASE StorNext
  BY <1>1, LookForIInv, LookIInv, ShowIInv, OpenDirIInv, ReadEntryIInv, CloseDirIInv, ChangeIInv
     DEF StorNext
<1>2. CASE UNCHANGED storVars
  <2>1. Places' = Places
    BY <1>2, PlacesStay DEF storVars
  <2> QED BY <1>2, <2>1
          DEF storVars, looking, listing, StorIInv, StorTypeOK, PresentIsSeen, Tried, SoFar, Current
<1> QED BY <1>1, <1>2

LEMMA StorInvariance == StorSpec => []StorIInv
BY StorInitIInv, StorNextIInv, PTL DEF StorSpec

-----------------------------------------------------------------------------
(* No call leaves the configured places, whatever changes meanwhile.       *)
THEOREM StorTypeCorrect == StorSpec => []StorTypeOK
<1>1. StorIInv => StorTypeOK
  BY DEF StorIInv
<1> QED BY <1>1, StorInvariance, PTL

\* Only look_for's own step ends it.
LEMMA LookedByAccess ==
  ASSUME StorIInv, [StorNext]_storVars, Looked
  PROVE  /\ look_for /\ Places' = Places
         /\ \/ Accessible(files[place][sym]) /\ found' = place
            \/ /\ ~Accessible(files[place][sym]) /\ found' = 0
               /\ \A k \in Places : k <= place
<1>1. look_for
  BY DEF Looked, StorNext, storVars, LookFor, ShowContainers, Begins, OpenDir, ReadEntry, CloseDir, Change
<1>2. Places' = Places
  BY <1>1, PlacesStay DEF look_for
<1>3. found = 0 /\ place \in Places
  BY DEF Looked, StorIInv, StorTypeOK, Tried
<1>4. Advances("look") => pc' # "idle"
  BY DEF Advances
<1> QED BY <1>1, <1>2, <1>3, <1>4, PlacesInOrder DEF look_for, Looked

(* look_for's answer is justified by what was there during the call.       *)
THEOREM LookupsAreJustified == StorSpec => LookIsJustified
<1> DEFINE Step ==
      Looked =>
        /\ found' # 0 => \E kind \in was[found'][sym] : Accessible(kind)
        /\ \A k \in Places :
             found' = 0 \/ k < found' => \E kind \in was[k][sym] : ~Accessible(kind)
<1>1. StorIInv /\ [StorNext]_storVars => Step
  <2> SUFFICES ASSUME StorIInv, [StorNext]_storVars, Looked PROVE Step
    OBVIOUS
  <2>1. /\ place \in Places /\ sym \in Sym
        /\ files[place][sym] \in was[place][sym]
        /\ \A k \in Places : k < place => \E kind \in was[k][sym] : ~Accessible(kind)
    BY DEF StorIInv, StorTypeOK, PresentIsSeen, Tried, Looked
  <2> QED BY <2>1, LookedByAccess, PlacesInOrder
<1>2. StorIInv /\ [StorNext]_storVars => [Step]_storVars
  BY <1>1
<1> QED BY <1>2, StorInvariance, PTL DEF StorSpec, LookIsJustified

(* A listing is justified by what was there during the call.               *)
THEOREM ListingsAreJustified == StorSpec => ListIsJustified
<1> DEFINE Step ==
      Shown =>
        \A k \in Places, s \in Sym :
          /\ <<k, s>> \in lines' =>
               s \notin nested /\ was[k][s] # {"none"} /\ was[k][s] # {"dir"}
          /\ s \notin nested /\ k \notin failed' /\ was[k][s] \subseteq {"file", "locked"} =>
               <<k, s>> \in lines'
<1>1. StorIInv /\ [StorNext]_storVars => Step
  <2> SUFFICES ASSUME StorIInv, [StorNext]_storVars, Shown PROVE Step
    OBVIOUS
  <2>1. OpenDir \/ CloseDir
    BY DEF Shown, StorNext, storVars, LookFor, ShowContainers, Begins, look_for, ReadEntry, Change
  <2>2. /\ NextPlace /\ lines' = lines
        /\ \/ pc = "list" /\ failed' = failed \cup {place}
           \/ pc = "entries" /\ unread = {} /\ failed' = failed
    BY <2>1 DEF Shown, OpenDir, CloseDir, listing
  <2>3. \A k \in Places : k < place \/ k = place
    BY <2>2, PlacesInOrder DEF NextPlace, Advances, Shown, StorIInv, StorTypeOK
  <2>4. lines \subseteq Places \X (Sym \ nested)
    BY DEF StorIInv, StorTypeOK
  <2> QED BY <2>2, <2>3, <2>4 DEF StorIInv, SoFar, Shown
<1>2. StorIInv /\ [StorNext]_storVars => [Step]_storVars
  BY <1>1
<1> QED BY <1>2, StorInvariance, PTL DEF StorSpec, ListIsJustified

(* As long as no file changes, the first readable file listed is served,   *)
(* and what is served unlisted is a directory, is in a place that could    *)
(* not be opened, or has a name with a '/'.                                *)
THEOREM ListingsPredictLookups == StorSpec => ListingPredicts
<1> DEFINE Step ==
      Looked /\ steady =>
        /\ found' # 0 /\ files[found'][sym] = "file" =>
             found' \in failed \/ sym \in nested \/ <<found', sym>> \in lines
        /\ \A k \in Places :
             <<k, sym>> \in lines /\ files[k][sym] = "file" => found' \in 1..k
<1>1. StorIInv /\ [StorNext]_storVars => Step
  <2> SUFFICES ASSUME StorIInv, [StorNext]_storVars, Looked, steady PROVE Step
    OBVIOUS
  <2>1. /\ place \in Places /\ sym \in Sym
        /\ \A k \in Places : was[k][sym] = {files[k][sym]}
        /\ \A k \in Places : k < place => \E kind \in was[k][sym] : ~Accessible(kind)
        /\ \A k \in Places : files[k][sym] = "file" =>
             k \in failed \/ sym \in nested \/ <<k, sym>> \in lines
    BY DEF StorIInv, StorTypeOK, PresentIsSeen, Tried, Current, Looked
  <2>2. \A k \in Places : files[k][sym] = "file" => ~(k < place)
    BY <2>1 DEF Accessible
  <2>3. CASE found' = place
    BY <2>1, <2>2, <2>3, PlacesInOrder
  <2>4. CASE found' = 0 /\ ~Accessible(files[place][sym]) /\ \A k \in Places : k <= place
    BY <2>1, <2>2, <2>4, PlacesInOrder DEF Accessible
  <2> QED BY <2>3, <2>4, LookedByAccess
<1>2. StorIInv /\ [StorNext]_storVars => [Step]_storVars
  BY <1>1
<1> QED BY <1>2, StorInvariance, PTL DEF StorSpec, ListingPredicts

=============================================================================
