---------------------------- MODULE Screens_Proofs ----------------------------
(***************************************************************************)
(* The screens of the mobile app and of the dashboard, one part after the  *)
(* other.  What they show and send is right in spite of answers that come  *)
(* late, get lost or overtake each other, but for the mishaps each         *)
(* property names; and for every set of profiles, calls, rows and texts.   *)
(* Each part has its invariant, a lemma for each of its actions and, at    *)
(* its end, the theorem.  The invariants speak of what is in flight: an    *)
(* answer that has been read is right, or a call is under way that will    *)
(* have it read again.                                                     *)
(***************************************************************************)
EXTENDS ProfileCache, Navigation, ConnectForm, Dashboard, FiniteSetTheorems, TLAPS

-----------------------------------------------------------------------------
(* ProfileCache: what a volunteer sees of his profile.                     *)

Toggles == {i \in InFlight : patch[i].screen \in Toggling}
Saves == {i \in InFlight : patch[i].screen = "edit"}
Done(i) == patch[i].state = "done"

(* The screen in front is mounted; the editor lies on the settings, which  *)
(* stay, and has a profile to edit.  Only a mounted screen hears answers,   *)
(* an editor those of one save.                                            *)
ScreensMounted ==
  /\ top \in mounted \cup {"home"}
  /\ "edit" \in mounted =>
       top = "edit" /\ "settings" \in mounted /\ cache # None /\ form \in Edited
  /\ Saves # {} => "settings" \in mounted
  /\ \A i \in InFlight : patch[i].live => patch[i].screen \in mounted
  /\ \A i, j \in Saves : patch[i].live /\ patch[j].live => i = j

(* A switch that can still be put back showed what the copy says that      *)
(* would be put back with it.                                              *)
CopiesMatch ==
  \A i \in Toggles : patch[i].live => patch[i].was = patch[i].before.isAvailable

(* Two switches are under way together only by the slip.                   *)
OneToggle == "overlap" \notin hitches => \A i, j \in Toggles : i = j

(* Without a screen that stays mounted there is no refetch behind the      *)
(* switch that is under way.                                               *)
NoHiddenFetch ==
  "overlap" \notin hitches /\ mounted \subseteq {"p2p"} /\ InFlight # {} => fresh /\ fetch = << >>

(* What the GET in flight has read, and the cache while it counts as       *)
(* fresh, are what the backend has, or a call is under way that makes the  *)
(* phone fetch again when it ends.                                         *)
WillBeRight ==
  Unhitched({"elsewhere", "lost", "overlap"}) =>
    /\ fetch \notin {<< >>, <<None>>} => fetch[1] = row \/ \E i \in InFlight : Done(i)
    /\ fresh => cache = row \/ \E i \in InFlight : i \in Toggles \/ Done(i)

(* A choice is what the backend has, or on its way there.                  *)
ChoiceArrives ==
  Unhitched({"refused", "lost", "elsewhere", "overlap"}) =>
    /\ \A i \in Toggles : patch[i].to = choice
    /\ row.isAvailable = choice \/ \E i \in Toggles : patch[i].state = "sent"

ProfileInv ==
  /\ ProfileTypeOK /\ ScreensMounted /\ SwitchesAgree /\ CopiesMatch
  /\ fresh \/ InFlight # {} => cache # None
  /\ OneToggle /\ NoHiddenFetch /\ WillBeRight /\ ChoiceArrives

LEMMA ProfileStarts ==
  ASSUME ProfileInit
  PROVE  ProfileInv
<1>1. InFlight = {} /\ Toggles = {} /\ Saves = {}
  BY DEF ProfileInit, InFlight, Toggles, Saves
<1>2. ProfileTypeOK
  BY ProfileConstants DEF ProfileInit, ProfileTypeOK, Profile, Toggling
<1> QED
  BY <1>1, <1>2 DEF ProfileInit, ProfileInv, ScreensMounted, SwitchesAgree, CopiesMatch, OneToggle,
     NoHiddenFetch, WillBeRight, ChoiceArrives, Toggling

(* The two kinds of call. *)
LEMMA CallTyped ==
  ASSUME ProfileTypeOK, NEW i \in InFlight
  PROVE  /\ i \in Slot /\ patch[i] \in StatusCall \cup SaveCall
         /\ patch[i].state \in {"sent", "done", "refused"} /\ patch[i].live \in BOOLEAN
         /\ i \in Toggles => patch[i] \in StatusCall /\ i \notin Saves
         /\ i \in Saves => patch[i] \in SaveCall /\ i \notin Toggles
         /\ i \in Toggles \/ i \in Saves
<1>1. i \in Slot /\ patch[i] \in StatusCall \cup SaveCall
  BY DEF ProfileTypeOK, InFlight
<1>2. CASE patch[i] \in StatusCall
  BY <1>1, <1>2 DEF StatusCall, Toggles, Saves, Toggling
<1>3. CASE patch[i] \in SaveCall
  BY <1>1, <1>3 DEF SaveCall, Toggles, Saves, Toggling
<1> QED
  BY <1>1, <1>2, <1>3

LEMMA FetchTyped ==
  ASSUME ProfileTypeOK
  PROVE  \/ fetch = << >> \/ fetch = <<None>>
         \/ \E p \in Profile : fetch = <<p>> /\ p # None /\ fetch \notin {<< >>, <<None>>}
BY ProfileConstants DEF ProfileTypeOK

LEMMA HitchAdds ==
  ASSUME NEW case \in BOOLEAN, NEW m, Hitch(case, m)
  PROVE  hitches \subseteq hitches' /\ (case => m \in hitches')
BY DEF Hitch

LEMMA HitchTyped ==
  ASSUME hitches \subseteq AllowMishap, NEW case \in BOOLEAN, NEW m, Hitch(case, m)
  PROVE  hitches' \subseteq AllowMishap
BY DEF Hitch

(* A slot is free for the call that is made.                               *)
LEMMA CallAdded ==
  ASSUME ProfileTypeOK, CanCall, NEW c \in StatusCall \cup SaveCall,
         patch' = [patch EXCEPT ![Free] = c]
  PROVE  /\ Free \in Slot \ InFlight /\ InFlight' = InFlight \cup {Free}
         /\ patch'[Free] = c /\ \A j \in InFlight : patch'[j] = patch[j]
         /\ patch' \in [Slot -> StatusCall \cup SaveCall \cup {None}]
<1>1. Free \in Slot /\ patch[Free] = None
  BY DEF CanCall, Free
<1>2. patch \in [Slot -> StatusCall \cup SaveCall \cup {None}]
  BY DEF ProfileTypeOK
<1>3. c # None
  BY ProfileConstants
<1> HIDE DEF Free
<1>4. patch'[Free] = c /\ \A j \in Slot : j # Free => patch'[j] = patch[j]
  BY <1>1, <1>2
<1> QED
  BY <1>1, <1>2, <1>3, <1>4 DEF InFlight

LEMMA CallRemoved ==
  ASSUME ProfileTypeOK, NEW i \in InFlight, patch' = [patch EXCEPT ![i] = None]
  PROVE  /\ InFlight' = InFlight \ {i} /\ \A j \in InFlight' : patch'[j] = patch[j]
         /\ Toggles' = Toggles \ {i} /\ Saves' = Saves \ {i}
         /\ patch' \in [Slot -> StatusCall \cup SaveCall \cup {None}]
<1>1. i \in Slot /\ patch \in [Slot -> StatusCall \cup SaveCall \cup {None}]
  BY DEF ProfileTypeOK, InFlight
<1>2. patch'[i] = None /\ \A j \in Slot : j # i => patch'[j] = patch[j]
  BY <1>1
<1>3. InFlight' = InFlight \ {i} /\ \A j \in InFlight' : patch'[j] = patch[j]
  BY <1>1, <1>2 DEF InFlight
<1> QED
  BY <1>1, <1>3 DEF Toggles, Saves

(* A call that the backend serves or refuses.                              *)
LEMMA CallServed ==
  ASSUME ProfileTypeOK, NEW i \in InFlight, NEW s \in {"done", "refused"},
         patch' = [patch EXCEPT ![i].state = s]
  PROVE  /\ InFlight' = InFlight /\ Toggles' = Toggles /\ Saves' = Saves
         /\ \A j \in InFlight : j # i => patch'[j] = patch[j]
         /\ patch'[i] = [patch[i] EXCEPT !.state = s]
         /\ patch'[i].screen = patch[i].screen /\ patch'[i].live = patch[i].live
         /\ patch'[i].state = s
         /\ i \in Toggles => /\ patch'[i].to = patch[i].to /\ patch'[i].was = patch[i].was
                             /\ patch'[i].before = patch[i].before
         /\ i \in Saves => patch'[i].changed = patch[i].changed
         /\ patch' \in [Slot -> StatusCall \cup SaveCall \cup {None}]
<1>1. i \in Slot /\ patch \in [Slot -> StatusCall \cup SaveCall \cup {None}]
  BY DEF ProfileTypeOK, InFlight
<1>2. patch' = [patch EXCEPT ![i] = [patch[i] EXCEPT !.state = s]]
  BY <1>1
<1>3. patch'[i] = [patch[i] EXCEPT !.state = s] /\ \A j \in Slot : j # i => patch'[j] = patch[j]
  BY <1>1, <1>2
<1>4. \A c \in StatusCall : /\ [c EXCEPT !.state = s] \in StatusCall
                            /\ [c EXCEPT !.state = s].screen = c.screen
                            /\ [c EXCEPT !.state = s].live = c.live
                            /\ [c EXCEPT !.state = s].state = s
                            /\ [c EXCEPT !.state = s].to = c.to
                            /\ [c EXCEPT !.state = s].was = c.was
                            /\ [c EXCEPT !.state = s].before = c.before
  BY DEF StatusCall
<1>5. \A c \in SaveCall : /\ [c EXCEPT !.state = s] \in SaveCall
                          /\ [c EXCEPT !.state = s].screen = c.screen
                          /\ [c EXCEPT !.state = s].live = c.live
                          /\ [c EXCEPT !.state = s].state = s
                          /\ [c EXCEPT !.state = s].changed = c.changed
  BY DEF SaveCall
<1>6. /\ patch[i] \in StatusCall \cup SaveCall
      /\ i \in Toggles => patch[i] \in StatusCall
      /\ i \in Saves => patch[i] \in SaveCall
  BY CallTyped
<1>7. patch'[i] \in StatusCall \cup SaveCall /\ patch'[i] # None
  BY <1>3, <1>4, <1>5, <1>6, ProfileConstants
<1>8. /\ patch'[i].screen = patch[i].screen /\ patch'[i].live = patch[i].live
      /\ patch'[i].state = s
  BY <1>3, <1>4, <1>5, <1>6
<1>9. InFlight' = InFlight
  BY <1>1, <1>3, <1>7 DEF InFlight
<1>10. Toggles' = Toggles /\ Saves' = Saves
  BY <1>1, <1>3, <1>8, <1>9 DEF Toggles, Saves, InFlight
<1>11. /\ i \in Toggles => /\ patch'[i].to = patch[i].to /\ patch'[i].was = patch[i].was
                           /\ patch'[i].before = patch[i].before
       /\ i \in Saves => patch'[i].changed = patch[i].changed
  BY <1>3, <1>4, <1>5, <1>6
<1>12. patch' \in [Slot -> StatusCall \cup SaveCall \cup {None}]
  BY <1>1, <1>2, <1>3, <1>7
<1> QED
  BY <1>3, <1>8, <1>9, <1>10, <1>11, <1>12 DEF InFlight

(* The calls of a screen that is left go on unheard.                       *)
LEMMA CallsUnheard ==
  ASSUME ProfileTypeOK, NEW s \in Screen, patch' = Unmounted(s)
  PROVE  /\ InFlight' = InFlight /\ Toggles' = Toggles /\ Saves' = Saves
         /\ \A j \in InFlight :
              /\ patch'[j].screen = patch[j].screen /\ patch'[j].state = patch[j].state
              /\ patch'[j].live => patch[j].live /\ patch[j].screen # s
              /\ j \in Toggles => /\ patch'[j].to = patch[j].to /\ patch'[j].was = patch[j].was
                                  /\ patch'[j].before = patch[j].before
              /\ j \in Saves => patch'[j].changed = patch[j].changed
         /\ patch' \in [Slot -> StatusCall \cup SaveCall \cup {None}]
<1>1. patch \in [Slot -> StatusCall \cup SaveCall \cup {None}]
  BY DEF ProfileTypeOK
<1>2. \A j \in Slot : patch'[j] =
        IF patch[j] # None /\ patch[j].screen = s THEN [patch[j] EXCEPT !.live = FALSE] ELSE patch[j]
  BY DEF Unmounted
<1>3. \A c \in StatusCall : LET d == [c EXCEPT !.live = FALSE] IN
        /\ d \in StatusCall /\ d.screen = c.screen /\ d.state = c.state /\ d.live = FALSE
        /\ d.to = c.to /\ d.was = c.was /\ d.before = c.before
  BY DEF StatusCall
<1>4. \A c \in SaveCall : LET d == [c EXCEPT !.live = FALSE] IN
        d \in SaveCall /\ d.screen = c.screen /\ d.state = c.state /\ d.live = FALSE /\ d.changed = c.changed
  BY DEF SaveCall
<1>5. ASSUME NEW j \in InFlight
      PROVE  /\ patch'[j] \in StatusCall \cup SaveCall
             /\ patch'[j].screen = patch[j].screen /\ patch'[j].state = patch[j].state
             /\ patch'[j].live => patch[j].live /\ patch[j].screen # s
             /\ j \in Toggles => /\ patch'[j].to = patch[j].to /\ patch'[j].was = patch[j].was
                                 /\ patch'[j].before = patch[j].before
             /\ j \in Saves => patch'[j].changed = patch[j].changed
  <2>1. /\ j \in Slot /\ patch[j] \in StatusCall \cup SaveCall /\ patch[j] # None
        /\ j \in Toggles => patch[j] \in StatusCall
        /\ j \in Saves => patch[j] \in SaveCall
    BY CallTyped DEF InFlight
  <2>2. CASE patch[j].screen = s
    <3>1. patch'[j] = [patch[j] EXCEPT !.live = FALSE]
      BY <1>2, <2>1, <2>2
    <3> QED
      BY <1>3, <1>4, <2>1, <3>1
  <2>3. CASE patch[j].screen # s
    BY <1>2, <2>1, <2>3
  <2> QED
    BY <2>2, <2>3
<1>6. \A j \in Slot : patch[j] = None => patch'[j] = None
  BY <1>2
<1>7. patch' \in [Slot -> StatusCall \cup SaveCall \cup {None}]
  <2>1. patch' = [j \in Slot |-> patch'[j]]
    BY DEF Unmounted
  <2>2. \A j \in Slot : patch'[j] \in StatusCall \cup SaveCall \cup {None}
    BY <1>1, <1>5, <1>6 DEF InFlight
  <2> QED
    BY <2>1, <2>2
<1>8. InFlight' = InFlight
  BY <1>5, <1>6, ProfileConstants DEF InFlight
<1> QED
  BY <1>5, <1>7, <1>8 DEF Toggles, Saves

(* A step that leaves the calls, the row and the cache alone; a GET may    *)
(* start where none is and the cache is stale, read the row, or fail.      *)
LEMMA QuietKeeps ==
  ASSUME ProfileInv, ProfileTypeOK', ScreensMounted', SwitchesAgree',
         UNCHANGED <<row, cache, patch, choice>>,
         hitches \subseteq hitches', mounted \subseteq mounted',
         fresh' = fresh \/ (InFlight = {} /\ fresh' = FALSE),
         \/ fetch' = fetch \/ fetch' = << >>
         \/ fetch = << >> /\ ~fresh /\ fetch' = <<None>>
         \/ fetch = <<None>> /\ fetch' = <<row>>
  PROVE  ProfileInv'
<1>1. /\ InFlight' = InFlight /\ Toggles' = Toggles /\ Saves' = Saves
      /\ \A j \in InFlight : patch'[j] = patch[j]
  BY DEF InFlight, Toggles, Saves
<1>2. CopiesMatch'
  BY <1>1 DEF ProfileInv, CopiesMatch, Toggles
<1>3. (fresh \/ InFlight # {} => cache # None)'
  BY <1>1 DEF ProfileInv
<1>4. OneToggle'
  BY <1>1 DEF ProfileInv, OneToggle
<1>5. NoHiddenFetch'
  BY <1>1 DEF ProfileInv, NoHiddenFetch
<1>6. WillBeRight'
  <2>1. SUFFICES ASSUME Unhitched({"elsewhere", "lost", "overlap"})'
        PROVE  /\ fetch' \notin {<< >>, <<None>>} => fetch'[1] = row' \/ \E j \in InFlight' : Done(j)'
               /\ fresh' => cache' = row' \/ \E j \in InFlight' : j \in Toggles' \/ Done(j)'
    BY DEF WillBeRight
  <2>2. Unhitched({"elsewhere", "lost", "overlap"})
    BY <2>1 DEF Unhitched
  <2> QED
    BY <1>1, <2>2 DEF ProfileInv, WillBeRight, Done
<1>7. ChoiceArrives'
  <2>1. SUFFICES ASSUME Unhitched({"refused", "lost", "elsewhere", "overlap"})'
        PROVE  /\ \A j \in Toggles' : patch'[j].to = choice'
               /\ row'.isAvailable = choice' \/ \E j \in Toggles' : patch'[j].state = "sent"
    BY DEF ChoiceArrives
  <2>2. Unhitched({"refused", "lost", "elsewhere", "overlap"})
    BY <2>1 DEF Unhitched
  <2> QED
    BY <1>1, <2>2 DEF ProfileInv, ChoiceArrives, Toggles
<1> QED
  BY <1>2, <1>3, <1>4, <1>5, <1>6, <1>7 DEF ProfileInv

(* What ScreensMounted and SwitchesAgree say of the calls is so of calls   *)
(* that did not change.                                                    *)
LEMMA SameCalls ==
  ASSUME patch' = patch
  PROVE  /\ InFlight' = InFlight /\ Toggles' = Toggles /\ Saves' = Saves
         /\ \A j \in InFlight : patch'[j] = patch[j]
BY DEF InFlight, Toggles, Saves

LEMMA OpenTabKeeps ==
  ASSUME ProfileInv, NEW s \in Screen \cup {"home"}, OpenTab(s)
  PROVE  ProfileInv'
<1>1. /\ s \in {"connect", "settings", "home"} /\ top \in {"connect", "settings", "home"} /\ top' = s
      /\ UNCHANGED <<row, cache, fresh, form, patch, choice, hitches>>
  BY DEF OpenTab
<1>2. "edit" \notin mounted
  BY <1>1 DEF ProfileInv, ScreensMounted
<1>3. fetch' = fetch \/ (fetch = << >> /\ ~fresh /\ fetch' = <<None>>)
  BY DEF OpenTab, MountQuery
<1>4. mounted \subseteq mounted' /\ mounted' \subseteq mounted \cup {s} /\ s \in mounted' \cup {"home"}
  BY DEF OpenTab
<1>5. cache # None => cache.isAvailable \in BOOLEAN
  BY DEF ProfileInv, ProfileTypeOK, Profile
<1>6. selected \in [Toggling -> BOOLEAN]
  BY DEF ProfileInv, ProfileTypeOK
<1>7. /\ selected' \in [Toggling -> BOOLEAN]
      /\ \A t \in Toggling : t \in mounted => selected'[t] = selected[t]
      /\ \A t \in Toggling : t \notin mounted /\ t \in mounted' /\ cache # None =>
            selected'[t] = cache.isAvailable
  BY <1>1, <1>4, <1>5, <1>6 DEF OpenTab, Toggling
<1>8. SwitchesAgree'
  BY <1>1, <1>7 DEF ProfileInv, SwitchesAgree
<1>9. ProfileTypeOK'
  <2>1. mounted' \subseteq Screen /\ top' \in Screen \cup {"home"}
    BY <1>1 DEF OpenTab, ProfileInv, ProfileTypeOK, Screen
  <2>2. fetch' \in {<< >>} \cup {<<p>> : p \in Profile \cup {None}}
    BY <1>3 DEF ProfileInv, ProfileTypeOK
  <2> QED
    BY <1>1, <1>7, <2>1, <2>2 DEF ProfileInv, ProfileTypeOK
<1>10. ScreensMounted'
  BY <1>1, <1>2, <1>4, SameCalls DEF ProfileInv, ScreensMounted, Saves
<1> QED
  BY <1>1, <1>3, <1>4, <1>8, <1>9, <1>10, QuietKeeps

LEMMA OpenP2pKeeps ==
  ASSUME ProfileInv, OpenP2p
  PROVE  ProfileInv'
<1>1. /\ top = "home" /\ top' = "p2p" /\ mounted' = mounted \cup {"p2p"}
      /\ selected' = [selected EXCEPT !["p2p"] = cache # None /\ cache.isAvailable]
      /\ UNCHANGED <<row, cache, fresh, form, patch, choice, hitches>>
  BY DEF OpenP2p
<1>2. "edit" \notin mounted
  BY <1>1 DEF ProfileInv, ScreensMounted
<1>3. fetch' = fetch \/ (fetch = << >> /\ ~fresh /\ fetch' = <<None>>)
  BY DEF OpenP2p, MountQuery
<1>4. cache # None => cache.isAvailable \in BOOLEAN
  BY DEF ProfileInv, ProfileTypeOK, Profile
<1>5. selected \in [Toggling -> BOOLEAN]
  BY DEF ProfileInv, ProfileTypeOK
<1>6. /\ selected' \in [Toggling -> BOOLEAN]
      /\ \A t \in Toggling : t # "p2p" => selected'[t] = selected[t]
      /\ cache # None => selected'["p2p"] = cache.isAvailable
  BY <1>1, <1>4, <1>5 DEF Toggling
<1>7. SwitchesAgree'
  BY <1>1, <1>6 DEF ProfileInv, SwitchesAgree
<1>8. ProfileTypeOK'
  BY <1>1, <1>3, <1>6, ProfileConstants DEF ProfileInv, ProfileTypeOK, Screen, Toggling
<1>9. ScreensMounted'
  BY <1>1, <1>2, SameCalls DEF ProfileInv, ScreensMounted, Saves
<1> QED
  BY <1>1, <1>3, <1>7, <1>8, <1>9, QuietKeeps

LEMMA OpenEditKeeps ==
  ASSUME ProfileInv, OpenEdit
  PROVE  ProfileInv'
<1>1. /\ top = "settings" /\ cache # None /\ top' = "edit" /\ mounted' = mounted \cup {"edit"}
      /\ form' = cache.edited
      /\ UNCHANGED <<row, cache, fresh, selected, patch, choice>>
  BY DEF OpenEdit
<1>2. hitches \subseteq hitches' /\ hitches' \subseteq AllowMishap
  BY DEF OpenEdit, Hitch, ProfileInv, ProfileTypeOK
<1>3. fetch' = fetch \/ (fetch = << >> /\ ~fresh /\ fetch' = <<None>>)
  BY DEF OpenEdit, MountQuery
<1>4. form' \in Edited
  BY <1>1 DEF ProfileInv, ProfileTypeOK, Profile
<1>5. "settings" \in mounted
  BY <1>1 DEF ProfileInv, ScreensMounted
<1>6. ProfileTypeOK'
  BY <1>1, <1>2, <1>3, <1>4, ProfileConstants DEF ProfileInv, ProfileTypeOK, Screen
<1>7. ScreensMounted'
  BY <1>1, <1>4, <1>5, SameCalls DEF ProfileInv, ScreensMounted, Saves, Saves
<1>8. SwitchesAgree'
  BY <1>1 DEF ProfileInv, SwitchesAgree, Toggling
<1> QED
  BY <1>1, <1>2, <1>3, <1>6, <1>7, <1>8, QuietKeeps

(* The other steps that leave calls, row and cache alone. *)
LEMMA SmallStepsKeep ==
  ASSUME ProfileInv,
         RetryFetch \/ FetchRead \/ FetchFailed \/ GoesStale \/ \E f \in Field, v \in Value : Type(f, v)
  PROVE  ProfileInv'
<1>1. UNCHANGED <<row, cache, mounted, top, selected, patch, choice>>
  BY DEF RetryFetch, FetchRead, FetchFailed, GoesStale, Type
<1>2. hitches \subseteq hitches' /\ hitches' \subseteq AllowMishap
  BY DEF RetryFetch, FetchRead, FetchFailed, GoesStale, Type, Hitch, ProfileInv, ProfileTypeOK
<1>3. \/ fetch' = fetch \/ fetch' = << >>
      \/ fetch = << >> /\ ~fresh /\ fetch' = <<None>>
      \/ fetch = <<None>> /\ fetch' = <<row>>
  BY DEF RetryFetch, FetchRead, FetchFailed, GoesStale, Type, ProfileInv
<1>4. fresh' = fresh \/ (InFlight = {} /\ fresh' = FALSE)
  BY DEF RetryFetch, FetchRead, FetchFailed, GoesStale, Type
<1>5. form' = form \/ (top = "edit" /\ form' \in Edited)
  <2>1. CASE \E f \in Field, v \in Value : Type(f, v)
    <3>1. PICK f \in Field, v \in Value : Type(f, v)
      BY <2>1
    <3>2. top = "edit" /\ form \in Edited /\ form' = [form EXCEPT ![f] = v]
      BY <3>1 DEF Type, ProfileInv, ScreensMounted
    <3> QED
      BY <3>2 DEF Edited
  <2>2. CASE RetryFetch \/ FetchRead \/ FetchFailed \/ GoesStale
    BY <2>2 DEF RetryFetch, FetchRead, FetchFailed, GoesStale
  <2> QED
    BY <2>1, <2>2
<1>6. ProfileTypeOK'
  <2>1. fetch' \in {<< >>} \cup {<<p>> : p \in Profile \cup {None}}
    BY <1>3 DEF ProfileInv, ProfileTypeOK
  <2>2. fresh' \in BOOLEAN /\ form' \in Edited \cup {None}
    BY <1>4, <1>5 DEF ProfileInv, ProfileTypeOK
  <2> QED
    BY <1>1, <1>2, <2>1, <2>2 DEF ProfileInv, ProfileTypeOK
<1>7. ScreensMounted'
  BY <1>1, <1>5, SameCalls DEF ProfileInv, ScreensMounted, Saves, Saves
<1>8. SwitchesAgree'
  BY <1>1 DEF ProfileInv, SwitchesAgree
<1> QED
  BY <1>1, <1>2, <1>3, <1>4, <1>6, <1>7, <1>8, QuietKeeps

LEMMA BackKeeps ==
  ASSUME ProfileInv, Back
  PROVE  ProfileInv'
<1>1. /\ top \in {"p2p", "edit"} /\ mounted' = mounted \ {top} /\ patch' = Unmounted(top)
      /\ top' = IF top = "edit" THEN "settings" ELSE "home"
      /\ form' = IF top = "edit" THEN None ELSE form
      /\ UNCHANGED <<row, cache, fresh, fetch, selected, choice>>
  BY DEF Back, Leave
<1>2. hitches \subseteq hitches' /\ hitches' \subseteq AllowMishap
  BY DEF Back, Hitch, ProfileInv, ProfileTypeOK
<1>3. ProfileTypeOK /\ top \in Screen
  BY <1>1 DEF ProfileInv, Screen, Toggling
<1>4. /\ InFlight' = InFlight /\ Toggles' = Toggles /\ Saves' = Saves
      /\ \A j \in InFlight :
              /\ patch'[j].screen = patch[j].screen /\ patch'[j].state = patch[j].state
              /\ patch'[j].live => patch[j].live /\ patch[j].screen # top
              /\ j \in Toggles => /\ patch'[j].to = patch[j].to /\ patch'[j].was = patch[j].was
                                  /\ patch'[j].before = patch[j].before
      /\ patch' \in [Slot -> StatusCall \cup SaveCall \cup {None}]
  BY <1>1, <1>3, CallsUnheard
<1>5. "settings" \in mounted => "settings" \in mounted'
  BY <1>1
<1>6. ProfileTypeOK'
  BY <1>1, <1>2, <1>4 DEF ProfileInv, ProfileTypeOK, Screen
<1>7. ScreensMounted'
  <2>1. top' \in mounted' \cup {"home"}
    BY <1>1 DEF ProfileInv, ScreensMounted
  <2>2. "edit" \notin mounted'
    BY <1>1 DEF ProfileInv, ScreensMounted
  <2>3. Saves' # {} => "settings" \in mounted'
    BY <1>4, <1>5 DEF ProfileInv, ScreensMounted
  <2>4. \A j \in InFlight' : patch'[j].live => patch'[j].screen \in mounted'
    BY <1>1, <1>4 DEF ProfileInv, ScreensMounted
  <2>5. \A j, k \in Saves' : patch'[j].live /\ patch'[k].live => j = k
    BY <1>4 DEF ProfileInv, ScreensMounted, Saves
  <2> QED
    BY <2>1, <2>2, <2>3, <2>4, <2>5 DEF ScreensMounted
<1>8. SwitchesAgree'
  BY <1>1 DEF ProfileInv, SwitchesAgree
<1>9. CopiesMatch'
  BY <1>4 DEF ProfileInv, CopiesMatch, Toggles
<1>10. (fresh \/ InFlight # {} => cache # None)' /\ OneToggle'
  BY <1>1, <1>2, <1>4 DEF ProfileInv, OneToggle
<1>11. NoHiddenFetch'
  <2>1. mounted' \subseteq {"p2p"} => mounted \subseteq {"p2p"}
    BY <1>1 DEF ProfileInv, ScreensMounted
  <2> QED
    BY <1>1, <1>2, <1>4, <2>1 DEF ProfileInv, NoHiddenFetch
<1>12. WillBeRight'
  <2>1. Unhitched({"elsewhere", "lost", "overlap"})' => Unhitched({"elsewhere", "lost", "overlap"})
    BY <1>2 DEF Unhitched
  <2>2. \A j \in InFlight : Done(j)' = Done(j)
    BY <1>4 DEF Done
  <2> QED
    BY <1>1, <1>4, <2>1, <2>2 DEF ProfileInv, WillBeRight
<1>13. ChoiceArrives'
  <2>1. Unhitched({"refused", "lost", "elsewhere", "overlap"})' =>
          Unhitched({"refused", "lost", "elsewhere", "overlap"})
    BY <1>2 DEF Unhitched
  <2> QED
    BY <1>1, <1>4, <2>1 DEF ProfileInv, ChoiceArrives, Toggles
<1> QED
  BY <1>6, <1>7, <1>8, <1>9, <1>10, <1>11, <1>12, <1>13 DEF ProfileInv

LEMMA ToggleKeeps ==
  ASSUME ProfileInv, NEW s \in Toggling, Toggle(s)
  PROVE  ProfileInv'
<1> DEFINE to == ~selected[s]
           new == [cache EXCEPT !.isAvailable = to]
           call == [screen |-> s, live |-> TRUE, to |-> to, was |-> selected[s], before |-> cache,
                    state |-> "sent"]
           slip == \E i \in InFlight :
                     patch[i].screen \in Toggling /\ ~(patch[i].screen = s /\ patch[i].live)
<1>1. /\ top = s /\ ~Pending(s) /\ cache # None /\ CanCall
      /\ patch' = [patch EXCEPT ![Free] = call]
      /\ cache' = new /\ fresh' = TRUE /\ fetch' = << >> /\ choice' = to
      /\ selected' = [t \in Toggling |->
            IF t = s \/ (t \in mounted /\ cache.isAvailable # to) THEN to ELSE selected[t]]
      /\ Hitch(slip, "overlap") /\ UNCHANGED <<row, mounted, top, form>>
  BY DEF Toggle, Enabled
<1>2. /\ ProfileTypeOK /\ cache \in Profile /\ selected \in [Toggling -> BOOLEAN] /\ to \in BOOLEAN
  BY <1>1 DEF ProfileInv, ProfileTypeOK
<1>3. new \in Profile /\ new.isAvailable = to /\ new # None
  BY <1>2, ProfileConstants DEF Profile
<1>4. call \in StatusCall
  BY <1>2 DEF StatusCall
<1>5. s \in mounted /\ "edit" \notin mounted
  BY <1>1 DEF ProfileInv, ScreensMounted, Toggling
<1>6. /\ hitches \subseteq hitches' /\ hitches' \subseteq AllowMishap
      /\ "overlap" \notin hitches' => ~slip
  <2>1. slip \in BOOLEAN
    OBVIOUS
  <2> QED
    BY <1>1, <1>2, <2>1, HitchAdds, HitchTyped DEF ProfileTypeOK
<1>7. \A t \in Toggling : t \in mounted => selected[t] = cache.isAvailable
  BY <1>1 DEF ProfileInv, SwitchesAgree
<1>8. selected' \in [Toggling -> BOOLEAN] /\ \A t \in Toggling : t \in mounted => selected'[t] = to
  BY <1>1, <1>2, <1>7
<1>9. /\ call.screen = s /\ call.live = TRUE /\ call.to = to /\ call.was = selected[s]
      /\ call.before = cache /\ call.state = "sent"
  OBVIOUS
<1>10. call.was = cache.isAvailable
  BY <1>5, <1>7, <1>9
<1>11. "overlap" \notin hitches' => Toggles = {}
  BY <1>1, <1>6 DEF Pending, Toggles
<1> HIDE DEF call, new, to, slip
<1>12. PICK k \in Slot \ InFlight : /\ InFlight' = InFlight \cup {k} /\ patch'[k] = call
                                    /\ \A j \in InFlight : patch'[j] = patch[j]
                                    /\ patch' \in [Slot -> StatusCall \cup SaveCall \cup {None}]
  BY <1>1, <1>2, <1>4, CallAdded
<1>13. Toggles' = Toggles \cup {k} /\ Saves' = Saves
  BY <1>9, <1>12 DEF Toggles, Saves, Toggling
<1>14. ProfileTypeOK'
  BY <1>1, <1>2, <1>3, <1>6, <1>8, <1>12 DEF ProfileTypeOK
<1>15. ScreensMounted'
  BY <1>1, <1>3, <1>5, <1>9, <1>12, <1>13 DEF ProfileInv, ScreensMounted, Saves
<1>16. SwitchesAgree'
  BY <1>1, <1>3, <1>8 DEF SwitchesAgree
<1>17. CopiesMatch'
  BY <1>9, <1>10, <1>12, <1>13 DEF ProfileInv, CopiesMatch, Toggles
<1>18. (fresh \/ InFlight # {} => cache # None)'
  BY <1>1, <1>3
<1>19. OneToggle'
  BY <1>11, <1>13 DEF OneToggle
<1>20. NoHiddenFetch'
  BY <1>1 DEF NoHiddenFetch
<1>21. WillBeRight'
  BY <1>1, <1>12, <1>13 DEF WillBeRight
<1>22. ChoiceArrives'
  <2>1. Unhitched({"refused", "lost", "elsewhere", "overlap"})' => Toggles' = {k}
    BY <1>11, <1>13 DEF Unhitched
  <2> QED
    BY <1>1, <1>9, <1>12, <2>1 DEF ChoiceArrives
<1> QED
  BY <1>14, <1>15, <1>16, <1>17, <1>18, <1>19, <1>20, <1>21, <1>22 DEF ProfileInv

LEMMA SaveKeeps ==
  ASSUME ProfileInv, Save
  PROVE  ProfileInv'
<1> DEFINE call == [screen |-> "edit", live |-> TRUE, changed |-> [f \in Changed |-> form[f]],
                    state |-> "sent"]
<1>1. /\ top = "edit" /\ ~Pending("edit") /\ CanCall /\ patch' = [patch EXCEPT ![Free] = call]
      /\ UNCHANGED <<row, cache, fresh, fetch, mounted, top, selected, form, choice, hitches>>
  BY DEF Save
<1>2. ProfileTypeOK /\ {"edit", "settings"} \subseteq mounted /\ form \in Edited
  BY <1>1 DEF ProfileInv, ScreensMounted
<1>3. call \in SaveCall
  <2>1. Changed \in SUBSET Field
    BY DEF Changed
  <2>2. [f \in Changed |-> form[f]] \in [Changed -> Value]
    BY <1>2, <2>1 DEF Edited
  <2> HIDE DEF Changed
  <2>3. [f \in Changed |-> form[f]] \in UNION {[F -> Value] : F \in SUBSET Field}
    BY <2>1, <2>2
  <2> QED
    BY <2>3 DEF SaveCall
<1>4. call.screen = "edit" /\ call.live = TRUE /\ call.state = "sent"
  OBVIOUS
<1> HIDE DEF call
<1>5. PICK k \in Slot \ InFlight : /\ InFlight' = InFlight \cup {k} /\ patch'[k] = call
                                   /\ \A j \in InFlight : patch'[j] = patch[j]
                                   /\ patch' \in [Slot -> StatusCall \cup SaveCall \cup {None}]
  BY <1>1, <1>2, <1>3, CallAdded
<1>6. Toggles' = Toggles /\ Saves' = Saves \cup {k}
  BY <1>4, <1>5 DEF Toggles, Saves, Toggling
<1>7. ProfileTypeOK'
  BY <1>1, <1>5 DEF ProfileInv, ProfileTypeOK
<1>8. ScreensMounted'
  BY <1>1, <1>2, <1>4, <1>5, <1>6 DEF ProfileInv, ScreensMounted, Pending, Saves
<1>9. SwitchesAgree'
  BY <1>1 DEF ProfileInv, SwitchesAgree
<1>10. CopiesMatch'
  BY <1>5, <1>6 DEF ProfileInv, CopiesMatch, Toggles
<1>11. (fresh \/ InFlight # {} => cache # None)' /\ OneToggle'
  BY <1>1, <1>2, <1>6 DEF ProfileInv, OneToggle, ScreensMounted
<1>12. NoHiddenFetch'
  BY <1>1, <1>2 DEF NoHiddenFetch
<1>13. WillBeRight'
  BY <1>1, <1>5, <1>6 DEF ProfileInv, WillBeRight, Unhitched, Done
<1>14. ChoiceArrives'
  BY <1>1, <1>5, <1>6 DEF ProfileInv, ChoiceArrives, Unhitched, Toggles
<1> QED
  BY <1>7, <1>8, <1>9, <1>10, <1>11, <1>12, <1>13, <1>14 DEF ProfileInv

LEMMA ServeKeeps ==
  ASSUME ProfileInv, NEW i \in Slot, Serve(i)
  PROVE  ProfileInv'
<1>1. /\ i \in InFlight /\ patch[i].state = "sent" /\ patch' = [patch EXCEPT ![i].state = "done"]
      /\ UNCHANGED <<cache, fresh, fetch, mounted, top, selected, form, choice, hitches>>
  BY DEF Serve, InFlight
<1>2. ProfileTypeOK /\ row \in Profile
  BY DEF ProfileInv, ProfileTypeOK
<1>3. /\ InFlight' = InFlight /\ Toggles' = Toggles /\ Saves' = Saves
      /\ \A j \in InFlight : j # i => patch'[j] = patch[j]
      /\ patch'[i].screen = patch[i].screen /\ patch'[i].live = patch[i].live
      /\ patch'[i].state = "done"
      /\ i \in Toggles => /\ patch'[i].to = patch[i].to /\ patch'[i].was = patch[i].was
                          /\ patch'[i].before = patch[i].before
      /\ patch' \in [Slot -> StatusCall \cup SaveCall \cup {None}]
  BY <1>1, <1>2, CallServed
<1>4. /\ i \in Saves => row'.isAvailable = row.isAvailable
      /\ i \in Toggles => row'.isAvailable = patch[i].to
      /\ row' \in Profile
  <2>1. CASE i \in Saves
    <3>1. patch[i].screen = "edit" /\ patch[i] \in SaveCall
      BY <1>1, <1>2, <2>1, CallTyped DEF Saves
    <3> DEFINE e == [f \in Field |-> IF f \in DOMAIN patch[i].changed THEN patch[i].changed[f] ELSE row.edited[f]]
    <3>2. row' = [row EXCEPT !.edited = e]
      BY <3>1, <1>2 DEF Serve, Profile
    <3>3. e \in Edited
      <4>1. row.edited \in [Field -> Value]
        BY <1>2 DEF Profile, Edited
      <4>2. PICK F \in SUBSET Field : patch[i].changed \in [F -> Value]
        BY <3>1 DEF SaveCall
      <4> QED
        BY <4>1, <4>2 DEF Edited
    <3> HIDE DEF e
    <3>4. i \notin Toggles
      BY <1>1, <1>2, <2>1, CallTyped
    <3> QED
      BY <1>2, <3>2, <3>3, <3>4 DEF Profile
  <2>2. CASE i \in Toggles
    <3>1. patch[i].screen # "edit" /\ patch[i].to \in BOOLEAN /\ i \notin Saves
      BY <1>1, <1>2, <2>2, CallTyped DEF Toggles, Toggling, StatusCall
    <3>2. row' = [row EXCEPT !.isAvailable = patch[i].to]
      BY <3>1 DEF Serve
    <3> QED
      BY <1>2, <3>1, <3>2 DEF Profile
  <2> QED
    BY <1>1, <1>2, <2>1, <2>2, CallTyped
<1>5. ProfileTypeOK'
  BY <1>1, <1>3, <1>4 DEF ProfileInv, ProfileTypeOK
<1>6. ScreensMounted'
  BY <1>1, <1>3 DEF ProfileInv, ScreensMounted, Saves
<1>7. SwitchesAgree'
  BY <1>1 DEF ProfileInv, SwitchesAgree
<1>8. CopiesMatch'
  BY <1>3 DEF ProfileInv, CopiesMatch, Toggles
<1>9. (fresh \/ InFlight # {} => cache # None)' /\ OneToggle' /\ NoHiddenFetch'
  BY <1>1, <1>3 DEF ProfileInv, OneToggle, NoHiddenFetch
<1>10. WillBeRight'
  BY <1>1, <1>3 DEF WillBeRight, Done
<1>11. ChoiceArrives'
  <2>1. SUFFICES ASSUME Unhitched({"refused", "lost", "elsewhere", "overlap"})'
        PROVE  /\ \A j \in Toggles' : patch'[j].to = choice'
               /\ row'.isAvailable = choice' \/ \E j \in Toggles' : patch'[j].state = "sent"
    BY DEF ChoiceArrives
  <2>2. /\ \A j \in Toggles : patch[j].to = choice
        /\ row.isAvailable = choice \/ \E j \in Toggles : patch[j].state = "sent"
    BY <1>1, <2>1 DEF ProfileInv, ChoiceArrives, Unhitched
  <2>3. \A j \in Toggles' : patch'[j].to = choice'
    BY <1>1, <1>3, <2>2 DEF Toggles
  <2>4. i \in Toggles \/ i \in Saves
    BY <1>1, <1>2, CallTyped
  <2>5. CASE i \in Toggles
    BY <1>1, <1>4, <2>2, <2>3, <2>5
  <2>6. CASE i \notin Toggles
    <3>1. \A j \in Toggles : j # i /\ patch'[j] = patch[j]
      BY <1>3, <2>6 DEF Toggles
    <3> QED
      BY <1>1, <1>3, <1>4, <2>2, <2>3, <2>4, <2>6, <3>1
  <2> QED
    BY <2>5, <2>6
<1> QED
  BY <1>5, <1>6, <1>7, <1>8, <1>9, <1>10, <1>11 DEF ProfileInv

LEMMA RefuseKeeps ==
  ASSUME ProfileInv, NEW i \in Slot, Refuse(i)
  PROVE  ProfileInv'
<1>1. /\ i \in InFlight /\ patch[i].state = "sent" /\ patch' = [patch EXCEPT ![i].state = "refused"]
      /\ UNCHANGED <<row, cache, fresh, fetch, mounted, top, selected, form, choice>>
  BY DEF Refuse, InFlight
<1>2. hitches \subseteq hitches' /\ hitches' \subseteq AllowMishap /\ "refused" \in hitches'
  BY DEF Refuse, Hitch, ProfileInv, ProfileTypeOK
<1>3. /\ InFlight' = InFlight /\ Toggles' = Toggles /\ Saves' = Saves
      /\ \A j \in InFlight : j # i => patch'[j] = patch[j]
      /\ patch'[i].screen = patch[i].screen /\ patch'[i].live = patch[i].live
      /\ i \in Toggles => /\ patch'[i].to = patch[i].to /\ patch'[i].was = patch[i].was
                          /\ patch'[i].before = patch[i].before
      /\ patch' \in [Slot -> StatusCall \cup SaveCall \cup {None}]
  BY <1>1, CallServed DEF ProfileInv
<1>4. ProfileTypeOK'
  BY <1>1, <1>2, <1>3 DEF ProfileInv, ProfileTypeOK
<1>5. ScreensMounted'
  BY <1>1, <1>3 DEF ProfileInv, ScreensMounted, Saves
<1>6. SwitchesAgree'
  BY <1>1 DEF ProfileInv, SwitchesAgree
<1>7. CopiesMatch'
  BY <1>3 DEF ProfileInv, CopiesMatch, Toggles
<1>8. (fresh \/ InFlight # {} => cache # None)' /\ OneToggle' /\ NoHiddenFetch'
  BY <1>1, <1>2, <1>3 DEF ProfileInv, OneToggle, NoHiddenFetch
<1>9. WillBeRight'
  <2>1. Unhitched({"elsewhere", "lost", "overlap"})' => Unhitched({"elsewhere", "lost", "overlap"})
    BY <1>2 DEF Unhitched
  <2>2. \A j \in InFlight : Done(j) => Done(j)'
    BY <1>1, <1>3 DEF Done
  <2> QED
    BY <1>1, <1>3, <2>1, <2>2 DEF ProfileInv, WillBeRight
<1>10. ChoiceArrives'
  BY <1>2 DEF ChoiceArrives, Unhitched
<1> QED
  BY <1>4, <1>5, <1>6, <1>7, <1>8, <1>9, <1>10 DEF ProfileInv

(* A switch that is answered, well or with an error, is refetched.         *)
LEMMA ToggleEnds ==
  ASSUME ProfileInv, NEW i \in Toggles, patch' = [patch EXCEPT ![i] = None], Invalidate,
         UNCHANGED <<row, mounted, top, choice>>,
         hitches \subseteq hitches', hitches' \subseteq AllowMishap,
         cache' \in Profile \cup {None}, cache' # None,
         selected' \in [Toggling -> BOOLEAN],
         form' \in Edited \cup {None}, "edit" \in mounted => form' \in Edited,
         SwitchesAgree', Done(i) \/ patch[i].state = "refused" \/ "lost" \in hitches'
  PROVE  ProfileInv'
<1>1. /\ InFlight' = InFlight \ {i} /\ Toggles' = Toggles \ {i} /\ Saves' = Saves \ {i}
      /\ \A j \in InFlight' : patch'[j] = patch[j]
      /\ patch' \in [Slot -> StatusCall \cup SaveCall \cup {None}]
  BY CallRemoved DEF ProfileInv, Toggles
<1>2. fresh' = FALSE /\ fetch' = IF mounted # {} THEN <<None>> ELSE fetch
  BY DEF Invalidate
<1>4. ProfileTypeOK'
  <2>1. fetch' \in {<< >>} \cup {<<p>> : p \in Profile \cup {None}}
    BY <1>2 DEF ProfileInv, ProfileTypeOK
  <2>2. fresh' \in BOOLEAN
    BY <1>2
  <2> QED
    BY <1>1, <2>1, <2>2 DEF ProfileInv, ProfileTypeOK
<1>5. ScreensMounted'
  BY <1>1 DEF ProfileInv, ScreensMounted, Saves
<1>6. CopiesMatch'
  BY <1>1 DEF ProfileInv, CopiesMatch, Toggles
<1>7. (fresh \/ InFlight # {} => cache # None)'
  OBVIOUS
<1>8. OneToggle'
  BY <1>1 DEF ProfileInv, OneToggle
<1>9. NoHiddenFetch'
  <2>1. "overlap" \notin hitches' => Toggles' = {}
    BY <1>1 DEF ProfileInv, OneToggle
  <2>2. mounted' \subseteq {"p2p"} => Saves' = {}
    BY <1>1 DEF ProfileInv, ScreensMounted
  <2>3. \A j \in InFlight' : j \in Toggles' \/ j \in Saves'
    BY <1>1, CallTyped DEF ProfileInv
  <2> QED
    BY <2>1, <2>2, <2>3 DEF NoHiddenFetch
<1>10. WillBeRight'
  <2>1. SUFFICES ASSUME Unhitched({"elsewhere", "lost", "overlap"})'
        PROVE  fetch' \in {<< >>, <<None>>}
    BY <1>2 DEF WillBeRight
  <2>2. CASE mounted = {}
    <3>1. fresh /\ fetch = << >>
      BY <2>1, <2>2 DEF Unhitched, ProfileInv, NoHiddenFetch, Toggles
    <3> QED
      BY <1>2, <2>2, <3>1
  <2> QED
    BY <1>2, <2>2
<1>11. ChoiceArrives'
  <2>1. SUFFICES ASSUME Unhitched({"refused", "lost", "elsewhere", "overlap"})'
        PROVE  /\ \A j \in Toggles' : patch'[j].to = choice'
               /\ row'.isAvailable = choice' \/ \E j \in Toggles' : patch'[j].state = "sent"
    BY DEF ChoiceArrives
  <2>2. /\ \A j \in Toggles : patch[j].to = choice
        /\ row.isAvailable = choice \/ \E j \in Toggles : patch[j].state = "sent"
    BY <2>1 DEF ProfileInv, ChoiceArrives, Unhitched
  <2>3. patch[i].state # "sent"
    BY <2>1 DEF Unhitched, Done
  <2> QED
    BY <1>1, <2>2, <2>3 DEF Toggles
<1> QED
  BY <1>4, <1>5, <1>6, <1>7, <1>8, <1>9, <1>10, <1>11 DEF ProfileInv

LEMMA ToggleAnsweredKeeps ==
  ASSUME ProfileInv, NEW i \in Slot, ToggleAnswered(i)
  PROVE  ProfileInv'
<1>1. /\ i \in Toggles /\ Done(i) /\ patch' = [patch EXCEPT ![i] = None] /\ Invalidate
      /\ UNCHANGED <<row, cache, mounted, top, selected, form, choice, hitches>>
  BY DEF ToggleAnswered, Toggles, InFlight, Done, Settled
<1>2. SwitchesAgree'
  BY <1>1 DEF ProfileInv, SwitchesAgree
<1>3. cache # None
  BY <1>1 DEF ProfileInv, Toggles
<1> QED
  BY <1>1, <1>2, <1>3, ToggleEnds DEF ProfileInv, ProfileTypeOK, ScreensMounted

LEMMA ToggleFailedKeeps ==
  ASSUME ProfileInv, NEW i \in Slot, ToggleFailed(i)
  PROVE  ProfileInv'
<1> DEFINE new == patch[i].before
<1>1. /\ i \in Toggles /\ patch' = [patch EXCEPT ![i] = None] /\ cache' = new /\ Invalidate
      /\ UNCHANGED <<row, mounted, top, choice>>
  BY DEF ToggleFailed, Toggles, InFlight, RolledBack, Settled
<1>2. /\ form' = IF "edit" \notin mounted THEN form
                 ELSE [f \in Field |-> IF cache.edited[f] # new.edited[f] THEN new.edited[f] ELSE form[f]]
      /\ selected' = [s \in Toggling |->
            IF s = patch[i].screen /\ patch[i].live THEN patch[i].was
            ELSE IF s \in mounted /\ cache.isAvailable # new.isAvailable THEN new.isAvailable
            ELSE selected[s]]
  BY DEF ToggleFailed, RolledBack
<1>3. /\ hitches \subseteq hitches' /\ hitches' \subseteq AllowMishap
      /\ patch[i].state = "refused" \/ "lost" \in hitches'
  BY DEF ToggleFailed, Hitch, ProfileInv, ProfileTypeOK
<1>4. patch[i] \in StatusCall
  BY <1>1, CallTyped DEF ProfileInv, Toggles
<1>5. new \in Profile /\ new # None /\ patch[i].was \in BOOLEAN
  BY <1>4, ProfileConstants DEF StatusCall
<1>6. new.isAvailable \in BOOLEAN /\ new.edited \in Edited
  BY <1>5 DEF Profile
<1>7. selected \in [Toggling -> BOOLEAN] /\ (cache # None => cache.isAvailable \in BOOLEAN)
  BY DEF ProfileInv, ProfileTypeOK, Profile
<1> HIDE DEF new
<1>8. selected' \in [Toggling -> BOOLEAN]
  BY <1>2, <1>5, <1>6, <1>7
<1>9. form' \in Edited \cup {None} /\ ("edit" \in mounted => form' \in Edited)
  BY <1>2, <1>6 DEF ProfileInv, ProfileTypeOK, ScreensMounted, Edited
<1>10. cache # None
  BY <1>1 DEF ProfileInv, Toggles
<1>11. SwitchesAgree'
  <2>1. SUFFICES ASSUME NEW s \in Toggling, s \in mounted
        PROVE  selected'[s] = new.isAvailable
    BY <1>1 DEF SwitchesAgree
  <2>2. selected[s] = cache.isAvailable
    BY <1>10, <2>1 DEF ProfileInv, SwitchesAgree
  <2>3. patch[i].live => patch[i].was = new.isAvailable
    BY <1>1 DEF ProfileInv, CopiesMatch, new
  <2>4. CASE s = patch[i].screen /\ patch[i].live
    BY <1>2, <2>3, <2>4
  <2>5. CASE ~(s = patch[i].screen /\ patch[i].live)
    <3>1. selected'[s] = IF s \in mounted /\ cache.isAvailable # new.isAvailable
                         THEN new.isAvailable ELSE selected[s]
      BY <1>2, <2>5
    <3> QED
      BY <2>1, <2>2, <3>1
  <2> QED
    BY <2>4, <2>5
<1> QED
  BY <1>1, <1>3, <1>5, <1>8, <1>9, <1>11, ToggleEnds

LEMMA SaveAnsweredKeeps ==
  ASSUME ProfileInv, NEW i \in Slot, SaveAnswered(i)
  PROVE  ProfileInv'
<1>1. /\ i \in Saves /\ Done(i) /\ patch' = [patch EXCEPT ![i] = None] /\ Invalidate
      /\ IF patch[i].live THEN Leave("edit") ELSE UNCHANGED <<mounted, top, form>>
      /\ UNCHANGED <<row, cache, selected, choice, hitches>>
  BY DEF SaveAnswered, Saves, InFlight, Done
<1>2. /\ InFlight' = InFlight \ {i} /\ Toggles' = Toggles \ {i} /\ Saves' = Saves \ {i}
      /\ \A j \in InFlight' : patch'[j] = patch[j]
      /\ patch' \in [Slot -> StatusCall \cup SaveCall \cup {None}]
  BY <1>1, CallRemoved DEF ProfileInv, Saves
<1>3. /\ "settings" \in mounted /\ "settings" \in mounted' /\ mounted' \subseteq mounted
      /\ mounted \ {"edit"} \subseteq mounted'
  BY <1>1 DEF ProfileInv, ScreensMounted, Leave
<1>4. fresh' = FALSE /\ fetch' = <<None>>
  BY <1>1, <1>3 DEF Invalidate
<1>5. i \notin Toggles
  BY <1>1, CallTyped DEF ProfileInv, Saves
<1>6. ProfileTypeOK'
  <2>1. fetch' \in {<< >>} \cup {<<p>> : p \in Profile \cup {None}} /\ fresh' \in BOOLEAN
    BY <1>4
  <2>2. mounted' \subseteq Screen /\ top' \in Screen \cup {"home"} /\ form' \in Edited \cup {None}
    BY <1>1 DEF ProfileInv, ProfileTypeOK, Leave, Screen
  <2> QED
    BY <1>1, <1>2, <2>1, <2>2 DEF ProfileInv, ProfileTypeOK
<1>7. ScreensMounted'
  <2>1. /\ top' \in mounted' \cup {"home"}
        /\ "edit" \in mounted' =>
             top' = "edit" /\ "settings" \in mounted' /\ cache' # None /\ form' \in Edited
    BY <1>1, <1>3 DEF ProfileInv, ScreensMounted, Leave
  <2>2. ASSUME NEW j \in InFlight', patch'[j].live PROVE patch'[j].screen \in mounted'
    <3>1. j \in InFlight /\ patch'[j] = patch[j] /\ patch[j].screen \in mounted
      BY <1>2, <2>2 DEF ProfileInv, ScreensMounted
    <3>2. CASE patch[i].live
      <4>1. j # i /\ (patch[j].screen = "edit" => j \in Saves)
        BY <1>2, <3>1 DEF Saves
      <4>2. patch[j].screen # "edit"
        BY <1>1, <2>2, <3>1, <3>2, <4>1 DEF ProfileInv, ScreensMounted
      <4> QED
        BY <1>3, <3>1, <4>2
    <3>3. CASE ~patch[i].live
      BY <1>1, <3>1, <3>3
    <3> QED
      BY <3>2, <3>3
  <2>3. \A j, k \in Saves' : patch'[j].live /\ patch'[k].live => j = k
    BY <1>2 DEF ProfileInv, ScreensMounted, Saves
  <2> QED
    BY <1>3, <2>1, <2>2, <2>3 DEF ScreensMounted
<1>8. SwitchesAgree'
  BY <1>1, <1>3 DEF ProfileInv, SwitchesAgree
<1>9. CopiesMatch'
  BY <1>2 DEF ProfileInv, CopiesMatch, Toggles
<1>10. (fresh \/ InFlight # {} => cache # None)' /\ OneToggle'
  BY <1>1, <1>2, <1>4 DEF ProfileInv, OneToggle
<1>11. NoHiddenFetch'
  BY <1>3 DEF NoHiddenFetch
<1>12. WillBeRight'
  BY <1>4 DEF WillBeRight
<1>13. ChoiceArrives'
  BY <1>1, <1>2, <1>5 DEF ProfileInv, ChoiceArrives, Unhitched, Toggles
<1> QED
  BY <1>6, <1>7, <1>8, <1>9, <1>10, <1>11, <1>12, <1>13 DEF ProfileInv

LEMMA SaveFailedKeeps ==
  ASSUME ProfileInv, NEW i \in Slot, SaveFailed(i)
  PROVE  ProfileInv'
<1>1. /\ i \in Saves /\ patch' = [patch EXCEPT ![i] = None]
      /\ UNCHANGED <<row, cache, fresh, fetch, mounted, top, selected, form, choice>>
  BY DEF SaveFailed, Saves, InFlight
<1>2. /\ hitches \subseteq hitches' /\ hitches' \subseteq AllowMishap
      /\ patch[i].state = "refused" \/ "lost" \in hitches'
  BY DEF SaveFailed, Hitch, ProfileInv, ProfileTypeOK
<1>3. /\ InFlight' = InFlight \ {i} /\ Toggles' = Toggles \ {i} /\ Saves' = Saves \ {i}
      /\ \A j \in InFlight' : patch'[j] = patch[j]
      /\ patch' \in [Slot -> StatusCall \cup SaveCall \cup {None}]
  BY <1>1, CallRemoved DEF ProfileInv, Saves
<1>4. i \notin Toggles /\ "settings" \in mounted
  BY <1>1, CallTyped DEF ProfileInv, Saves, ScreensMounted
<1>5. ProfileTypeOK'
  BY <1>1, <1>2, <1>3 DEF ProfileInv, ProfileTypeOK
<1>6. ScreensMounted'
  BY <1>1, <1>3 DEF ProfileInv, ScreensMounted, Saves
<1>7. SwitchesAgree'
  BY <1>1 DEF ProfileInv, SwitchesAgree
<1>8. CopiesMatch'
  BY <1>3 DEF ProfileInv, CopiesMatch, Toggles
<1>9. (fresh \/ InFlight # {} => cache # None)' /\ OneToggle' /\ NoHiddenFetch'
  BY <1>1, <1>2, <1>3, <1>4 DEF ProfileInv, OneToggle, NoHiddenFetch
<1>10. WillBeRight'
  <2>1. SUFFICES ASSUME Unhitched({"elsewhere", "lost", "overlap"})'
        PROVE  /\ fetch' \notin {<< >>, <<None>>} => fetch'[1] = row' \/ \E j \in InFlight' : Done(j)'
               /\ fresh' => cache' = row' \/ \E j \in InFlight' : j \in Toggles' \/ Done(j)'
    BY DEF WillBeRight
  <2>2. ~Done(i)
    BY <1>2, <2>1 DEF Unhitched, Done
  <2>3. \A j \in InFlight : j \in Toggles \/ Done(j) => j \in InFlight'
    BY <1>3, <1>4, <2>2
  <2>4. /\ fetch \notin {<< >>, <<None>>} => fetch[1] = row \/ \E j \in InFlight : Done(j)
        /\ fresh => cache = row \/ \E j \in InFlight : j \in Toggles \/ Done(j)
    BY <1>2, <2>1 DEF ProfileInv, WillBeRight, Unhitched
  <2>5. \A j \in InFlight' : Done(j)' = Done(j)
    BY <1>3 DEF Done
  <2> QED
    BY <1>1, <1>3, <1>4, <2>3, <2>4, <2>5
<1>11. ChoiceArrives'
  <2>1. Unhitched({"refused", "lost", "elsewhere", "overlap"})' =>
          Unhitched({"refused", "lost", "elsewhere", "overlap"})
    BY <1>2 DEF Unhitched
  <2> QED
    BY <1>1, <1>3, <1>4, <2>1 DEF ProfileInv, ChoiceArrives, Toggles
<1> QED
  BY <1>5, <1>6, <1>7, <1>8, <1>9, <1>10, <1>11 DEF ProfileInv

LEMMA FetchAnsweredKeeps ==
  ASSUME ProfileInv, FetchAnswered
  PROVE  ProfileInv'
<1>1. PICK p \in Profile : fetch = <<p>> /\ p # None /\ fetch \notin {<< >>, <<None>>}
  BY FetchTyped DEF ProfileInv, FetchAnswered
<1>2. /\ cache' = p /\ fresh' = TRUE /\ fetch' = << >>
      /\ UNCHANGED <<row, mounted, top, patch, choice, hitches>>
  BY <1>1 DEF FetchAnswered
<1>3. /\ selected' = [s \in Toggling |->
            IF s \in mounted /\ (cache = None \/ cache.isAvailable # p.isAvailable)
            THEN p.isAvailable ELSE selected[s]]
      /\ form' = IF "edit" \notin mounted THEN form
                 ELSE [f \in Field |->
                         IF cache = None \/ cache.edited[f] # p.edited[f] THEN p.edited[f] ELSE form[f]]
  BY <1>1 DEF FetchAnswered, Sync
<1>4. p.isAvailable \in BOOLEAN /\ p.edited \in Edited
  BY DEF Profile
<1>5. selected \in [Toggling -> BOOLEAN]
  BY DEF ProfileInv, ProfileTypeOK
<1>6. selected' \in [Toggling -> BOOLEAN]
  BY <1>3, <1>4, <1>5
<1>7. form' \in Edited \cup {None} /\ ("edit" \in mounted => form' \in Edited)
  BY <1>3, <1>4 DEF ProfileInv, ProfileTypeOK, ScreensMounted, Edited
<1>8. /\ InFlight' = InFlight /\ Toggles' = Toggles /\ Saves' = Saves
      /\ \A j \in InFlight : patch'[j] = patch[j]
  BY <1>2, SameCalls
<1>9. ProfileTypeOK'
  BY <1>2, <1>6, <1>7 DEF ProfileInv, ProfileTypeOK
<1>10. ScreensMounted'
  BY <1>1, <1>2, <1>7, <1>8 DEF ProfileInv, ScreensMounted, Saves
<1>11. SwitchesAgree'
  <2>1. SUFFICES ASSUME NEW s \in Toggling, s \in mounted
        PROVE  selected'[s] = p.isAvailable
    BY <1>2 DEF SwitchesAgree
  <2>2. cache = None \/ selected[s] = cache.isAvailable
    BY <2>1 DEF ProfileInv, SwitchesAgree
  <2> QED
    BY <1>3, <2>1, <2>2
<1>12. CopiesMatch'
  BY <1>8 DEF ProfileInv, CopiesMatch, Toggles
<1>13. (fresh \/ InFlight # {} => cache # None)' /\ OneToggle'
  BY <1>1, <1>2, <1>8 DEF ProfileInv, OneToggle
<1>14. NoHiddenFetch'
  BY <1>1, <1>2, <1>8 DEF ProfileInv, NoHiddenFetch
<1>15. WillBeRight'
  <2>1. \A j \in InFlight : Done(j)' = Done(j)
    BY <1>8 DEF Done
  <2> QED
    BY <1>1, <1>2, <1>8, <2>1 DEF ProfileInv, WillBeRight, Unhitched
<1>16. ChoiceArrives'
  BY <1>2, <1>8 DEF ProfileInv, ChoiceArrives, Unhitched, Toggles
<1> QED
  BY <1>9, <1>10, <1>11, <1>12, <1>13, <1>14, <1>15, <1>16 DEF ProfileInv

LEMMA ElsewhereKeeps ==
  ASSUME ProfileInv, Elsewhere
  PROVE  ProfileInv'
<1>1. /\ row' \in Profile /\ UNCHANGED <<cache, fresh, fetch, mounted, top, selected, form, patch, choice>>
  BY DEF Elsewhere
<1>2. hitches \subseteq hitches' /\ hitches' \subseteq AllowMishap /\ "elsewhere" \in hitches'
  BY DEF Elsewhere, Hitch, ProfileInv, ProfileTypeOK
<1>3. /\ InFlight' = InFlight /\ Toggles' = Toggles /\ Saves' = Saves
      /\ \A j \in InFlight : patch'[j] = patch[j]
  BY <1>1, SameCalls
<1>4. ProfileTypeOK' /\ ScreensMounted' /\ SwitchesAgree'
  BY <1>1, <1>2, <1>3 DEF ProfileInv, ProfileTypeOK, ScreensMounted, SwitchesAgree, Saves
<1>5. CopiesMatch' /\ (fresh \/ InFlight # {} => cache # None)'
  BY <1>1, <1>3 DEF ProfileInv, CopiesMatch, Toggles
<1>6. OneToggle' /\ NoHiddenFetch'
  BY <1>1, <1>2, <1>3 DEF ProfileInv, OneToggle, NoHiddenFetch
<1>7. WillBeRight' /\ ChoiceArrives'
  BY <1>2 DEF WillBeRight, ChoiceArrives, Unhitched
<1> QED
  BY <1>4, <1>5, <1>6, <1>7 DEF ProfileInv

LEMMA ProfileStill ==
  ASSUME ProfileInv, UNCHANGED profileVars
  PROVE  ProfileInv'
<1>1. UNCHANGED <<row, cache, fresh, fetch, mounted, top, selected, form, patch, choice, hitches>>
  BY DEF profileVars
<1>2. ProfileTypeOK' /\ ScreensMounted' /\ SwitchesAgree'
  BY <1>1, SameCalls DEF ProfileInv, ProfileTypeOK, ScreensMounted, SwitchesAgree, Saves
<1> QED
  BY <1>1, <1>2, QuietKeeps

LEMMA ProfileStep ==
  ASSUME ProfileInv, [ProfileNext]_profileVars
  PROVE  ProfileInv'
<1>1. CASE UNCHANGED profileVars
  BY <1>1, ProfileStill
<1>2. CASE \E s \in Screen \cup {"home"} : OpenTab(s)
  BY <1>2, OpenTabKeeps
<1>3. CASE OpenP2p \/ OpenEdit \/ Back
  BY <1>3, OpenP2pKeeps, OpenEditKeeps, BackKeeps
<1>4. CASE RetryFetch \/ FetchRead \/ FetchFailed \/ GoesStale
           \/ \E f \in Field, v \in Value : Type(f, v)
  BY <1>4, SmallStepsKeep
<1>5. CASE \E s \in Toggling : Toggle(s)
  BY <1>5, ToggleKeeps
<1>6. CASE \E i \in Slot : Serve(i) \/ Refuse(i)
  BY <1>6, ServeKeeps, RefuseKeeps
<1>7. CASE \E i \in Slot : ToggleAnswered(i) \/ ToggleFailed(i)
  BY <1>7, ToggleAnsweredKeeps, ToggleFailedKeeps
<1>8. CASE \E i \in Slot : SaveAnswered(i) \/ SaveFailed(i)
  BY <1>8, SaveAnsweredKeeps, SaveFailedKeeps
<1>9. CASE FetchAnswered \/ Save \/ Elsewhere
  BY <1>9, FetchAnsweredKeeps, SaveKeeps, ElsewhereKeeps
<1> QED
  BY <1>1, <1>2, <1>3, <1>4, <1>5, <1>6, <1>7, <1>8, <1>9 DEF ProfileNext

LEMMA ProfileHolds == ProfileSpec => []ProfileInv
<1>1. ProfileInit => ProfileInv
  BY ProfileStarts
<1>2. ProfileInv /\ [ProfileNext]_profileVars => ProfileInv'
  BY ProfileStep
<1> QED
  BY <1>1, <1>2, PTL DEF ProfileSpec

(* The switches show what the cache says, and when nothing is in flight    *)
(* the cache says what the backend has and the backend has what was tapped *)
(* last, as far as the slips allow (useVolunteerProfile.ts:175-236).       *)
THEOREM ShownProfile == ProfileSpec => []ProfileShown
<1>1. ProfileInv => ProfileShown
  <2>1. SUFFICES ASSUME ProfileInv PROVE CacheIsRight
    BY DEF ProfileShown, ProfileInv
  <2>2. SUFFICES ASSUME InFlight = {}, fetch = << >>
        PROVE  /\ fresh /\ Unhitched({"elsewhere", "lost", "overlap"}) => cache = row
               /\ Unhitched({"refused", "lost", "elsewhere", "overlap"}) => row.isAvailable = choice
    BY DEF CacheIsRight
  <2>3. Toggles = {}
    BY <2>2 DEF Toggles
  <2> QED
    BY <2>1, <2>2, <2>3 DEF ProfileInv, WillBeRight, ChoiceArrives
<1> QED
  BY <1>1, ProfileHolds, PTL

-----------------------------------------------------------------------------
(* ProfileCache: what is typed in the editor.                              *)

Disturbing == {"elsewhere", "left_saving", "away", "lost", "unfetched"}
Saved == \E i \in Saves : Done(i)

(* What the phone has read of the edited fields is what the backend has:   *)
(* nothing else before the settings were ever opened, and later unless a   *)
(* call is under way that makes it fetch again.                            *)
EditsRead ==
  Unhitched({"elsewhere", "lost", "unfetched"}) =>
    /\ "settings" \notin mounted =>
         /\ cache # None => cache.edited = row.edited
         /\ fetch \notin {<< >>, <<None>>} => fetch[1].edited = row.edited
         /\ \A i \in Toggles : patch[i].before.edited = row.edited
    /\ fetch \notin {<< >>, <<None>>} => fetch[1].edited = row.edited \/ Saved
    /\ fetch = << >> /\ cache # None =>
         cache.edited = row.edited \/ Toggles # {} \/ Saved

(* The calls behind the editor: one save, its own, of what it shows, and   *)
(* no switch.                                                              *)
OneSave == "left_saving" \notin hitches => \A i, j \in Saves : patch[i].live /\ i = j
NoToggle == top = "edit" /\ Unhitched({"left_saving", "away"}) => Toggles = {}
OwnSave ==
  top = "edit" /\ Unhitched(Disturbing) =>
    \A i \in Saves : \A f \in DOMAIN patch[i].changed : patch[i].changed[f] = form[f]

(* While the editor is open the backend has what the cache says, or what   *)
(* was saved; what a GET has read is one or the other.                     *)
EditsKnown ==
  top = "edit" /\ Unhitched(Disturbing) =>
    /\ \A f \in Field : row.edited[f] = cache.edited[f] \/ (Saved /\ row.edited[f] = form[f])
    /\ fetch \notin {<< >>, <<None>>} =>
         fetch[1].edited = row.edited \/ (Saved /\ fetch[1].edited = cache.edited)

EditInv == EditsRead /\ OneSave /\ NoToggle /\ OwnSave /\ EditsKnown

LEMMA EditStarts ==
  ASSUME ProfileInit
  PROVE  EditInv
<1>1. InFlight = {} /\ Toggles = {} /\ Saves = {}
  BY DEF ProfileInit, InFlight, Toggles, Saves
<1> QED
  BY <1>1 DEF ProfileInit, EditInv, EditsRead, OneSave, NoToggle, OwnSave, EditsKnown

LEMMA HitchesGrow ==
  ASSUME [ProfileNext]_profileVars
  PROVE  hitches \subseteq hitches'
<1>1. CASE UNCHANGED profileVars
  BY <1>1 DEF profileVars
<1>2. CASE ProfileNext
  BY <1>2 DEF ProfileNext, Hitch, OpenTab, OpenP2p, OpenEdit, Back, RetryFetch, Toggle, Serve, Refuse,
     ToggleAnswered, ToggleFailed, SaveAnswered, SaveFailed, FetchRead, FetchAnswered, FetchFailed,
     GoesStale, Type, Save, Elsewhere
<1> QED
  BY <1>1, <1>2

(* What one save leaves of the edited fields.                              *)
LEMMA SaveServed ==
  ASSUME ProfileInv, NEW i \in Slot, Serve(i)
  PROVE  /\ i \in InFlight /\ ~Done(i) /\ InFlight' = InFlight /\ Toggles' = Toggles /\ Saves' = Saves
         /\ \A j \in InFlight : j # i => patch'[j] = patch[j]
         /\ patch'[i].live = patch[i].live /\ Done(i)'
         /\ i \in Toggles => row'.edited = row.edited /\ patch'[i].before = patch[i].before
         /\ i \in Saves =>
              /\ patch'[i].changed = patch[i].changed
              /\ \A f \in Field : row'.edited[f] = IF f \in DOMAIN patch[i].changed
                                                   THEN patch[i].changed[f] ELSE row.edited[f]
<1>1. /\ i \in InFlight /\ patch[i].state = "sent" /\ patch' = [patch EXCEPT ![i].state = "done"]
  BY DEF Serve, InFlight
<1>2. ProfileTypeOK /\ row \in Profile
  BY DEF ProfileInv, ProfileTypeOK
<1>3. /\ InFlight' = InFlight /\ Toggles' = Toggles /\ Saves' = Saves
      /\ \A j \in InFlight : j # i => patch'[j] = patch[j]
      /\ patch'[i].live = patch[i].live /\ patch'[i].state = "done"
      /\ i \in Toggles => patch'[i].before = patch[i].before
      /\ i \in Saves => patch'[i].changed = patch[i].changed
  BY <1>1, <1>2, CallServed
<1>4. i \in Toggles => row'.edited = row.edited
  <2>1. i \in Toggles => row' = [row EXCEPT !.isAvailable = patch[i].to]
    BY DEF Serve, Toggles, Toggling
  <2> QED
    BY <1>2, <2>1 DEF Profile
<1>5. ASSUME i \in Saves
      PROVE  \A f \in Field : row'.edited[f] = IF f \in DOMAIN patch[i].changed
                                               THEN patch[i].changed[f] ELSE row.edited[f]
  <2> DEFINE e == [f \in Field |-> IF f \in DOMAIN patch[i].changed THEN patch[i].changed[f] ELSE row.edited[f]]
  <2>1. row' = [row EXCEPT !.edited = e]
    BY <1>2, <1>5 DEF Serve, Profile, Saves
  <2>2. row'.edited = e
    <3> HIDE DEF e
    <3> QED
      BY <1>2, <2>1 DEF Profile
  <2> QED
    BY <2>2
<1> QED
  BY <1>1, <1>3, <1>4, <1>5 DEF Done

LEMMA EditsReadKept ==
  ASSUME ProfileInv, EditInv, [ProfileNext]_profileVars
  PROVE  EditsRead'
<1> DEFINE Ms == {"elsewhere", "lost", "unfetched"}
<1>1. SUFFICES ASSUME Unhitched(Ms)'
      PROVE  /\ "settings" \notin mounted' =>
                  /\ cache' # None => cache'.edited = row'.edited
                  /\ fetch' \notin {<< >>, <<None>>} => fetch'[1].edited = row'.edited
                  /\ \A j \in Toggles' : patch'[j].before.edited = row'.edited
             /\ fetch' \notin {<< >>, <<None>>} => fetch'[1].edited = row'.edited \/ Saved'
             /\ fetch' = << >> /\ cache' # None =>
                  cache'.edited = row'.edited \/ Toggles' # {} \/ Saved'
  BY DEF EditsRead
<1>2. /\ "settings" \notin mounted =>
           /\ cache # None => cache.edited = row.edited
           /\ fetch \notin {<< >>, <<None>>} => fetch[1].edited = row.edited
           /\ \A j \in Toggles : patch[j].before.edited = row.edited
      /\ fetch \notin {<< >>, <<None>>} => fetch[1].edited = row.edited \/ Saved
      /\ fetch = << >> /\ cache # None => cache.edited = row.edited \/ Toggles # {} \/ Saved
  BY <1>1, HitchesGrow DEF EditInv, EditsRead, Unhitched
<1>3. ProfileTypeOK /\ (Saves # {} => "settings" \in mounted)
  BY DEF ProfileInv, ScreensMounted
<1>4. ASSUME patch' = patch
      PROVE  Toggles' = Toggles /\ Saved' = Saved /\ \A j \in Toggles : patch'[j] = patch[j]
  BY <1>4, SameCalls DEF Saved, Done, Saves, Toggles
<1>5. CASE \/ UNCHANGED profileVars \/ OpenP2p \/ OpenEdit \/ RetryFetch \/ FetchRead \/ FetchFailed
           \/ GoesStale \/ (\E f \in Field, v \in Value : Type(f, v))
           \/ (\E s \in Screen \cup {"home"} : OpenTab(s))
  <2>1. UNCHANGED <<row, cache, patch>> /\ mounted \subseteq mounted'
    BY <1>5 DEF profileVars, OpenTab, OpenP2p, OpenEdit, RetryFetch, FetchRead, FetchFailed, GoesStale, Type
  <2>2. ~FetchFailed
    BY <1>1 DEF FetchFailed, Hitch, Unhitched
  <2>3. fetch' = fetch \/ fetch' = <<None>> \/ fetch' = <<row>>
    BY <1>5, <2>2 DEF profileVars, OpenTab, OpenP2p, OpenEdit, RetryFetch, FetchRead, GoesStale, Type,
       MountQuery
  <2> QED
    BY <1>2, <1>4, <2>1, <2>3
<1>6. CASE Back
  <2>1. /\ UNCHANGED <<row, cache, fetch>> /\ top \in {"p2p", "edit"} /\ patch' = Unmounted(top)
        /\ "settings" \notin mounted' => "settings" \notin mounted
    BY <1>6 DEF Back, Leave
  <2>2. /\ InFlight' = InFlight /\ Toggles' = Toggles /\ Saves' = Saves
        /\ \A j \in InFlight : /\ patch'[j].state = patch[j].state
                               /\ j \in Toggles => patch'[j].before = patch[j].before
    BY <1>3, <2>1, CallsUnheard DEF Screen, Toggling
  <2>3. Saved' = Saved
    BY <2>2 DEF Saved, Saves, Done
  <2>4. \A j \in Toggles : patch'[j].before = patch[j].before
    BY <2>2 DEF Toggles
  <2> QED
    BY <1>2, <2>1, <2>2, <2>3, <2>4
<1>7. CASE \E s \in Toggling : Toggle(s)
  <2>1. PICK s \in Toggling : Toggle(s)
    BY <1>7
  <2> DEFINE call == [screen |-> s, live |-> TRUE, to |-> ~selected[s], was |-> selected[s],
                      before |-> cache, state |-> "sent"]
  <2>2. /\ CanCall /\ cache # None /\ patch' = [patch EXCEPT ![Free] = call] /\ fetch' = << >>
        /\ cache' = [cache EXCEPT !.isAvailable = ~selected[s]] /\ UNCHANGED <<row, mounted>>
    BY <2>1 DEF Toggle, Enabled
  <2>3. cache \in Profile /\ selected[s] \in BOOLEAN
    BY <1>3, <2>2 DEF ProfileTypeOK
  <2>4. cache'.edited = cache.edited
    BY <2>2, <2>3 DEF Profile
  <2>5. call \in StatusCall /\ call.before = cache /\ call.screen \in Toggling
    BY <2>3 DEF StatusCall
  <2> HIDE DEF call
  <2>6. PICK k \in Slot \ InFlight : /\ InFlight' = InFlight \cup {k} /\ patch'[k] = call
                                     /\ \A j \in InFlight : patch'[j] = patch[j]
    BY <1>3, <2>2, <2>5, CallAdded
  <2>7. Toggles' = Toggles \cup {k} /\ \A j \in Toggles : patch'[j] = patch[j]
    BY <2>5, <2>6 DEF Toggles
  <2> QED
    BY <1>2, <2>2, <2>4, <2>5, <2>6, <2>7
<1>8. CASE Save
  <2> DEFINE call == [screen |-> "edit", live |-> TRUE, changed |-> [f \in Changed |-> form[f]],
                      state |-> "sent"]
  <2>1. /\ CanCall /\ patch' = [patch EXCEPT ![Free] = call] /\ top = "edit"
        /\ UNCHANGED <<row, cache, fetch, mounted>>
    BY <1>8 DEF Save
  <2>2. "settings" \in mounted /\ form \in Edited
    BY <2>1 DEF ProfileInv, ScreensMounted
  <2>3. call \in SaveCall /\ call.screen = "edit"
    <3>1. Changed \in SUBSET Field
      BY DEF Changed
    <3>2. [f \in Changed |-> form[f]] \in [Changed -> Value]
      BY <2>2, <3>1 DEF Edited
    <3> HIDE DEF Changed
    <3>3. [f \in Changed |-> form[f]] \in UNION {[F -> Value] : F \in SUBSET Field}
      BY <3>1, <3>2
    <3> QED
      BY <3>3 DEF SaveCall
  <2> HIDE DEF call
  <2>4. PICK k \in Slot \ InFlight : /\ InFlight' = InFlight \cup {k} /\ patch'[k] = call
                                     /\ \A j \in InFlight : patch'[j] = patch[j]
    BY <1>3, <2>1, <2>3, CallAdded
  <2>5. Toggles' = Toggles /\ (Saved => Saved')
    BY <2>3, <2>4 DEF Toggles, Saved, Saves, Done, Toggling
  <2> QED
    BY <1>2, <2>1, <2>2, <2>5
<1>9. CASE \E i \in Slot : Serve(i)
  <2>1. PICK i \in Slot : Serve(i)
    BY <1>9
  <2>2. UNCHANGED <<cache, fetch, mounted>>
    BY <2>1 DEF Serve
  <2>3. /\ i \in InFlight /\ InFlight' = InFlight /\ Toggles' = Toggles /\ Saves' = Saves
        /\ \A j \in InFlight : j # i => patch'[j] = patch[j]
        /\ Done(i)' /\ ~Done(i)
        /\ i \in Toggles => row'.edited = row.edited /\ patch'[i].before = patch[i].before
    BY <2>1, SaveServed
  <2>4. i \in Toggles \/ i \in Saves
    BY <1>3, <2>3, CallTyped
  <2>5. CASE i \in Saves
    <3>1. Saved' /\ "settings" \in mounted
      BY <1>3, <2>3, <2>5 DEF Saved
    <3> QED
      BY <2>2, <3>1
  <2>6. CASE i \in Toggles
    <3>1. Saved' = Saved
      <4>1. i \notin Saves
        BY <1>3, <2>3, <2>6, CallTyped
      <4> QED
        BY <2>3, <4>1 DEF Saved, Saves, Done
    <3>2. \A j \in Toggles : patch'[j].before = patch[j].before
      BY <2>3, <2>6 DEF Toggles
    <3> QED
      BY <1>2, <2>2, <2>3, <2>6, <3>1, <3>2
  <2> QED
    BY <2>4, <2>5, <2>6
<1>10. CASE \E i \in Slot : Refuse(i)
  <2>1. PICK i \in Slot : Refuse(i)
    BY <1>10
  <2>2. /\ UNCHANGED <<row, cache, fetch, mounted>> /\ i \in InFlight /\ patch[i].state = "sent"
        /\ patch' = [patch EXCEPT ![i].state = "refused"]
    BY <2>1 DEF Refuse, InFlight
  <2>3. /\ InFlight' = InFlight /\ Toggles' = Toggles /\ Saves' = Saves
        /\ \A j \in InFlight : j # i => patch'[j] = patch[j]
        /\ patch'[i].state = "refused"
        /\ i \in Toggles => patch'[i].before = patch[i].before
    BY <1>3, <2>2, CallServed
  <2>4. Saved' = Saved
    BY <2>2, <2>3 DEF Saved, Saves, Done
  <2>5. \A j \in Toggles : patch'[j].before = patch[j].before
    BY <2>3 DEF Toggles
  <2> QED
    BY <1>2, <2>2, <2>3, <2>4, <2>5
<1>11. CASE \E i \in Slot : ToggleAnswered(i) \/ ToggleFailed(i)
  <2>1. PICK i \in Slot : ToggleAnswered(i) \/ ToggleFailed(i)
    BY <1>11
  <2>2. /\ UNCHANGED <<row, mounted>> /\ i \in Toggles /\ patch' = [patch EXCEPT ![i] = None]
        /\ cache' = cache \/ cache' = patch[i].before
        /\ fetch' = IF mounted # {} THEN <<None>> ELSE fetch
    BY <2>1 DEF ToggleAnswered, ToggleFailed, Toggles, InFlight, Settled, Invalidate, RolledBack
  <2>3. Toggles' = Toggles \ {i} /\ \A j \in Toggles' : patch'[j] = patch[j]
    BY <1>3, <2>2, CallRemoved DEF Toggles
  <2>4. Saved' = Saved
    <3>1. Saves' = Saves /\ \A j \in Saves : patch'[j] = patch[j]
      BY <1>3, <2>2, CallRemoved, CallTyped DEF Saves, Toggles
    <3> QED
      BY <3>1 DEF Saved, Done
  <2>5. cache # None
    BY <2>2 DEF ProfileInv, Toggles
  <2>6. CASE "settings" \in mounted
    BY <2>2, <2>6
  <2>7. CASE "settings" \notin mounted
    BY <1>2, <2>2, <2>3, <2>4, <2>5, <2>7
  <2> QED
    BY <2>6, <2>7
<1>12. CASE \E i \in Slot : SaveAnswered(i)
  <2>1. PICK i \in Slot : SaveAnswered(i)
    BY <1>12
  <2>2. /\ i \in Saves /\ Invalidate
        /\ IF patch[i].live THEN Leave("edit") ELSE UNCHANGED <<mounted, top, form>>
    BY <2>1 DEF SaveAnswered, Saves, InFlight
  <2>3. "settings" \in mounted' /\ fetch' = <<None>>
    BY <1>3, <2>2 DEF Leave, Invalidate
  <2> QED
    BY <2>3
<1>13. CASE \E i \in Slot : SaveFailed(i)
  <2>1. PICK i \in Slot : SaveFailed(i)
    BY <1>13
  <2>2. /\ UNCHANGED <<row, cache, fetch, mounted>> /\ i \in Saves /\ patch[i].state = "refused"
        /\ patch' = [patch EXCEPT ![i] = None]
    BY <1>1, <2>1 DEF SaveFailed, Saves, InFlight, Hitch, Unhitched
  <2>3. /\ Toggles' = Toggles \ {i} /\ Saves' = Saves \ {i} /\ i \notin Toggles
        /\ \A j \in InFlight' : patch'[j] = patch[j]
    BY <1>3, <2>2, CallRemoved, CallTyped DEF Saves
  <2>4. Saved' = Saved
    BY <2>2, <2>3 DEF Saved, Saves, Done
  <2> QED
    BY <1>2, <1>3, <2>2, <2>3, <2>4
<1>14. CASE FetchAnswered
  <2>1. PICK p \in Profile : fetch = <<p>> /\ p # None /\ fetch \notin {<< >>, <<None>>}
    BY <1>3, <1>14, FetchTyped DEF FetchAnswered
  <2>2. cache' = p /\ fetch' = << >> /\ UNCHANGED <<row, mounted, patch>>
    BY <1>14, <2>1 DEF FetchAnswered
  <2> QED
    BY <1>2, <1>4, <2>1, <2>2
<1>15. CASE Elsewhere
  BY <1>1, <1>15 DEF Elsewhere, Hitch, Unhitched
<1> QED
  BY <1>5, <1>6, <1>7, <1>8, <1>9, <1>10, <1>11, <1>12, <1>13, <1>14, <1>15 DEF ProfileNext

(* No step changes what the open editor shows, but the typing.             *)
LEMMA FormStays ==
  ASSUME ProfileInv, EditInv, [ProfileNext]_profileVars, top = "edit", top' = "edit",
         Unhitched(Disturbing)'
  PROVE  /\ UNCHANGED mounted
         /\ \/ UNCHANGED form
            \/ \E f \in Field, v \in Value : Type(f, v)
<1>1. /\ Unhitched(Disturbing) /\ Toggles = {} /\ "edit" \in mounted /\ "settings" \in mounted
      /\ cache # None /\ form \in Edited /\ ProfileTypeOK
  BY HitchesGrow DEF Unhitched, Disturbing, EditInv, NoToggle, ProfileInv, ScreensMounted
<1>2. /\ \A f \in Field : row.edited[f] = cache.edited[f] \/ row.edited[f] = form[f]
      /\ fetch \notin {<< >>, <<None>>} => fetch[1].edited = row.edited \/ fetch[1].edited = cache.edited
  BY <1>1 DEF EditInv, EditsKnown
<1>3. CASE FetchAnswered
  <2>1. PICK p \in Profile : fetch = <<p>> /\ fetch \notin {<< >>, <<None>>}
    BY <1>1, <1>3, FetchTyped DEF FetchAnswered
  <2>2. form' = [f \in Field |-> IF cache.edited[f] # p.edited[f] THEN p.edited[f] ELSE form[f]]
    BY <1>1, <1>3, <2>1 DEF FetchAnswered, Sync
  <2>3. \A f \in Field : p.edited[f] = cache.edited[f] \/ p.edited[f] = form[f]
    BY <1>2, <2>1
  <2> QED
    BY <1>1, <1>3, <2>2, <2>3 DEF Edited, FetchAnswered
<1>4. CASE \E i \in Slot : SaveAnswered(i)
  <2>1. PICK i \in Slot : SaveAnswered(i)
    BY <1>4
  <2> QED
    BY <2>1 DEF SaveAnswered, Leave
<1>5. CASE \E i \in Slot : ToggleAnswered(i) \/ ToggleFailed(i)
  BY <1>1, <1>5 DEF ToggleAnswered, ToggleFailed, Toggles, InFlight
<1>6. CASE \/ \E s \in Screen \cup {"home"} : OpenTab(s)
           \/ OpenP2p \/ OpenEdit \/ Back \/ \E s \in Toggling : Toggle(s)
  BY <1>6 DEF OpenTab, OpenP2p, OpenEdit, Back, Leave, Toggle, Toggling
<1>7. CASE \/ UNCHANGED profileVars \/ RetryFetch \/ FetchRead \/ FetchFailed \/ GoesStale \/ Save \/ Elsewhere
           \/ (\E i \in Slot : Serve(i) \/ Refuse(i) \/ SaveFailed(i))
           \/ (\E f \in Field, v \in Value : Type(f, v))
  BY <1>7 DEF profileVars, RetryFetch, FetchRead, FetchFailed, GoesStale, Save, Elsewhere, Serve, Refuse,
     SaveFailed, Type
<1> QED
  BY <1>3, <1>4, <1>5, <1>6, <1>7 DEF ProfileNext

(* The calls a step makes, serves, refuses and ends.                       *)
LEMMA SavesStep ==
  ASSUME ProfileInv, [ProfileNext]_profileVars
  PROVE  \/ /\ Saves' = Saves /\ \A j \in Saves : patch'[j].live = patch[j].live
            /\ \/ Toggles' \subseteq Toggles
               \/ top \in Toggling /\ top' = top
         \/ Back /\ Saves' = Saves /\ Toggles' = Toggles
         \/ /\ Save /\ Toggles' = Toggles /\ \E k : Saves' = Saves \cup {k} /\ patch'[k].live
            /\ \A j \in Saves : patch'[j].live = patch[j].live
         \/ /\ \E i \in Saves : Saves' = Saves \ {i}
            /\ Toggles' = Toggles /\ \A j \in Saves' : patch'[j].live = patch[j].live
<1>1. ProfileTypeOK
  BY DEF ProfileInv
<1>2. CASE patch' = patch
  BY <1>2, SameCalls DEF Saves
<1>3. CASE Back
  <2>1. top \in Screen /\ patch' = Unmounted(top)
    BY <1>3 DEF Back, Screen, Toggling
  <2> QED
    BY <1>1, <1>3, <2>1, CallsUnheard
<1>4. CASE \E s \in Toggling : Toggle(s)
  <2>1. PICK s \in Toggling : Toggle(s)
    BY <1>4
  <2> DEFINE call == [screen |-> s, live |-> TRUE, to |-> ~selected[s], was |-> selected[s],
                      before |-> cache, state |-> "sent"]
  <2>2. /\ CanCall /\ cache # None /\ patch' = [patch EXCEPT ![Free] = call] /\ top = s /\ top' = s
    BY <2>1 DEF Toggle, Enabled
  <2>3. cache \in Profile /\ selected[s] \in BOOLEAN
    BY <1>1, <2>2 DEF ProfileTypeOK
  <2>4. call \in StatusCall /\ call.screen = s
    BY <2>3 DEF StatusCall
  <2> HIDE DEF call
  <2>5. PICK k \in Slot \ InFlight : /\ InFlight' = InFlight \cup {k} /\ patch'[k] = call
                                     /\ \A j \in InFlight : patch'[j] = patch[j]
    BY <1>1, <2>2, <2>4, CallAdded
  <2>6. Saves' = Saves /\ \A j \in Saves : patch'[j] = patch[j]
    BY <2>4, <2>5 DEF Saves, Toggling
  <2> QED
    BY <2>2, <2>6
<1>5. CASE Save
  <2> DEFINE call == [screen |-> "edit", live |-> TRUE, changed |-> [f \in Changed |-> form[f]],
                      state |-> "sent"]
  <2>1. /\ CanCall /\ patch' = [patch EXCEPT ![Free] = call] /\ top = "edit"
    BY <1>5 DEF Save
  <2>2. form \in Edited
    BY <2>1 DEF ProfileInv, ScreensMounted
  <2>3. call \in SaveCall /\ call.screen = "edit" /\ call.live
    <3>1. Changed \in SUBSET Field
      BY DEF Changed
    <3>2. [f \in Changed |-> form[f]] \in [Changed -> Value]
      BY <2>2, <3>1 DEF Edited
    <3> HIDE DEF Changed
    <3>3. [f \in Changed |-> form[f]] \in UNION {[F -> Value] : F \in SUBSET Field}
      BY <3>1, <3>2
    <3> QED
      BY <3>3 DEF SaveCall
  <2> HIDE DEF call
  <2>4. PICK k \in Slot \ InFlight : /\ InFlight' = InFlight \cup {k} /\ patch'[k] = call
                                     /\ \A j \in InFlight : patch'[j] = patch[j]
    BY <1>1, <2>1, <2>3, CallAdded
  <2>5. /\ Toggles' = Toggles /\ Saves' = Saves \cup {k} /\ patch'[k].live
        /\ \A j \in Saves : patch'[j].live = patch[j].live
    BY <2>3, <2>4 DEF Toggles, Saves, Toggling
  <2> QED
    BY <1>5, <2>5
<1>6. CASE \E i \in Slot : Serve(i) \/ Refuse(i)
  <2>1. PICK i \in Slot : Serve(i) \/ Refuse(i)
    BY <1>6
  <2>2. PICK s \in {"done", "refused"} : patch' = [patch EXCEPT ![i].state = s]
    BY <2>1 DEF Serve, Refuse
  <2>3. i \in InFlight
    BY <2>1 DEF Serve, Refuse, InFlight
  <2>4. /\ InFlight' = InFlight /\ Toggles' = Toggles /\ Saves' = Saves
        /\ \A j \in InFlight : j # i => patch'[j] = patch[j]
        /\ patch'[i].live = patch[i].live
    BY <1>1, <2>2, <2>3, CallServed
  <2>5. \A j \in Saves : patch'[j].live = patch[j].live
    BY <2>4 DEF Saves
  <2> QED
    BY <2>4, <2>5
<1>7. CASE \E i \in Slot : ToggleAnswered(i) \/ ToggleFailed(i) \/ SaveAnswered(i) \/ SaveFailed(i)
  <2>1. PICK i \in Slot : ToggleAnswered(i) \/ ToggleFailed(i) \/ SaveAnswered(i) \/ SaveFailed(i)
    BY <1>7
  <2>2. i \in InFlight /\ patch' = [patch EXCEPT ![i] = None]
    BY <2>1 DEF ToggleAnswered, ToggleFailed, SaveAnswered, SaveFailed, InFlight
  <2>3. /\ InFlight' = InFlight \ {i} /\ \A j \in InFlight' : patch'[j] = patch[j]
        /\ Toggles' = Toggles \ {i} /\ Saves' = Saves \ {i}
        /\ (i \in Toggles /\ i \notin Saves) \/ (i \in Saves /\ i \notin Toggles)
    BY <1>1, <2>2, CallRemoved, CallTyped
  <2>4. \A j \in Saves' : patch'[j].live = patch[j].live
    BY <2>3 DEF Saves
  <2>5. CASE i \in Saves
    BY <2>3, <2>4, <2>5
  <2>6. CASE i \notin Saves
    <3>1. Saves' = Saves /\ Toggles' \subseteq Toggles
      BY <2>3, <2>6
    <3> QED
      BY <2>4, <3>1
  <2> QED
    BY <2>5, <2>6
<1>8. CASE \/ UNCHANGED profileVars \/ OpenP2p \/ OpenEdit \/ RetryFetch \/ FetchRead \/ FetchAnswered
           \/ FetchFailed \/ GoesStale \/ Elsewhere
           \/ (\E f \in Field, v \in Value : Type(f, v)) \/ (\E s \in Screen \cup {"home"} : OpenTab(s))
  BY <1>2, <1>8 DEF profileVars, OpenTab, OpenP2p, OpenEdit, RetryFetch, FetchRead, FetchAnswered,
     FetchFailed, GoesStale, Type, Elsewhere
<1> QED
  BY <1>3, <1>4, <1>5, <1>6, <1>7, <1>8 DEF ProfileNext

LEMMA OneSaveKept ==
  ASSUME ProfileInv, EditInv, [ProfileNext]_profileVars
  PROVE  OneSave'
<1>1. SUFFICES ASSUME "left_saving" \notin hitches'
      PROVE  \A i, j \in Saves' : patch'[i].live /\ i = j
  BY DEF OneSave
<1>2. \A i, j \in Saves : patch[i].live /\ i = j
  BY <1>1, HitchesGrow DEF EditInv, OneSave
<1>3. CASE Back
  <2>1. ~Pending("edit")
    BY <1>1, <1>3 DEF Back, Hitch
  <2>2. Saves = {}
    BY <1>2, <2>1 DEF Pending, Saves
  <2>3. Saves' = {}
    BY <1>3, <2>2, SavesStep DEF Back, Save, Leave
  <2> QED
    BY <2>3
<1>4. CASE Save
  <2>1. ~Pending("edit")
    BY <1>4 DEF Save
  <2>2. Saves = {}
    BY <1>2, <2>1 DEF Pending, Saves
  <2> QED
    BY <1>4, <2>2, SavesStep DEF Back, Save, Leave
<1> QED
  BY <1>2, <1>3, <1>4, SavesStep

LEMMA NoToggleKept ==
  ASSUME ProfileInv, EditInv, [ProfileNext]_profileVars
  PROVE  NoToggle'
<1>1. SUFFICES ASSUME top' = "edit", Unhitched({"left_saving", "away"})'
      PROVE  Toggles' = {}
  BY DEF NoToggle
<1>2. CASE OpenEdit
  <2>1. InFlight = {} /\ patch' = patch
    BY <1>1, <1>2 DEF OpenEdit, Hitch, Unhitched
  <2> QED
    BY <2>1, SameCalls DEF Toggles
<1>3. CASE ~OpenEdit
  <2>1. top = "edit"
    BY <1>1, <1>3 DEF ProfileNext, profileVars, OpenTab, OpenP2p, Back, Leave, RetryFetch, Toggle, Serve,
       Refuse, ToggleAnswered, ToggleFailed, SaveAnswered, SaveFailed, FetchRead, FetchAnswered,
       FetchFailed, GoesStale, Type, Save, Elsewhere
  <2>2. Toggles = {}
    BY <1>1, <2>1, HitchesGrow DEF EditInv, NoToggle, Unhitched
  <2> QED
    BY <2>1, <2>2, SavesStep DEF Toggling
<1> QED
  BY <1>2, <1>3

(* Behind the open editor: what was open stays open, what is new knows.    *)
LEMMA StaysOpen ==
  ASSUME ProfileInv, EditInv, [ProfileNext]_profileVars, top' = "edit", Unhitched(Disturbing)', ~OpenEdit
  PROVE  /\ top = "edit" /\ Unhitched(Disturbing) /\ Toggles = {} /\ "edit" \in mounted
         /\ form \in Edited /\ cache \in Profile /\ row \in Profile /\ ProfileTypeOK
         /\ \A i, j \in Saves : i = j /\ patch[i].live
         /\ \A i \in Saves : \A f \in DOMAIN patch[i].changed : patch[i].changed[f] = form[f]
         /\ \A f \in Field : row.edited[f] = cache.edited[f] \/ (Saved /\ row.edited[f] = form[f])
         /\ fetch \notin {<< >>, <<None>>} =>
              fetch[1].edited = row.edited \/ (Saved /\ fetch[1].edited = cache.edited)
<1>1. top = "edit"
  BY DEF ProfileNext, profileVars, OpenTab, OpenP2p, Back, Leave, RetryFetch, Toggle, Serve,
     Refuse, ToggleAnswered, ToggleFailed, SaveAnswered, SaveFailed, FetchRead, FetchAnswered,
     FetchFailed, GoesStale, Type, Save, Elsewhere
<1>2. Unhitched(Disturbing)
  BY HitchesGrow DEF Unhitched
<1>3. Toggles = {} /\ \A i, j \in Saves : i = j /\ patch[i].live
  BY <1>1, <1>2 DEF EditInv, NoToggle, OneSave, Unhitched, Disturbing
<1>4. "edit" \in mounted /\ form \in Edited /\ cache \in Profile /\ row \in Profile /\ ProfileTypeOK
  BY <1>1 DEF ProfileInv, ProfileTypeOK, ScreensMounted
<1> QED
  BY <1>1, <1>2, <1>3, <1>4 DEF EditInv, OwnSave, EditsKnown

LEMMA OwnSaveKept ==
  ASSUME ProfileInv, EditInv, [ProfileNext]_profileVars
  PROVE  OwnSave'
<1>1. SUFFICES ASSUME top' = "edit", Unhitched(Disturbing)'
      PROVE  \A i \in Saves' : \A f \in DOMAIN patch'[i].changed : patch'[i].changed[f] = form'[f]
  BY DEF OwnSave
<1>2. CASE OpenEdit
  <2>1. InFlight = {} /\ patch' = patch
    BY <1>1, <1>2 DEF OpenEdit, Hitch, Unhitched, Disturbing
  <2> QED
    BY <2>1, SameCalls DEF Saves
<1>3. CASE ~OpenEdit
  <2>1. /\ top = "edit" /\ ProfileTypeOK /\ form \in Edited
        /\ \A i, j \in Saves : i = j /\ patch[i].live
        /\ \A i \in Saves : \A f \in DOMAIN patch[i].changed : patch[i].changed[f] = form[f]
    BY <1>1, <1>3, StaysOpen
  <2>2. CASE \E f \in Field, v \in Value : Type(f, v)
    <3>1. ~Pending("edit") /\ patch' = patch
      BY <2>2 DEF Type
    <3>2. Saves = {}
      BY <2>1, <3>1 DEF Pending, Saves
    <3> QED
      BY <3>1, <3>2, SameCalls
  <2>3. CASE UNCHANGED form
    <3>1. CASE patch' = patch
      BY <2>1, <2>3, <3>1, SameCalls DEF Saves
    <3>2. CASE Save
      <4> DEFINE call == [screen |-> "edit", live |-> TRUE, changed |-> [f \in Changed |-> form[f]],
                          state |-> "sent"]
      <4>1. CanCall /\ patch' = [patch EXCEPT ![Free] = call]
        BY <3>2 DEF Save
      <4>2. call \in SaveCall /\ \A f \in DOMAIN call.changed : call.changed[f] = form[f]
        <5>1. Changed \in SUBSET Field
          BY DEF Changed
        <5>2. [f \in Changed |-> form[f]] \in [Changed -> Value]
          BY <2>1, <5>1 DEF Edited
        <5> HIDE DEF Changed
        <5>3. [f \in Changed |-> form[f]] \in UNION {[F -> Value] : F \in SUBSET Field}
          BY <5>1, <5>2
        <5> QED
          BY <5>3 DEF SaveCall
      <4> HIDE DEF call
      <4>3. PICK k \in Slot \ InFlight : /\ InFlight' = InFlight \cup {k} /\ patch'[k] = call
                                         /\ \A j \in InFlight : patch'[j] = patch[j]
        BY <2>1, <4>1, <4>2, CallAdded
      <4>4. \A i \in Saves' : i = k \/ (i \in Saves /\ patch'[i] = patch[i])
        BY <4>3 DEF Saves
      <4> QED
        BY <2>1, <2>3, <4>2, <4>3, <4>4
    <3>3. CASE \E i \in Slot : Serve(i) \/ Refuse(i)
      <4>1. PICK i \in Slot : Serve(i) \/ Refuse(i)
        BY <3>3
      <4>2. PICK s \in {"done", "refused"} : patch' = [patch EXCEPT ![i].state = s]
        BY <4>1 DEF Serve, Refuse
      <4>3. i \in InFlight
        BY <4>1 DEF Serve, Refuse, InFlight
      <4>4. /\ InFlight' = InFlight /\ Saves' = Saves
            /\ \A j \in InFlight : j # i => patch'[j] = patch[j]
            /\ i \in Saves => patch'[i].changed = patch[i].changed
        BY <2>1, <4>2, <4>3, CallServed
      <4>5. \A j \in Saves : patch'[j].changed = patch[j].changed
        BY <4>4 DEF Saves
      <4> QED
        BY <2>1, <2>3, <4>4, <4>5
    <3>4. CASE \E i \in Slot : ToggleAnswered(i) \/ ToggleFailed(i) \/ SaveAnswered(i) \/ SaveFailed(i)
      <4>1. PICK i \in Slot : ToggleAnswered(i) \/ ToggleFailed(i) \/ SaveAnswered(i) \/ SaveFailed(i)
        BY <3>4
      <4>2. i \in InFlight /\ patch' = [patch EXCEPT ![i] = None]
        BY <4>1 DEF ToggleAnswered, ToggleFailed, SaveAnswered, SaveFailed, InFlight
      <4>3. Saves' = Saves \ {i} /\ InFlight' = InFlight \ {i} /\ \A j \in InFlight' : patch'[j] = patch[j]
        BY <2>1, <4>2, CallRemoved
      <4>4. \A j \in Saves' : j \in Saves /\ patch'[j] = patch[j]
        BY <4>3 DEF Saves
      <4> QED
        BY <2>1, <2>3, <4>4
    <3>5. CASE Back \/ \E s \in Toggling : Toggle(s)
      BY <1>1, <2>1, <3>5 DEF Back, Leave, Toggle, Toggling
    <3> QED
      BY <1>3, <3>1, <3>2, <3>3, <3>4, <3>5 DEF ProfileNext, profileVars, OpenTab, OpenP2p, RetryFetch,
         FetchRead, FetchAnswered, FetchFailed, GoesStale, Type, Elsewhere
  <2> QED
    BY <1>1, <2>1, <2>2, <2>3, FormStays
<1> QED
  BY <1>2, <1>3

LEMMA EditsKnownKept ==
  ASSUME ProfileInv, EditInv, [ProfileNext]_profileVars
  PROVE  EditsKnown'
<1>1. SUFFICES ASSUME top' = "edit", Unhitched(Disturbing)'
      PROVE  /\ \A f \in Field : row'.edited[f] = cache'.edited[f] \/ (Saved' /\ row'.edited[f] = form'[f])
             /\ fetch' \notin {<< >>, <<None>>} =>
                  fetch'[1].edited = row'.edited \/ (Saved' /\ fetch'[1].edited = cache'.edited)
  BY DEF EditsKnown
<1>2. CASE OpenEdit
  <2>1. /\ InFlight = {} /\ fetch = << >> /\ fetch' \in {<< >>, <<None>>} /\ cache # None
        /\ UNCHANGED <<row, cache>>
    BY <1>1, <1>2 DEF OpenEdit, Hitch, Unhitched, Disturbing, MountQuery
  <2>2. Unhitched(Disturbing)
    BY <1>1, HitchesGrow DEF Unhitched
  <2>3. Toggles = {} /\ ~Saved
    BY <2>1 DEF Toggles, Saves, Saved
  <2>4. cache.edited = row.edited
    BY <2>1, <2>2, <2>3 DEF EditInv, EditsRead, Unhitched, Disturbing
  <2> QED
    BY <2>1, <2>4
<1>3. CASE ~OpenEdit
  <2>1. /\ top = "edit" /\ ProfileTypeOK /\ form \in Edited /\ cache \in Profile /\ row \in Profile
        /\ Toggles = {} /\ Unhitched(Disturbing) /\ "edit" \in mounted
        /\ \A i, j \in Saves : i = j /\ patch[i].live
        /\ \A i \in Saves : \A f \in DOMAIN patch[i].changed : patch[i].changed[f] = form[f]
    BY <1>1, <1>3, StaysOpen
  <2>2. /\ \A f \in Field : row.edited[f] = cache.edited[f] \/ (Saved /\ row.edited[f] = form[f])
        /\ fetch \notin {<< >>, <<None>>} =>
              fetch[1].edited = row.edited \/ (Saved /\ fetch[1].edited = cache.edited)
    BY <1>1, <1>3, StaysOpen
  <2>3. row.edited \in Edited /\ cache.edited \in Edited
    BY <2>1 DEF Profile
  <2>4. CASE \E f \in Field, v \in Value : Type(f, v)
    <3>1. ~Pending("edit") /\ UNCHANGED <<row, cache, fetch, patch>>
      BY <2>4 DEF Type
    <3>2. ~Saved
      BY <2>1, <3>1 DEF Pending, Saves, Saved
    <3> QED
      BY <2>2, <3>1, <3>2
  <2>5. CASE UNCHANGED form
    <3>1. ASSUME patch' = patch PROVE Saved' = Saved
      BY <3>1, SameCalls DEF Saved, Done, Saves
    <3>2. CASE UNCHANGED profileVars \/ RetryFetch \/ FetchRead \/ GoesStale
      <4>1. UNCHANGED <<row, cache, patch>> /\ (fetch' = fetch \/ fetch' = <<None>> \/ fetch' = <<row>>)
        BY <3>2 DEF profileVars, RetryFetch, FetchRead, GoesStale
      <4> QED
        BY <2>2, <2>5, <3>1, <4>1
    <3>3. CASE FetchFailed \/ Elsewhere
      BY <1>1, <3>3 DEF FetchFailed, Elsewhere, Hitch, Unhitched, Disturbing
    <3>4. CASE FetchAnswered
      <4>1. PICK p \in Profile : fetch = <<p>> /\ fetch \notin {<< >>, <<None>>}
        BY <2>1, <3>4, FetchTyped DEF FetchAnswered
      <4>2. cache' = p /\ fetch' = << >> /\ UNCHANGED <<row, patch>>
        BY <3>4, <4>1 DEF FetchAnswered
      <4> QED
        BY <2>2, <2>5, <3>1, <4>1, <4>2
    <3>5. CASE Save
      <4>1. UNCHANGED <<row, cache, fetch>> /\ ~Pending("edit")
        BY <3>5 DEF Save
      <4>2. ~Saved
        BY <2>1, <4>1 DEF Saved, Saves, Pending
      <4> QED
        BY <2>2, <2>5, <4>1, <4>2
    <3>6. CASE \E i \in Slot : Serve(i)
      <4>1. PICK i \in Slot : Serve(i)
        BY <3>6
      <4>2. UNCHANGED <<cache, fetch>>
        BY <4>1 DEF Serve
      <4>3. /\ i \in InFlight /\ ~Done(i) /\ Saves' = Saves /\ Done(i)'
            /\ i \in Saves => \A f \in Field : row'.edited[f] = IF f \in DOMAIN patch[i].changed
                                                                THEN patch[i].changed[f] ELSE row.edited[f]
        BY <4>1, SaveServed
      <4>4. i \in Saves
        BY <2>1, <4>3, CallTyped
      <4>5. Saved' /\ ~Saved
        BY <2>1, <4>3, <4>4 DEF Saved
      <4>6. row.edited = cache.edited
        BY <2>2, <2>3, <4>5 DEF Edited
      <4> QED
        BY <2>1, <2>2, <2>5, <4>2, <4>3, <4>4, <4>5, <4>6
    <3>7. CASE \E i \in Slot : Refuse(i)
      <4>1. PICK i \in Slot : Refuse(i)
        BY <3>7
      <4>2. /\ UNCHANGED <<row, cache, fetch>> /\ i \in InFlight /\ patch[i].state = "sent"
            /\ patch' = [patch EXCEPT ![i].state = "refused"]
        BY <4>1 DEF Refuse, InFlight
      <4>3. /\ Saves' = Saves /\ \A j \in InFlight : j # i => patch'[j] = patch[j]
        BY <2>1, <4>2, CallServed
      <4>4. Saved => Saved'
        BY <4>2, <4>3 DEF Saved, Saves, Done
      <4> QED
        BY <2>2, <2>5, <4>2, <4>4
    <3>8. CASE \E i \in Slot : SaveFailed(i)
      <4>1. PICK i \in Slot : SaveFailed(i)
        BY <3>8
      <4>2. UNCHANGED <<row, cache, fetch>> /\ i \in Saves /\ patch[i].state = "refused"
        BY <1>1, <4>1 DEF SaveFailed, Saves, InFlight, Hitch, Unhitched, Disturbing
      <4>3. ~Saved
        BY <2>1, <4>2 DEF Saved, Done
      <4> QED
        BY <2>2, <2>5, <4>2, <4>3
    <3>9. CASE \/ \E i \in Slot : ToggleAnswered(i) \/ ToggleFailed(i)
               \/ Back \/ (\E s \in Toggling : Toggle(s)) \/ OpenP2p
               \/ \E s \in Screen \cup {"home"} : OpenTab(s)
      BY <1>1, <2>1, <3>9 DEF ToggleAnswered, ToggleFailed, Toggles, InFlight, Back, Leave, Toggle, Toggling,
         OpenP2p, OpenTab
    <3>10. CASE \E i \in Slot : SaveAnswered(i)
      <4>1. PICK i \in Slot : SaveAnswered(i)
        BY <3>10
      <4>2. i \in Saves /\ (patch[i].live => top' = "settings")
        BY <4>1 DEF SaveAnswered, Saves, InFlight, Leave
      <4> QED
        BY <1>1, <2>1, <4>2
    <3> QED
      BY <1>3, <2>4, <3>2, <3>3, <3>4, <3>5, <3>6, <3>7, <3>8, <3>9, <3>10 DEF ProfileNext
  <2> QED
    BY <1>1, <2>1, <2>4, <2>5, FormStays
<1> QED
  BY <1>2, <1>3

(* What is typed in the editor stays until it is saved or left: no refetch *)
(* and no rollback of a switch overwrites it, unless a slip lets a call    *)
(* into the editor that is not its own (useVolunteerEditProfile.ts:27-37). *)
THEOREM EditsKept == ProfileSpec => EditsSurvive
<1>1. ProfileInit => ProfileInv /\ EditInv
  BY ProfileStarts, EditStarts
<1>2. ProfileInv /\ EditInv /\ [ProfileNext]_profileVars => ProfileInv' /\ EditInv'
  BY ProfileStep, EditsReadKept, OneSaveKept, NoToggleKept, OwnSaveKept, EditsKnownKept DEF EditInv
<1>3. ASSUME ProfileInv, EditInv, [ProfileNext]_profileVars
      PROVE  [top = "edit" /\ top' = "edit"
              /\ Unhitched({"elsewhere", "left_saving", "away", "lost", "unfetched"})'
              => \A f \in Field : form'[f] = form[f] \/ cache' = cache]_profileVars
  <2>1. SUFFICES ASSUME top = "edit", top' = "edit", Unhitched(Disturbing)'
        PROVE  \A f \in Field : form'[f] = form[f] \/ cache' = cache
    BY DEF Disturbing
  <2>2. UNCHANGED form \/ \E f \in Field, v \in Value : Type(f, v)
    BY <1>3, <2>1, FormStays
  <2> QED
    BY <2>2 DEF Type
<1> QED
  BY <1>1, <1>2, <1>3, PTL DEF ProfileSpec, EditsSurvive

-----------------------------------------------------------------------------
(* Navigation: where replace and push leave the stack.                     *)

(* t is the first k routes of st, with `to` on top. *)
Grown(st, t, k, to) ==
  /\ t \in Seq(Route) /\ Len(t) = k + 1 /\ t[k + 1] = to
  /\ \A i \in 1..k : t[i] = st[i]

LEMMA PushGrows ==
  ASSUME NEW st \in Seq(Route), NEW to \in Route
  PROVE  Grown(st, Pushed(st, to), Len(st), to)
<1>1. /\ Append(st, to) \in Seq(Route) /\ Len(Append(st, to)) = Len(st) + 1
      /\ Append(st, to)[Len(st) + 1] = to
      /\ \A i \in 1..Len(st) : Append(st, to)[i] = st[i]
  OBVIOUS
<1> QED
  BY <1>1 DEF Grown, Pushed

LEMMA CutGrows ==
  ASSUME NEW st \in Seq(Route), NEW to \in Route, NEW k \in 0..Len(st)
  PROVE  Grown(st, Append(SubSeq(st, 1, k), to), k, to)
<1> DEFINE cut == SubSeq(st, 1, k)
<1>1. cut \in Seq(Route) /\ Len(cut) = k /\ \A i \in 1..k : cut[i] = st[i]
  OBVIOUS
<1> HIDE DEF cut
<1>2. Grown(cut, Pushed(cut, to), Len(cut), to)
  BY <1>1, PushGrows
<1>3. Grown(st, Pushed(cut, to), k, to)
  BY <1>1, <1>2 DEF Grown
<1> QED
  BY <1>3 DEF cut, Pushed

(* replace takes at least the route in front away, and more below it only  *)
(* as far as the routes are in the entry that is replaced.                 *)
LEMMA ReplaceGrows ==
  ASSUME NEW st \in Seq(Route), Len(st) > 0, NEW to \in Route
  PROVE  \E k \in 0..(Len(st) - 1) :
           /\ Grown(st, Replaced(st, to), k, to)
           /\ \A n \in 1..(Len(st) - 1) :
                (\A m \in n..(Len(st) - 1) :
                   SameEntry(st[m], st[Len(st)], Shared(st[Len(st)], to))) => k < n
<1> DEFINE L == Len(st) - 1
           front == st[Len(st)]
           d == Shared(front, to)
           kept == {i \in 1..L : \E m \in i..L : ~SameEntry(st[m], front, d)}
           k == Cardinality(kept)
<1>1. L \in Nat
  OBVIOUS
<1>2. \A n \in 0..L : kept \subseteq 1..n => k \in 0..n
  <2> HIDE DEF d, kept
  <2> TAKE n \in 0..L
  <2> HAVE kept \subseteq 1..n
  <2>0. n \in Nat /\ 1 \in Int /\ n \in Int
    OBVIOUS
  <2>1. IsFiniteSet(1..n) /\ Cardinality(1..n) = IF 1 > n THEN 0 ELSE n - 1 + 1
    BY <2>0, FS_Interval
  <2>4. Cardinality(1..n) = n
    BY <2>0, <2>1
  <2>5. kept \in SUBSET (1..n)
    OBVIOUS
  <2>2. IsFiniteSet(kept) /\ k <= Cardinality(1..n)
    BY <2>1, <2>5, FS_Subset
  <2>3. k \in Nat
    BY <2>2, FS_CardinalityType
  <2> QED
    BY <2>0, <2>2, <2>3, <2>4
<1>3. k \in 0..L
  <2>1. kept \subseteq 1..L
    OBVIOUS
  <2> HIDE DEF L, kept
  <2> QED
    BY <1>1, <1>2, <2>1
<1>4. Replaced(st, to) = Append(SubSeq(st, 1, k), to)
  BY DEF Replaced
<1>5. ASSUME NEW n \in 1..L, \A m \in n..L : SameEntry(st[m], front, d)
      PROVE  k < n
  <2> HIDE DEF d, L
  <2>1. kept \subseteq 1..(n - 1)
    BY <1>1, <1>5
  <2> HIDE DEF kept
  <2>2. n - 1 \in 0..L /\ n \in Nat
    BY <1>1
  <2>3. k \in 0..(n - 1)
    BY <1>2, <2>1, <2>2
  <2> QED
    BY <2>2, <2>3
<1> HIDE DEF k
<1>6. k \in 0..Len(st)
  BY <1>1, <1>3
<1>7. Grown(st, Replaced(st, to), k, to)
  BY <1>4, <1>6, CutGrows
<1> QED
  BY <1>3, <1>5, <1>7

LEMMA Routes ==
  /\ {Index, Welcome, ComingSoon, Waiting, Accept, PendingScreen, Rejected, ChangePassword, TnS}
       \subseteq Route
  /\ \A r \in Role : Home(r) \in Route /\ Chat(r) \in Route /\ Rate(r) \in Route /\ Other(r) \in Route
  /\ \A r \in Role : Begin(r, "selectLanguage") \in Route /\ Begin(r, "specialnotice") \in Route
  /\ \A r \in Role, p \in AuthPage : Auth(r, p) \in Route
  BY DEF Route

(* Buttons lead somewhere. *)
LEMMA ExitRoutes == \A x \in Exits : x[2].to \in Route /\ x[2].how \in {"push", "replace"}
<1> SUFFICES ASSUME NEW x \in Exits
             PROVE  x[2].to \in Route /\ x[2].how \in {"push", "replace"}
  OBVIOUS
<1> USE Routes DEF From, Push, Replace, Role, AuthPage
<1>1. CASE x \in WelcomeExits
  BY <1>1 DEF WelcomeExits
<1>2. CASE x \in UserSelectLanguage \cup UserSignupNlogin \cup UserSignIn \cup UserSignUp
           \cup UserRegistered \cup UserNotice
  BY <1>2 DEF UserSelectLanguage, UserSignupNlogin, UserSignIn, UserSignUp, UserRegistered, UserNotice
<1>3. CASE x \in VolunteerSelectLanguage \cup VolunteerSignupNlogin \cup VolunteerSignIn
           \cup VolunteerRegistered
  BY <1>3 DEF VolunteerSelectLanguage, VolunteerSignupNlogin, VolunteerSignIn, VolunteerRegistered
<1>4. CASE x \in VolunteerEnterEmail \cup VolunteerOtp \cup VolunteerNewPassword \cup VolunteerReset
  BY <1>4 DEF VolunteerEnterEmail, VolunteerOtp, VolunteerNewPassword, VolunteerReset
<1>5. CASE x \in UserHome \cup UserConnect \cup UserSettings \cup UserProTalk \cup UserGroups
           \cup TnSAgree \cup WaitingExits \cup UserChatExits
  BY <1>5 DEF UserHome, UserConnect, UserSettings, UserProTalk, UserGroups, TnSAgree, WaitingExits,
              UserChatExits
<1>6. CASE x \in VolunteerHome \cup VolunteerConnect \cup VolunteerSettings \cup VolunteerProTalk
           \cup VolunteerGroups \cup AcceptExits \cup VolunteerChatExits
  BY <1>6 DEF VolunteerHome, VolunteerConnect, VolunteerSettings, VolunteerProTalk,
              VolunteerGroups, AcceptExits, VolunteerChatExits
<1>7. CASE x \in RateExits
  BY <1>7 DEF RateExits
<1> QED
  BY <1>1, <1>2, <1>3, <1>4, <1>5, <1>6, <1>7 DEF Exits

-----------------------------------------------------------------------------
(* Where each kind of call is made. *)
Placed(c) ==
  /\ c.kind = "gate" => c.at = Index
  /\ c.kind \in {"mount", "check"} => c.at = PendingScreen
  /\ c.kind = "login" => c.as \in Role /\ \E r \in Role : c.at = Auth(r, "signIn")
  /\ c.kind = "register" => c.as \in Role /\ \E r \in Role : c.at = Auth(r, "signUp")
  /\ c.kind = "apply" => c.at = Auth("volunteer", "verify")
  /\ c.kind = "logout" => \E r \in Role : c.at = Home(r)
  /\ c.kind = "forgot" => c.at = Auth("user", "enterEmail")
  /\ c.kind = "otp" => c.at = Auth("user", "OTPVerification")
  /\ c.kind = "rate" => \E r \in Role : c.at = Rate(r)

CallsPlaced == \A c \in calls : Placed(c)

(* The volunteers' home and what it leads to and back. *)
Inside == {Home("volunteer"), Accept, Chat("volunteer"), Rate("volunteer")}

Entered ==
  \/ \E i \in 1..Len(stack) : stack[i] \in Inside
  \/ \E c \in calls : c.kind = "rate" /\ c.at = Rate("volunteer")

HomeInv ==
  /\ NavTypeOK /\ CallsPlaced
  /\ Entered /\ "ungated" \notin trouble => status = "approved"

(* The routes of a stack are those of the one before and at most a new one.*)
Routed(st, S) ==
  /\ st \in Seq(Route) /\ Len(st) > 0
  /\ \A i \in 1..Len(st) : st[i] \in S \/ \E j \in 1..Len(stack) : st[i] = stack[j]

LEMMA GrownRouted ==
  ASSUME NavTypeOK, NEW st, NEW to, NEW k \in 0..Len(stack), Grown(stack, st, k, to)
  PROVE  Routed(st, {to})
  BY DEF NavTypeOK, Grown, Routed

LEMMA StacksRouted ==
  ASSUME NavTypeOK
  PROVE  /\ Routed(stack, {})
         /\ \A to \in Route : Routed(Replaced(stack, to), {to}) /\ Routed(Pushed(stack, to), {to})
         /\ Len(stack) > 1 => Routed(SubSeq(stack, 1, Len(stack) - 1), {})
         /\ \A c : Routed(ShowRejected(c), {Rejected})
<1>1. stack \in Seq(Route) /\ Len(stack) > 0
  BY DEF NavTypeOK
<1>2. Routed(stack, {})
  BY <1>1 DEF Routed
<1>3. ASSUME NEW to \in Route
      PROVE  Routed(Replaced(stack, to), {to}) /\ Routed(Pushed(stack, to), {to})
  <2>1. PICK k \in 0..(Len(stack) - 1) : Grown(stack, Replaced(stack, to), k, to)
    BY <1>1, ReplaceGrows
  <2>2. k \in 0..Len(stack) /\ Len(stack) \in 0..Len(stack)
    BY <1>1
  <2>3. Grown(stack, Pushed(stack, to), Len(stack), to)
    BY <1>1, PushGrows
  <2> QED
    BY <2>1, <2>2, <2>3, GrownRouted
<1>4. Len(stack) > 1 => Routed(SubSeq(stack, 1, Len(stack) - 1), {})
  BY <1>1 DEF Routed
<1>5. ASSUME NEW c
      PROVE  Routed(ShowRejected(c), {Rejected})
  <2> DEFINE turned == [i \in 1..Len(stack) |-> IF stack[i] = PendingScreen THEN Rejected ELSE stack[i]]
  <2>1. \A i \in 1..Len(stack) : stack[i] \in Route
    BY <1>1
  <2>2. turned \in Seq(Route) /\ Len(turned) = Len(stack)
    BY <1>1, <2>1, Routes
  <2>3. Routed(turned, {Rejected})
    BY <1>1, <2>2 DEF Routed
  <2> QED
    BY <1>2, <2>3 DEF ShowRejected, Routed
<1> QED
  BY <1>2, <1>3, <1>4, <1>5

(* What every navigation keeps. *)
LEMMA GoToKeeps ==
  ASSUME NavTypeOK, CallsPlaced, NEW st, NEW S, Routed(st, S), NEW cs, GoTo(st, cs),
         \A c \in cs : c \in CallType /\ Placed(c)
  PROVE  /\ stack' = st /\ stack' \in Seq(Route) /\ Len(stack') \in 1..MaxStack
         /\ calls' \subseteq CallType /\ CallsPlaced'
         /\ \A d \in calls' : \E c \in cs :
              /\ d.kind = c.kind /\ d.at = c.at
              /\ d.live => c.live /\ Mounted(st, c.at)
         /\ S \cap Inside = {} /\ (\A c \in cs : c \in calls \/ c.kind # "rate") =>
              (Entered' => Entered)
<1>1. stack' = st /\ stack' \in Seq(Route) /\ Len(stack') \in 1..MaxStack
  BY NavigationConstants DEF GoTo, Routed
<1>2. \A d \in calls' : \E c \in cs : d = [c EXCEPT !.live = c.live /\ Mounted(st, c.at)]
  BY DEF GoTo
<1>3. \A c \in cs : /\ c \in CallType
                    /\ (c.live /\ Mounted(st, c.at)) \in BOOLEAN
  BY DEF CallType
<1>4. \A c \in CallType, b \in BOOLEAN :
        /\ [c EXCEPT !.live = b] \in CallType
        /\ [c EXCEPT !.live = b].kind = c.kind /\ [c EXCEPT !.live = b].at = c.at
        /\ [c EXCEPT !.live = b].as = c.as /\ [c EXCEPT !.live = b].live = b
  BY DEF CallType
<1>5. \A d \in calls' : d \in CallType /\ \E c \in cs :
        /\ d.kind = c.kind /\ d.at = c.at /\ d.as = c.as
        /\ d.live = (c.live /\ Mounted(st, c.at))
  <2> SUFFICES ASSUME NEW d \in calls'
               PROVE  d \in CallType /\ \E c \in cs :
                        /\ d.kind = c.kind /\ d.at = c.at /\ d.as = c.as
                        /\ d.live = (c.live /\ Mounted(st, c.at))
    OBVIOUS
  <2>1. PICK c \in cs : d = [c EXCEPT !.live = c.live /\ Mounted(st, c.at)]
    BY <1>2
  <2> DEFINE b == c.live /\ Mounted(st, c.at)
  <2>2. c \in CallType /\ b \in BOOLEAN /\ d = [c EXCEPT !.live = b]
    BY <1>3, <2>1
  <2>3. d \in CallType /\ d.kind = c.kind /\ d.at = c.at /\ d.as = c.as /\ d.live = b
    BY <1>4, <2>2
  <2> QED
    BY <2>3
<1>6. CallsPlaced'
  BY <1>5 DEF CallsPlaced, Placed
<1>7. S \cap Inside = {} /\ (\A c \in cs : c \in calls \/ c.kind # "rate") => (Entered' => Entered)
  BY <1>1, <1>5 DEF Routed, Entered
<1> QED
  BY <1>1, <1>5, <1>6, <1>7

LEMMA HomeStarts ==
  ASSUME NavInit
  PROVE  HomeInv
<1>1. stack \in Seq(Route) /\ Len(stack) = 1 /\ stack[1] = Index
  BY Routes DEF NavInit
<1>2. NavTypeOK
  <2>1. stack \in Seq(Route) /\ Len(stack) \in 1..MaxStack
    BY <1>1, NavigationConstants
  <2>2. who \in Role \cup {NoOne} /\ known \in BOOLEAN /\ (known => who # NoOne)
    BY DEF NavInit
  <2>3. status \in Status /\ calls \subseteq CallType /\ trouble \subseteq AllowTrouble
    BY DEF NavInit
  <2> QED
    BY <2>1, <2>2, <2>3 DEF NavTypeOK
<1>3. Index \notin Inside
  BY DEF Index, Inside, Home, Accept, Chat, Rate
<1> QED
  BY <1>1, <1>2, <1>3 DEF NavInit, HomeInv, CallsPlaced, Entered

(* Among the screens outside there is no way into the volunteers' home. *)
LEMMA OutsideRoutes ==
  /\ {Index, Welcome, ComingSoon, Waiting, PendingScreen, Rejected, ChangePassword, TnS}
       \cap Inside = {}
  /\ {Home("user"), Rate("user"), Chat("user"), Other("user"), Other("volunteer")} \cap Inside = {}
  /\ \A r, p : Auth(r, p) \notin Inside /\ Begin(r, p) \notin Inside
  /\ Rate("user") # Rate("volunteer")
  BY DEF Inside, Home, Accept, Chat, Rate, Index, Welcome, ComingSoon, Waiting, PendingScreen,
     Rejected, ChangePassword, TnS, Other, Auth, Begin, Start

(* No button outside leads into the volunteers' home. *)
LEMMA ExitsOutside == \A x \in Exits : x[2].to \in Inside => x[1] \in Inside
<1> SUFFICES ASSUME NEW x \in Exits, x[2].to \in Inside
             PROVE  x[1] \in Inside
  OBVIOUS
<1>1. /\ x[2].to # Index /\ x[2].to # Welcome /\ x[2].to # ComingSoon /\ x[2].to # Waiting
      /\ x[2].to # TnS /\ x[2].to # ChangePassword
      /\ x[2].to \notin {Home("user"), Rate("user"), Chat("user"), Other("user"), Other("volunteer")}
      /\ \A r, p : x[2].to # Auth(r, p) /\ x[2].to # Begin(r, p)
  BY OutsideRoutes
<1> USE <1>1 DEF From, Push, Replace, Role
<1>2. x \notin WelcomeExits
  BY DEF WelcomeExits
<1>3. x \notin UserSelectLanguage \cup UserSignupNlogin \cup UserSignIn \cup UserSignUp
           \cup UserRegistered \cup UserNotice
  BY DEF UserSelectLanguage, UserSignupNlogin, UserSignIn, UserSignUp, UserRegistered, UserNotice
<1>4. x \notin VolunteerSelectLanguage \cup VolunteerSignupNlogin \cup VolunteerSignIn
           \cup VolunteerRegistered
  BY DEF VolunteerSelectLanguage, VolunteerSignupNlogin, VolunteerSignIn, VolunteerRegistered
<1>5. x \notin VolunteerEnterEmail \cup VolunteerOtp \cup VolunteerNewPassword \cup VolunteerReset
  BY DEF VolunteerEnterEmail, VolunteerOtp, VolunteerNewPassword, VolunteerReset
<1>6. x \notin UserHome \cup UserConnect \cup UserSettings \cup UserProTalk \cup UserGroups
           \cup TnSAgree \cup WaitingExits \cup UserChatExits
  BY DEF UserHome, UserConnect, UserSettings, UserProTalk, UserGroups, TnSAgree, WaitingExits,
              UserChatExits
<1>7. CASE x \in VolunteerHome \cup VolunteerConnect \cup VolunteerSettings \cup VolunteerProTalk
           \cup VolunteerGroups \cup AcceptExits \cup VolunteerChatExits
  BY <1>7 DEF VolunteerHome, VolunteerConnect, VolunteerSettings, VolunteerProTalk,
              VolunteerGroups, AcceptExits, VolunteerChatExits, Inside
<1>8. CASE x \in RateExits
  BY <1>8 DEF RateExits, Inside
<1> QED
  BY <1>2, <1>3, <1>4, <1>5, <1>6, <1>7, <1>8 DEF Exits

LEMMA TroubledKeeps ==
  ASSUME NavTypeOK, NEW ms, Troubled(ms)
  PROVE  trouble' \subseteq AllowTrouble /\ trouble \subseteq trouble' /\ ms \subseteq trouble'
  BY DEF NavTypeOK, Troubled

(* A step that opens no way into the volunteers' home. *)
LEMMA HomeKept ==
  ASSUME HomeInv, stack' \in Seq(Route), Len(stack') \in 1..MaxStack,
         calls' \subseteq CallType, CallsPlaced',
         who' \in Role \cup {NoOne}, known' \in BOOLEAN, known' => who' # NoOne,
         status' \in Status, trouble' \subseteq AllowTrouble, trouble \subseteq trouble',
         status = "approved" => status' = "approved",
         Entered' /\ "ungated" \notin trouble' => Entered \/ status' = "approved"
  PROVE  HomeInv'
<1>1. NavTypeOK'
  BY DEF NavTypeOK
<1>2. Entered' /\ "ungated" \notin trouble' => status' = "approved"
  BY DEF HomeInv
<1> QED
  BY <1>1, <1>2 DEF HomeInv

(* Navigation to routes outside. *)
LEMMA OutsideKept ==
  ASSUME HomeInv, NEW st, NEW S, Routed(st, S), S \cap Inside = {}, NEW cs, GoTo(st, cs),
         \A c \in cs : c \in CallType /\ Placed(c) /\ (c \in calls \/ c.kind # "rate"),
         who' \in Role \cup {NoOne}, known' \in BOOLEAN, known' => who' # NoOne,
         status' \in Status, status = "approved" => status' = "approved",
         trouble' \subseteq AllowTrouble, trouble \subseteq trouble'
  PROVE  HomeInv'
<1>1. NavTypeOK /\ CallsPlaced
  BY DEF HomeInv
<1>2. /\ stack' \in Seq(Route) /\ Len(stack') \in 1..MaxStack
      /\ calls' \subseteq CallType /\ CallsPlaced'
      /\ Entered' => Entered
  BY <1>1, GoToKeeps
<1> QED
  BY <1>2, HomeKept

(* Navigation inside, of a volunteer who is or was let in. *)
LEMMA InsideKept ==
  ASSUME HomeInv, NEW st, NEW S, Routed(st, S), NEW cs, GoTo(st, cs),
         \A c \in cs : c \in CallType /\ Placed(c),
         UNCHANGED <<who, known, status>>,
         trouble' \subseteq AllowTrouble, trouble \subseteq trouble',
         "ungated" \notin trouble' => Entered \/ status = "approved"
  PROVE  HomeInv'
<1>1. NavTypeOK /\ CallsPlaced
  BY DEF HomeInv
<1>2. /\ stack' \in Seq(Route) /\ Len(stack') \in 1..MaxStack
      /\ calls' \subseteq CallType /\ CallsPlaced'
  BY <1>1, GoToKeeps
<1>3. /\ who' \in Role \cup {NoOne} /\ known' \in BOOLEAN /\ (known' => who' # NoOne)
      /\ status' \in Status
  BY <1>1 DEF NavTypeOK
<1> QED
  BY <1>2, <1>3, HomeKept

LEMMA CallsTyped ==
  ASSUME HomeInv
  PROVE  /\ \A c \in calls : c \in CallType /\ Placed(c)
         /\ \A cs : cs \subseteq calls => \A c \in cs : c \in CallType /\ Placed(c) /\ (c \in calls \/ c.kind # "rate")
         /\ who \in Role \cup {NoOne} /\ known \in BOOLEAN /\ (known => who # NoOne)
         /\ status \in Status /\ trouble \subseteq AllowTrouble
         /\ stack \in Seq(Route) /\ Len(stack) \in 1..MaxStack /\ Top \in Route
  BY DEF HomeInv, NavTypeOK, CallsPlaced, Top

LEMMA PressHome ==
  ASSUME HomeInv, Press
  PROVE  HomeInv'
<1>1. PICK x \in Exits : /\ x[1] = Top
                         /\ GoTo(Follow(stack, x[2]), calls)
                         /\ Troubled(When(x \in TestExits, "test_screen"))
  BY DEF Press
<1>2. UNCHANGED <<who, known, status>>
  BY DEF Press
<1>3. NavTypeOK
  BY DEF HomeInv
<1>4. Routed(Follow(stack, x[2]), {x[2].to})
  BY <1>3, ExitRoutes, StacksRouted DEF Follow
<1>5. trouble' \subseteq AllowTrouble /\ trouble \subseteq trouble'
  BY <1>1, <1>3, TroubledKeeps
<1>6. x[2].to \in Inside => Entered
  BY <1>1, <1>3, ExitsOutside DEF Entered, Top, NavTypeOK
<1>7. CASE x[2].to \in Inside
  BY <1>1, <1>2, <1>4, <1>5, <1>6, <1>7, CallsTyped, InsideKept
<1>8. CASE x[2].to \notin Inside
  BY <1>1, <1>2, <1>4, <1>5, <1>8, CallsTyped, OutsideKept
<1> QED
  BY <1>7, <1>8

LEMMA BackHome ==
  ASSUME HomeInv, GoBack
  PROVE  HomeInv'
<1>1. NavTypeOK
  BY DEF HomeInv
<1>2. Routed(SubSeq(stack, 1, Len(stack) - 1), {})
  BY <1>1, StacksRouted DEF GoBack
<1> QED
  BY <1>2, CallsTyped, OutsideKept DEF GoBack

LEMMA RestartHome ==
  ASSUME HomeInv, Restart
  PROVE  HomeInv'
<1>1. stack' \in Seq(Route) /\ Len(stack') \in 1..MaxStack /\ stack'[1] = Index /\ Len(stack') = 1
  BY Routes, NavigationConstants DEF Restart
<1>2. /\ who' \in Role \cup {NoOne} /\ known' = FALSE /\ status' \in Status
      /\ calls' = {} /\ trouble' = {}
  BY CallsTyped DEF Restart
<1>3. NavTypeOK'
  BY <1>1, <1>2 DEF NavTypeOK
<1>4. ~Entered'
  BY <1>1, <1>2, OutsideRoutes DEF Entered
<1> QED
  BY <1>2, <1>3, <1>4 DEF HomeInv, CallsPlaced

(* A call just made is of its kind and place. *)
LEMMA CallMade ==
  ASSUME HomeInv, NEW kind \in CallKind, NEW as \in Role \cup {NoOne}
  PROVE  /\ Call(kind, as) \in CallType
         /\ Call(kind, as).kind = kind /\ Call(kind, as).at = Top /\ Call(kind, as).as = as
  BY CallsTyped DEF Call, CallType

LEMMA RedirectHome ==
  ASSUME HomeInv, Redirect
  PROVE  HomeInv'
<1>1. NavTypeOK /\ Top = Index
  BY DEF HomeInv, Redirect
<1>2. PICK env \in Role \cup {NoOne} :
        LET role == ResolvedRole(env) IN
          /\ CASE role = "volunteer" -> GoTo(stack, calls \cup {Call("gate", NoOne)})
               [] role = "user" -> GoTo(Replaced(stack, Home("user")), calls)
               [] OTHER -> GoTo(Replaced(stack, Welcome), calls)
          /\ Troubled(When(role # who, "env_role"))
  BY DEF Redirect
<1>3. trouble' \subseteq AllowTrouble /\ trouble \subseteq trouble'
  BY <1>1, <1>2, TroubledKeeps
<1>4. UNCHANGED <<who, known, status>>
  BY DEF Redirect
<1>5. CASE GoTo(stack, calls \cup {Call("gate", NoOne)})
  <2> DEFINE cs == calls \cup {Call("gate", NoOne)}
  <2>1. Call("gate", NoOne) \in CallType /\ Placed(Call("gate", NoOne))
        /\ Call("gate", NoOne).kind # "rate"
    BY <1>1, CallMade DEF CallKind, Placed
  <2>2. \A c \in cs : c \in CallType /\ Placed(c) /\ (c \in calls \/ c.kind # "rate")
    BY <2>1, CallsTyped
  <2> HIDE DEF cs
  <2>3. GoTo(stack, cs)
    BY <1>5 DEF cs
  <2>4. Routed(stack, {})
    BY <1>1, StacksRouted
  <2> QED
    BY <1>3, <1>4, <2>2, <2>3, <2>4, CallsTyped, OutsideKept
<1>6. CASE GoTo(Replaced(stack, Home("user")), calls)
  <2>1. Routed(Replaced(stack, Home("user")), {Home("user")})
    BY <1>1, StacksRouted, Routes DEF Role
  <2> QED
    BY <1>3, <1>4, <1>6, <2>1, CallsTyped, OutsideRoutes, OutsideKept
<1>7. CASE GoTo(Replaced(stack, Welcome), calls)
  <2>1. Routed(Replaced(stack, Welcome), {Welcome})
    BY <1>1, StacksRouted, Routes
  <2> QED
    BY <1>3, <1>4, <1>7, <2>1, CallsTyped, OutsideRoutes, OutsideKept
<1> QED
  BY <1>2, <1>5, <1>6, <1>7

(* Signing in leads there without the gate, which is the trouble `ungated`.*)
LEMMA LoginDoneHome ==
  ASSUME HomeInv, LoginDone
  PROVE  HomeInv'
<1> DEFINE r == IF known /\ who = "volunteer" THEN "volunteer" ELSE "user"
<1>1. GoTo(Replaced(stack, Home(r)), calls) /\ Troubled(Ungated(r)) /\ UNCHANGED <<who, known, status>>
  BY DEF LoginDone
<1>2. r \in Role
  BY DEF Role
<1> HIDE DEF r
<1>3. NavTypeOK
  BY DEF HomeInv
<1>4. Routed(Replaced(stack, Home(r)), {Home(r)})
  BY <1>2, <1>3, StacksRouted, Routes
<1>5. trouble' \subseteq AllowTrouble /\ trouble \subseteq trouble' /\ Ungated(r) \subseteq trouble'
  BY <1>1, <1>3, TroubledKeeps
<1>6. CASE r = "volunteer"
  <2>1. "ungated" \notin trouble' => status = "approved"
    BY <1>5, <1>6 DEF Ungated, When
  <2> QED
    BY <1>1, <1>4, <1>5, <2>1, CallsTyped, InsideKept
<1>7. CASE r = "user"
  BY <1>1, <1>4, <1>5, <1>7, CallsTyped, OutsideRoutes, OutsideKept
<1> QED
  BY <1>2, <1>6, <1>7 DEF Role

LEMMA SignOutHome ==
  ASSUME HomeInv, SignOutHere
  PROVE  HomeInv'
<1>1. NavTypeOK
  BY DEF HomeInv
<1>2. Routed(SignedOut(stack), {Welcome})
  BY <1>1, StacksRouted, Routes DEF SignedOut
<1> QED
  BY <1>2, CallsTyped, OutsideRoutes, OutsideKept DEF SignOutHere

LEMMA MatchedHome ==
  ASSUME HomeInv, Matched
  PROVE  HomeInv'
<1>1. NavTypeOK
  BY DEF HomeInv
<1>2. Routed(Pushed(stack, Chat("volunteer")), {Chat("volunteer")})
  BY <1>1, StacksRouted, Routes DEF Role
<1>3. trouble' \subseteq AllowTrouble /\ trouble \subseteq trouble'
  BY <1>1, TroubledKeeps DEF Matched
<1> QED
  BY <1>2, <1>3, CallsTyped, InsideKept DEF Matched

(* Nobody is reviewed once he is in. *)
LEMMA ElsewhereHome ==
  ASSUME HomeInv, Reset \/ Decide
  PROVE  HomeInv'
<1>1. UNCHANGED <<stack, calls>>
  BY DEF Reset, Decide
<1>2. CallsPlaced' /\ (Entered' => Entered) /\ calls' \subseteq CallType
  BY <1>1, CallsTyped DEF CallsPlaced, Entered
<1>3. /\ who' \in Role \cup {NoOne} /\ known' \in BOOLEAN /\ (known' => who' # NoOne)
      /\ status' \in Status
  <2>1. CASE Reset
    BY <2>1, CallsTyped DEF Reset
  <2>2. CASE Decide
    BY <2>2, CallsTyped DEF Decide, Status
  <2> QED
    BY <2>1, <2>2
<1>4. trouble' \subseteq AllowTrouble /\ trouble \subseteq trouble'
  BY CallsTyped, TroubledKeeps DEF Reset, Decide, HomeInv
<1>5. status = "approved" => status' = "approved"
  BY DEF Reset, Decide
<1>6. stack' \in Seq(Route) /\ Len(stack') \in 1..MaxStack
  BY <1>1, CallsTyped
<1> QED
  BY <1>2, <1>3, <1>4, <1>5, <1>6, HomeKept

Taps ==
  \/ TapLogin \/ TapRegister \/ TapApply \/ TapCheck \/ TapLogout \/ TapForgot \/ TapOtp
  \/ TapPassword \/ TapRate

(* A tap makes one call from its screen. *)
LEMMA TapsAsk ==
  ASSUME Taps
  PROVE  \E kind \in CallKind \ {"gate", "mount"}, as \in Role \cup {NoOne} :
           /\ Ask(kind, as)
           /\ \A c : c.kind = kind /\ c.at = Top /\ c.as = as => Placed(c)
<1> USE DEF CallKind, Placed
<1>1. CASE TapLogin
  <2>1. PICK s \in Role, r \in Role : Top = Auth(s, "signIn") /\ Ask("login", r)
    BY <1>1 DEF TapLogin
  <2> QED
    BY <2>1
<1>2. CASE TapRegister
  <2>1. PICK s \in Role : Top = Auth(s, "signUp") /\ Ask("register", s)
    BY <1>2 DEF TapRegister
  <2> QED
    BY <2>1
<1>3. CASE TapApply
  BY <1>3 DEF TapApply
<1>4. CASE TapCheck
  BY <1>4 DEF TapCheck
<1>5. CASE TapLogout
  BY <1>5 DEF TapLogout
<1>6. CASE TapForgot \/ TapOtp
  BY <1>6 DEF TapForgot, TapOtp
<1>7. CASE TapPassword
  BY <1>7 DEF TapPassword
<1>8. CASE TapRate
  BY <1>8 DEF TapRate
<1> QED
  BY <1>1, <1>2, <1>3, <1>4, <1>5, <1>6, <1>7, <1>8 DEF Taps

LEMMA TapsHome ==
  ASSUME HomeInv, Taps
  PROVE  HomeInv'
<1>1. PICK kind \in CallKind \ {"gate", "mount"}, as \in Role \cup {NoOne} :
        /\ Ask(kind, as)
        /\ \A c : c.kind = kind /\ c.at = Top /\ c.as = as => Placed(c)
  BY TapsAsk
<1>2. /\ calls' = calls \cup {Call(kind, as)}
      /\ UNCHANGED <<stack, who, known, status, trouble>>
  BY <1>1 DEF Ask
<1>3. /\ Call(kind, as) \in CallType
      /\ Call(kind, as).kind = kind /\ Call(kind, as).at = Top /\ Call(kind, as).as = as
  BY CallMade
<1>4. Placed(Call(kind, as))
  BY <1>1, <1>3
<1>5. calls' \subseteq CallType
  BY <1>2, <1>3, CallsTyped
<1>6. \A c \in calls' : Placed(c)
  BY <1>2, <1>4, CallsTyped
<1>7. CallsPlaced'
  BY <1>6 DEF CallsPlaced, Placed
<1>8. Entered' => Entered
  <2>1. CASE \E i \in 1..Len(stack') : stack'[i] \in Inside
    BY <1>2, <2>1 DEF Entered
  <2>2. CASE \E c \in calls' : c.kind = "rate" /\ c.at = Rate("volunteer")
    <3>1. PICK c \in calls' : c.kind = "rate" /\ c.at = Rate("volunteer")
      BY <2>2
    <3>2. CASE c \in calls
      BY <3>1, <3>2 DEF Entered
    <3>3. CASE c = Call(kind, as)
      <4>1. stack[Len(stack)] = Rate("volunteer") /\ Len(stack) \in 1..Len(stack)
        <5>1. Top = Rate("volunteer")
          BY <1>3, <3>1, <3>3
        <5>2. Len(stack) \in 1..MaxStack
          BY CallsTyped
        <5> QED
          BY <5>1, <5>2, NavigationConstants DEF Top
      <4> QED
        BY <4>1 DEF Entered, Inside
    <3> QED
      BY <1>2, <3>2, <3>3
  <2> QED
    BY <2>1, <2>2 DEF Entered
<1> QED
  BY <1>2, <1>5, <1>7, <1>8, CallsTyped, HomeKept

LEMMA PendingHome ==
  ASSUME HomeInv, NEW c \in calls, GoToPending(calls \ {c}),
         UNCHANGED <<who, known>>, status' \in Status, status = "approved" => status' = "approved",
         trouble' \subseteq AllowTrouble, trouble \subseteq trouble'
  PROVE  HomeInv'
<1> DEFINE mount == [kind |-> "mount", at |-> PendingScreen, by |-> who, as |-> NoOne, live |-> TRUE]
           cs == (calls \ {c}) \cup {mount}
<1>1. NavTypeOK
  BY DEF HomeInv
<1>2. mount \in CallType /\ Placed(mount) /\ mount.kind # "rate"
  BY CallsTyped, Routes DEF CallType, CallKind, Placed
<1>3. GoTo(Replaced(stack, PendingScreen), cs)
  BY DEF GoToPending
<1> HIDE DEF mount
<1>4. \A d \in cs : d \in CallType /\ Placed(d) /\ (d \in calls \/ d.kind # "rate")
  BY <1>2, CallsTyped
<1> HIDE DEF cs
<1>5. Routed(Replaced(stack, PendingScreen), {PendingScreen})
  BY <1>1, StacksRouted, Routes
<1>6. who' \in Role \cup {NoOne} /\ known' \in BOOLEAN /\ (known' => who' # NoOne)
  BY CallsTyped
<1> QED
  BY <1>3, <1>4, <1>5, <1>6, OutsideRoutes, OutsideKept

LEMMA GateHome ==
  ASSUME HomeInv, NEW c \in calls, GateAnswered(c)
  PROVE  HomeInv'
<1>1. NavTypeOK /\ Troubled(Late(c)) /\ UNCHANGED <<who, known, status>>
  BY DEF HomeInv, GateAnswered
<1>2. trouble' \subseteq AllowTrouble /\ trouble \subseteq trouble'
  BY <1>1, TroubledKeeps
<1>3. PICK answer \in Answers(c) :
        IF answer = "failed" /\ GateTarget(answer) = PendingScreen
        THEN GoToPending(calls \ {c})
        ELSE GoTo(Replaced(stack, GateTarget(answer)), calls \ {c})
  BY DEF GateAnswered
<1>4. answer = "approved" => status = "approved"
  BY DEF Answers
<1>5. CASE GoToPending(calls \ {c})
  <2>1. status' \in Status /\ (status = "approved" => status' = "approved")
    BY <1>1, CallsTyped
  <2> QED
    BY <1>1, <1>2, <1>5, <2>1, PendingHome
<1>6. CASE GoTo(Replaced(stack, GateTarget(answer)), calls \ {c})
  <2>1. GateTarget(answer) \in {Home("volunteer"), Rejected, PendingScreen}
        /\ (GateTarget(answer) = Home("volunteer") => status = "approved")
    BY <1>4 DEF GateTarget, Rejected, PendingScreen, Home
  <2>2. Routed(Replaced(stack, GateTarget(answer)), {GateTarget(answer)})
    BY <1>1, <2>1, StacksRouted, Routes DEF Role
  <2>3. CASE status = "approved"
    BY <1>1, <1>2, <1>6, <2>2, <2>3, CallsTyped, InsideKept
  <2>4. CASE GateTarget(answer) \in {Rejected, PendingScreen}
    BY <1>1, <1>2, <1>6, <2>2, <2>4, CallsTyped, OutsideRoutes, OutsideKept
  <2> QED
    BY <2>1, <2>3, <2>4
<1> QED
  BY <1>3, <1>5, <1>6

LEMMA CheckHome ==
  ASSUME HomeInv, NEW c \in calls, CheckAnswered(c)
  PROVE  HomeInv'
<1>1. NavTypeOK /\ UNCHANGED <<who, known, status>>
  BY DEF HomeInv, CheckAnswered
<1>2. PICK answer \in Answers(c) :
       /\ CASE answer = "approved" -> GoTo(Replaced(stack, Home("volunteer")), calls \ {c})
            [] answer = "rejected" -> GoTo(ShowRejected(c), calls \ {c})
            [] OTHER -> GoTo(stack, calls \ {c})
       /\ Troubled(When(answer = "approved" /\ (~c.live \/ c.at # Top), "late"))
  BY DEF CheckAnswered
<1>3. trouble' \subseteq AllowTrouble /\ trouble \subseteq trouble'
  BY <1>1, <1>2, TroubledKeeps
<1>4. CASE answer = "approved"
  <2>1. status = "approved"
    BY <1>4 DEF Answers
  <2>2. Routed(Replaced(stack, Home("volunteer")), {Home("volunteer")})
    BY <1>1, StacksRouted, Routes DEF Role
  <2> QED
    BY <1>1, <1>2, <1>3, <1>4, <2>1, <2>2, CallsTyped, InsideKept
<1>5. CASE answer = "rejected"
  <2>1. Routed(ShowRejected(c), {Rejected}) /\ GoTo(ShowRejected(c), calls \ {c})
    BY <1>1, <1>2, <1>5, StacksRouted
  <2> QED
    BY <1>1, <1>3, <2>1, CallsTyped, OutsideRoutes, OutsideKept
<1>6. CASE answer \notin {"approved", "rejected"}
  <2>1. Routed(stack, {}) /\ GoTo(stack, calls \ {c})
    BY <1>1, <1>2, <1>6, StacksRouted
  <2> QED
    BY <1>1, <1>3, <2>1, CallsTyped, OutsideKept
<1> QED
  BY <1>4, <1>5, <1>6

LEMMA ApplyHome ==
  ASSUME HomeInv, NEW c \in calls, ApplyAnswered(c)
  PROVE  HomeInv'
<1>1. NavTypeOK /\ UNCHANGED <<who, known>> /\ status' = "pending" /\ status # "approved"
  BY DEF HomeInv, ApplyAnswered
<1>2. trouble' \subseteq AllowTrouble /\ trouble \subseteq trouble'
  BY <1>1, TroubledKeeps DEF ApplyAnswered
<1>3. CASE GoToPending(calls \ {c})
  BY <1>1, <1>2, <1>3, PendingHome DEF Status
<1>4. CASE GoTo(stack, calls \ {c})
  <2>1. Routed(stack, {})
    BY <1>1, StacksRouted
  <2>2. status' \in Status
    BY <1>1 DEF Status
  <2> QED
    BY <1>1, <1>2, <1>4, <2>1, <2>2, CallsTyped, OutsideKept
<1> QED
  BY <1>3, <1>4 DEF ApplyAnswered

(* The answers that lead to screens outside, or back. *)
LEMMA SignedInHome ==
  ASSUME HomeInv, NEW c \in calls, LoginAnswered(c) \/ RegisterAnswered(c) \/ LogoutAnswered(c)
  PROVE  HomeInv'
<1>1. NavTypeOK /\ c \in CallType /\ Placed(c) /\ status' = status /\ Troubled(Late(c))
  BY CallsTyped DEF HomeInv, LoginAnswered, RegisterAnswered, LogoutAnswered
<1>2. trouble' \subseteq AllowTrouble /\ trouble \subseteq trouble'
  BY <1>1, TroubledKeeps
<1>3. PICK st, to : to \in Route /\ GoTo(st, calls \ {c}) /\ Routed(st, {to}) /\ to \notin Inside
  <2>1. CASE LoginAnswered(c)
    <3>1. PICK r \in Role : c.at = Auth(r, "signIn")
      BY <1>1, <2>1 DEF LoginAnswered, Placed
    <3>2. <<c.at[1], "authScreens", "loginSuccessful">> = Auth(r, "loginSuccessful")
      BY <3>1 DEF Auth
    <3>3. Auth(r, "loginSuccessful") \in Route
      BY Routes DEF AuthPage
    <3>4. Routed(Replaced(stack, Auth(r, "loginSuccessful")), {Auth(r, "loginSuccessful")})
      BY <1>1, <3>3, StacksRouted
    <3>5. Auth(r, "loginSuccessful") \notin Inside
      BY OutsideRoutes
    <3>6. GoTo(Replaced(stack, Auth(r, "loginSuccessful")), calls \ {c})
      BY <2>1, <3>2 DEF LoginAnswered
    <3> QED
      BY <3>3, <3>4, <3>5, <3>6
  <2>2. CASE RegisterAnswered(c)
    <3>1. c.as \in Role
      BY <1>1, <2>2 DEF RegisterAnswered, Placed
    <3>2. \A r \in Role : Auth(r, "registerSuccessful") \in Route /\ Auth(r, "signIn") \in Route
      BY Routes DEF AuthPage
    <3>3. /\ Auth("user", "registerSuccessful") \in Route
          /\ Auth("volunteer", "registerSuccessful") \in Route /\ Auth(c.as, "signIn") \in Route
      BY <3>1, <3>2 DEF Role
    <3>4. \/ GoTo(Replaced(stack, Auth("user", "registerSuccessful")), calls \ {c})
          \/ GoTo(Pushed(stack, Auth("volunteer", "registerSuccessful")), calls \ {c})
          \/ GoTo(Replaced(stack, Auth(c.as, "signIn")), calls \ {c})
      BY <2>2 DEF RegisterAnswered
    <3>5. \A to \in Route : Routed(Replaced(stack, to), {to}) /\ Routed(Pushed(stack, to), {to})
      BY <1>1, StacksRouted
    <3>6. \A p, r : Auth(r, p) \notin Inside
      BY OutsideRoutes
    <3> HIDE DEF Auth
    <3> QED
      BY <3>3, <3>4, <3>5, <3>6
  <2>3. CASE LogoutAnswered(c)
    <3>1. Routed(Replaced(stack, Welcome), {Welcome}) /\ Welcome \in Route /\ Welcome \notin Inside
      BY <1>1, StacksRouted, Routes, OutsideRoutes
    <3>2. GoTo(Replaced(stack, Welcome), calls \ {c})
      BY <2>3 DEF LogoutAnswered, SignedOut
    <3> QED
      BY <3>1, <3>2
  <2> QED
    BY <2>1, <2>2, <2>3
<1>4. who' \in Role \cup {NoOne} /\ known' \in BOOLEAN /\ (known' => who' # NoOne)
  <2>1. CASE who' = c.as /\ known' = TRUE /\ c.as \in Role
    BY <2>1, NavigationConstants
  <2>2. CASE who' = NoOne /\ known' = FALSE
    BY <2>2
  <2> QED
    BY <1>1, <2>1, <2>2 DEF LoginAnswered, RegisterAnswered, LogoutAnswered, Placed
<1> QED
  BY <1>1, <1>2, <1>3, <1>4, CallsTyped, OutsideKept

LEMMA OnwardHome ==
  ASSUME HomeInv, NEW c \in calls,
         ForgotAnswered(c) \/ PasswordAnswered(c) \/ CallFailed(c)
  PROVE  HomeInv'
<1>1. NavTypeOK /\ UNCHANGED <<who, known, status>>
  BY DEF HomeInv, ForgotAnswered, PasswordAnswered, CallFailed
<1>2. trouble' \subseteq AllowTrouble /\ trouble \subseteq trouble'
  BY <1>1, CallsTyped, TroubledKeeps DEF ForgotAnswered, PasswordAnswered, CallFailed
<1>3. PICK st, S : GoTo(st, calls \ {c}) /\ Routed(st, S) /\ S \cap Inside = {}
  <2>1. CASE ForgotAnswered(c)
    <3> DEFINE to == Auth("user", IF c.kind = "forgot" THEN "OTPVerification" ELSE "CreateNewPassword")
    <3>1. to \in Route /\ to \notin Inside
      BY Routes, OutsideRoutes DEF AuthPage, Role
    <3> HIDE DEF to
    <3>2. Routed(Pushed(stack, to), {to})
      BY <1>1, <3>1, StacksRouted
    <3>3. GoTo(Pushed(stack, to), calls \ {c})
      BY <2>1 DEF ForgotAnswered, to
    <3> QED
      BY <3>1, <3>2, <3>3
  <2>2. CASE PasswordAnswered(c)
    BY <1>1, <2>2, StacksRouted DEF PasswordAnswered
  <2>3. CASE CallFailed(c)
    BY <1>1, <2>3, StacksRouted DEF CallFailed
  <2> QED
    BY <2>1, <2>2, <2>3
<1> QED
  BY <1>1, <1>2, <1>3, CallsTyped, OutsideKept

(* A rating leads back to the home of whoever rates. *)
LEMMA RatedHome ==
  ASSUME HomeInv, NEW c \in calls, RateAnswered(c)
  PROVE  HomeInv'
<1>1. /\ NavTypeOK /\ Placed(c) /\ c.kind = "rate" /\ UNCHANGED <<who, known, status>>
      /\ Troubled(Late(c)) /\ GoTo(Replaced(stack, Home(c.at[1])), calls \ {c})
  BY CallsTyped DEF HomeInv, RateAnswered
<1>2. trouble' \subseteq AllowTrouble /\ trouble \subseteq trouble'
  BY <1>1, TroubledKeeps
<1>3. PICK r \in Role : c.at = Rate(r)
  BY <1>1 DEF Placed
<1>4. c.at[1] = r
  BY <1>3 DEF Rate
<1>5. Routed(Replaced(stack, Home(r)), {Home(r)})
  BY <1>1, StacksRouted, Routes
<1>6. CASE r = "volunteer"
  <2>1. Entered
    BY <1>1, <1>3, <1>6 DEF Entered
  <2> QED
    BY <1>1, <1>2, <1>4, <1>5, <2>1, CallsTyped, InsideKept
<1>7. CASE r = "user"
  BY <1>1, <1>2, <1>4, <1>5, <1>7, CallsTyped, OutsideRoutes, OutsideKept
<1> QED
  BY <1>6, <1>7 DEF Role

LEMMA HomeStays ==
  ASSUME HomeInv, [NavNext]_navVars
  PROVE  HomeInv'
<1>1. CASE UNCHANGED navVars
  BY <1>1 DEF navVars, HomeInv, NavTypeOK, CallsPlaced, Placed, Entered
<1>2. ASSUME NEW c \in calls, Answered(c)
      PROVE  HomeInv'
  BY <1>2, GateHome, CheckHome, ApplyHome, SignedInHome, OnwardHome, RatedHome DEF Answered
<1> QED
  BY <1>1, <1>2, RestartHome, PressHome, BackHome, RedirectHome, LoginDoneHome, SignOutHome,
     MatchedHome, ElsewhereHome, TapsHome DEF NavNext, Taps

LEMMA HomeInvAlways == NavSpec => []HomeInv
<1>1. NavInit => HomeInv
  BY HomeStarts
<1>2. HomeInv /\ [NavNext]_navVars => HomeInv'
  BY HomeStays
<1> QED
  BY <1>1, <1>2, PTL DEF NavSpec

(* Nobody is in the volunteers' home before he is approved, unless by      *)
(* signing in: neither from the splash screen or the pending screen, with  *)
(* answers that come late, nor from a session, a rating or a match, and    *)
(* whatever buttons he taps.                                               *)
THEOREM HomeGated == NavSpec => []HomeIsVerified
<1>1. HomeInv => HomeIsVerified
  BY DEF HomeInv, HomeIsVerified, Entered, Inside
<1> QED
  BY <1>1, HomeInvAlways, PTL

-----------------------------------------------------------------------------
(* Navigation: the screens of an account that has signed out are gone.     *)

Clean == trouble \cap {"late", "reset", "env_role", "test_screen", "split"} = {}

OfRole(route) == route[1] \in Role

(* The screens between signing in, registering or applying and the home. *)
Ending(route) ==
  route \in {Auth(r, p) : r \in Role, p \in {"loginSuccessful", "registerSuccessful"}}
              \cup {Begin("user", "specialnotice"), Auth("volunteer", "verify")}

(* The screens of a role are all in one entry of the root, and lie on top  *)
(* of the others; only the page coming-soon may lie on them.               *)
RoleScreens ==
  \A i \in 1..Len(stack) : OfRole(stack[i]) =>
    /\ stack[i][1] = who /\ Len(stack[i]) > 1
    /\ \A j \in i..Len(stack) : OfRole(stack[j]) \/ (j = Len(stack) /\ stack[j] = ComingSoon)

EndsOnTop == \A i \in 1..Len(stack) : Ending(stack[i]) => i = Len(stack)

(* ... where it is known who has signed in. *)
EndsKnown ==
  /\ Top \in {Auth(r, "loginSuccessful") : r \in Role} => known
  /\ Top \in {Auth("user", "registerSuccessful"), Begin("user", "specialnotice")} => who = "user"
  /\ Top \in {Auth("volunteer", "registerSuccessful"), Auth("volunteer", "verify")} =>
       who = "volunteer"

(* The gate is heard on the splash screen, by the volunteer it is for. *)
GatesKnown ==
  \A c \in calls : c.kind = "gate" /\ c.live => Top[1] = "index" /\ who = "volunteer"

Own == RoleScreens /\ EndsOnTop /\ EndsKnown /\ GatesKnown

LEMMA Roots ==
  /\ \A r \in Role : \A x \in {Home(r), Chat(r), Rate(r), Other(r)} : x[1] = r /\ Len(x) > 1
  /\ \A x \in {Waiting, ChangePassword, TnS} : x[1] = "user" /\ Len(x) > 1
  /\ \A x \in {Accept, PendingScreen, Rejected} : x[1] = "volunteer" /\ Len(x) > 1
  /\ \A x \in {Index, Welcome, ComingSoon} : ~OfRole(x) /\ ~Ending(x)
  /\ \A r, p : ~OfRole(Auth(r, p)) /\ ~OfRole(Begin(r, p))
  /\ \A r, p : Auth(r, p)[1] # "index" /\ Begin(r, p)[1] # "index"
  /\ \A r, p : Auth(r, p) # ComingSoon /\ Begin(r, p) # ComingSoon
  /\ Index # ComingSoon /\ Welcome # ComingSoon
  /\ Index[1] = "index" /\ Welcome[1] # "index" /\ ComingSoon[1] # "index"
  BY DEF Home, Accept, Chat, Rate, Index, Welcome, ComingSoon, Waiting, PendingScreen,
     Rejected, ChangePassword, TnS, Other, Auth, Begin, Start, OfRole, Ending, Role

LEMMA EndingsApart ==
  /\ \A x : OfRole(x) => ~Ending(x)
  /\ \A r, p : Ending(Auth(r, p)) =>
       p \in {"loginSuccessful", "registerSuccessful", "verify"}
  /\ \A r, p : Ending(Begin(r, p)) => p = "specialnotice"
  /\ Auth("user", "registerSuccessful") # Begin("user", "specialnotice")
  /\ \A r, s \in Role : \A p, q : Auth(r, p) = Auth(s, q) => r = s /\ p = q
  /\ \A r, s \in Role : \A p, q : Auth(r, p) # Begin(s, q)
<1>1. \A r, s, p, q : Auth(r, p) # Begin(s, q)
  BY DEF Auth, Begin
<1>2. \A r, s \in Role : \A p, q : Auth(r, p) = Auth(s, q) => r = s /\ p = q
  BY DEF Auth, Start, Role
<1>3. \A r, p : Ending(Begin(r, p)) => p = "specialnotice"
  BY <1>1 DEF Ending, Begin
<1>4. \A r, p : Ending(Auth(r, p)) => p \in {"loginSuccessful", "registerSuccessful", "verify"}
  BY <1>1 DEF Ending, Auth
<1>5. \A x : OfRole(x) => ~Ending(x)
  BY Roots DEF Ending
<1> QED
  BY <1>1, <1>2, <1>3, <1>4, <1>5

(* What a button does: it stays among the screens of a role, or shows what *)
(* is not built yet, or stays outside, or enters the home of a seeker.     *)
StaysInRole(a, e) == OfRole(a) /\ e.to[1] = a[1] /\ Len(e.to) > 1
ShowsSoon(a, e) == OfRole(a) /\ e = Push(ComingSoon)
StaysOutside(a, e) ==
  /\ ~OfRole(a) /\ a # ComingSoon /\ ~OfRole(e.to) /\ e.to # ComingSoon
  /\ e.to[1] # "index" /\ (e.how = "push" => ~Ending(a))
  /\ Ending(e.to) =>
       \/ a = Auth("user", "registerSuccessful") /\ e.to = Begin("user", "specialnotice")
       \/ a = Auth("volunteer", "registerSuccessful") /\ e.to = Auth("volunteer", "verify")
EntersHome(a, e) == a = Begin("user", "specialnotice") /\ e = Replace(Home("user"))

LEMMA ExitKinds ==
  \A x \in Exits :
    \/ x \in TestExits \/ StaysInRole(x[1], x[2]) \/ ShowsSoon(x[1], x[2])
    \/ StaysOutside(x[1], x[2]) \/ EntersHome(x[1], x[2])
<1> SUFFICES ASSUME NEW x \in Exits, x \notin TestExits
             PROVE  \/ StaysInRole(x[1], x[2]) \/ ShowsSoon(x[1], x[2])
                    \/ StaysOutside(x[1], x[2]) \/ EntersHome(x[1], x[2])
  OBVIOUS
<1>0. /\ Welcome[1] = "start/welcome" /\ ~OfRole(Welcome) /\ Welcome # ComingSoon
      /\ ~Ending(Welcome)
      /\ \A r, p : ~OfRole(Begin(r, p)) /\ Begin(r, p) # ComingSoon /\ Begin(r, p)[1] # "index"
      /\ \A r, p : ~OfRole(Auth(r, p)) /\ Auth(r, p) # ComingSoon /\ Auth(r, p)[1] # "index"
  BY Roots DEF Welcome
<1>00. /\ \A y \in {Home("user"), Chat("user"), Rate("user"), Other("user"), Waiting, ChangePassword, TnS} :
            y[1] = "user" /\ Len(y) > 1
       /\ \A y \in {Home("volunteer"), Chat("volunteer"), Rate("volunteer"), Other("volunteer"), Accept} :
            y[1] = "volunteer" /\ Len(y) > 1
  BY DEF Home, Chat, Rate, Other, Waiting, ChangePassword, TnS, Accept
<1> USE DEF From, Push, Replace, Role
<1>1. CASE x \in WelcomeExits \cup UserSelectLanguage \cup VolunteerSelectLanguage
  BY <1>0, <1>1, EndingsApart
     DEF WelcomeExits, UserSelectLanguage, VolunteerSelectLanguage, StaysOutside
<1>2. CASE x \in UserSignupNlogin \cup UserSignIn \cup UserSignUp
  BY <1>0, <1>2, EndingsApart DEF UserSignupNlogin, UserSignIn, UserSignUp, StaysOutside
<1>3. CASE x \in VolunteerSignupNlogin \cup VolunteerSignIn
  BY <1>0, <1>3, EndingsApart DEF VolunteerSignupNlogin, VolunteerSignIn, StaysOutside
<1>4. CASE x \in UserRegistered \cup VolunteerRegistered
  BY <1>0, <1>4, EndingsApart DEF UserRegistered, VolunteerRegistered, StaysOutside
<1>5. CASE x \in UserNotice
  BY <1>5 DEF UserNotice, EntersHome
<1>6. CASE x \in VolunteerEnterEmail \cup VolunteerOtp \cup VolunteerNewPassword \cup VolunteerReset
  BY <1>0, <1>6, EndingsApart
     DEF VolunteerEnterEmail, VolunteerOtp, VolunteerNewPassword, VolunteerReset, StaysOutside
<1>7. CASE x \in UserHome \cup VolunteerHome
  BY <1>00, <1>7 DEF UserHome, VolunteerHome, ShowsSoon, OfRole
<1>8. CASE x \in UserConnect \cup UserSettings \cup UserProTalk \cup WaitingExits \cup UserChatExits
  BY <1>00, <1>8 DEF UserConnect, UserSettings, UserProTalk, WaitingExits, UserChatExits,
     StaysInRole, OfRole
<1>9. CASE x \in VolunteerConnect \cup VolunteerSettings \cup AcceptExits \cup VolunteerChatExits
  BY <1>00, <1>9 DEF VolunteerConnect, VolunteerSettings, AcceptExits, VolunteerChatExits,
     StaysInRole, OfRole
<1>10. CASE x \in RateExits
  <2>1. PICK r \in Role : x \in From(Rate(r), {Replace(Home(r))})
    BY <1>10 DEF RateExits
  <2>2. x[1] = Rate(r) /\ x[2].to = Home(r)
    BY <2>1
  <2>3. Rate(r)[1] = r /\ Home(r)[1] = r /\ Len(Home(r)) > 1
    BY <1>00
  <2> QED
    BY <2>2, <2>3 DEF StaysInRole, OfRole
<1>11. CASE x \in UserGroups \cup VolunteerGroups \cup VolunteerProTalk \cup TnSAgree
  <2>1. x[2].to[1] = x[1][1] \/ x[2].to = ComingSoon
    BY <1>11 DEF TestExits
  <2>2. OfRole(x[1]) /\ x[2] = Push(x[2].to)
    BY <1>00, <1>11 DEF UserGroups, VolunteerGroups, VolunteerProTalk, TnSAgree, OfRole
  <2>3. CASE x[2].to = ComingSoon
    BY <2>2, <2>3 DEF ShowsSoon
  <2>4. CASE x[2].to[1] = x[1][1]
    <3>1. OfRole(x[2].to)
      BY <2>2, <2>4 DEF OfRole
    <3>2. x[2].to \notin {Welcome, Index, ComingSoon} /\ \A r, p : x[2].to # Auth(r, p)
      BY <3>1, Roots
    <3>3. Len(x[2].to) > 1
      BY <1>00, <1>11, <3>2 DEF UserGroups, VolunteerGroups, VolunteerProTalk, TnSAgree
    <3> QED
      BY <2>2, <2>4, <3>3 DEF StaysInRole
  <2> QED
    BY <2>1, <2>3, <2>4
<1> QED
  BY <1>1, <1>2, <1>3, <1>4, <1>5, <1>6, <1>7, <1>8, <1>9, <1>10, <1>11 DEF Exits

LEMMA RouteLengths == \A x \in Route : Len(x) \in Nat
  BY DEF Route, Index, Welcome, ComingSoon, Waiting, Accept, PendingScreen, Rejected,
     ChangePassword, TnS, Home, Chat, Rate, Other, Auth, Begin

(* A route laid on the first k of the stack. *)
LEMMA GrownOwn ==
  ASSUME NavTypeOK, RoleScreens, EndsOnTop,
         NEW to, NEW k \in 0..Len(stack), Grown(stack, stack', k, to), k = Len(stack) => ~Ending(Top),
         \/ /\ \A i \in 1..k : ~OfRole(stack[i])
            /\ OfRole(to) => to[1] = who' /\ Len(to) > 1
         \/ /\ who' = who /\ OfRole(to) /\ to[1] = who /\ Len(to) > 1
            /\ k = Len(stack) => OfRole(Top)
         \/ /\ who' = who /\ to = ComingSoon /\ ~OfRole(to) /\ OfRole(Top)
  PROVE  RoleScreens' /\ EndsOnTop' /\ Top' = to /\ Len(stack') = k + 1
<1>1. /\ Len(stack) \in Nat /\ k \in Nat /\ k <= Len(stack) /\ Len(stack') = k + 1
      /\ stack'[k + 1] = to /\ \A i \in 1..k : stack'[i] = stack[i]
  BY DEF NavTypeOK, Grown
<1>2. Top' = to
  BY <1>1 DEF Top
<1>3. EndsOnTop'
  <2> SUFFICES ASSUME NEW i \in 1..(k + 1), i # k + 1
               PROVE  ~Ending(stack'[i])
    BY <1>1 DEF EndsOnTop, Ending
  <2>1. i \in 1..k /\ i \in 1..Len(stack) /\ stack'[i] = stack[i]
    BY <1>1
  <2>2. CASE i = Len(stack)
    BY <1>1, <2>1, <2>2 DEF Top
  <2>3. CASE i # Len(stack)
    BY <2>1, <2>3 DEF EndsOnTop
  <2> QED
    BY <2>2, <2>3
<1>4. RoleScreens'
  <2> SUFFICES ASSUME NEW i \in 1..(k + 1), OfRole(stack'[i]), NEW j \in i..(k + 1)
               PROVE  /\ stack'[i][1] = who' /\ Len(stack'[i]) > 1
                      /\ OfRole(stack'[j]) \/ (j = k + 1 /\ stack'[j] = ComingSoon)
    BY <1>1 DEF RoleScreens, OfRole
  <2>1. \A n \in 1..k : OfRole(stack[n]) =>
          /\ stack[n][1] = who /\ Len(stack[n]) > 1
          /\ \A m \in n..k : OfRole(stack[m]) \/ (m = Len(stack) /\ stack[m] = ComingSoon)
    BY <1>1 DEF RoleScreens
  <2>2. CASE /\ \A n \in 1..k : ~OfRole(stack[n])
             /\ OfRole(to) => to[1] = who' /\ Len(to) > 1
    <3>1. i = k + 1 /\ j = k + 1
      BY <1>1, <2>2
    <3> QED
      BY <1>1, <2>2, <3>1
  <2>3. CASE /\ who' = who /\ OfRole(to) /\ to[1] = who /\ Len(to) > 1
             /\ k = Len(stack) => OfRole(Top)
    <3>1. \A m \in 1..k : m = Len(stack) => OfRole(stack[m])
      BY <1>1, <2>3 DEF Top
    <3>2. j = k + 1 \/ j \in i..k
      BY <1>1
    <3>3. i = k + 1 \/ i \in 1..k
      BY <1>1
    <3> QED
      BY <1>1, <2>1, <2>3, <3>1, <3>2, <3>3
  <2>4. CASE who' = who /\ to = ComingSoon /\ ~OfRole(to) /\ OfRole(Top)
    <3>1. \A m \in 1..k : m = Len(stack) => OfRole(stack[m])
      BY <1>1, <2>4 DEF Top
    <3>2. j = k + 1 \/ j \in i..k
      BY <1>1
    <3>3. i \in 1..k
      BY <1>1, <2>4
    <3> QED
      BY <1>1, <2>1, <2>4, <3>1, <3>2, <3>3
  <2> QED
    BY <2>2, <2>3, <2>4
<1> QED
  BY <1>1, <1>2, <1>3, <1>4

(* Outside the screens of a role there are none below either. *)
LEMMA NoneBelow ==
  ASSUME NavTypeOK, RoleScreens, ~OfRole(Top), Top # ComingSoon
  PROVE  \A i \in 1..Len(stack) : ~OfRole(stack[i])
<1>1. Len(stack) \in Nat /\ Len(stack) > 0
  BY DEF NavTypeOK
<1> QED
  BY <1>1 DEF RoleScreens, Top

(* Signing out takes all the screens of the role away. *)
LEMMA SignedOutClears ==
  ASSUME NavTypeOK, RoleScreens, OfRole(Top)
  PROVE  \E k \in 0..(Len(stack) - 1) :
           Grown(stack, SignedOut(stack), k, Welcome) /\ \A i \in 1..k : ~OfRole(stack[i])
<1>1. stack \in Seq(Route) /\ Len(stack) \in Nat /\ Len(stack) > 0
  BY DEF NavTypeOK
<1>2. PICK k \in 0..(Len(stack) - 1) :
        /\ Grown(stack, Replaced(stack, Welcome), k, Welcome)
        /\ \A n \in 1..(Len(stack) - 1) :
             (\A m \in n..(Len(stack) - 1) :
                SameEntry(stack[m], stack[Len(stack)], Shared(stack[Len(stack)], Welcome))) => k < n
  BY <1>1, Routes, ReplaceGrows
<1>3. Top[1] = who /\ Len(Top) > 1
  BY <1>1 DEF RoleScreens, Top
<1>4. Shared(Top, Welcome) = 0
  <2> DEFINE Both(n) ==
        /\ n < Len(Top) /\ n < Len(Welcome) /\ \A i \in 1..n : Top[i] = Welcome[i]
        /\ ~(n + 1 < Len(Top) /\ n + 1 < Len(Welcome) /\ Top[n + 1] = Welcome[n + 1])
  <2>1. Len(Welcome) = 1
    BY DEF Welcome
  <2>2. Top \in Route
    BY <1>1 DEF Top
  <2>3. Len(Top) \in Nat
    BY <2>2, RouteLengths
  <2>4. 0 \in 0..Len(Top) /\ Both(0)
    BY <1>3, <2>1, <2>3
  <2>5. \A n \in 0..Len(Top) : Both(n) => n = 0
    BY <2>1, <2>3
  <2>6. Shared(Top, Welcome) = CHOOSE n \in 0..Len(Top) : Both(n)
    BY DEF Shared
  <2> HIDE DEF Both
  <2> QED
    BY <2>4, <2>5, <2>6
<1>5. ASSUME NEW i \in 1..k, OfRole(stack[i])
      PROVE  FALSE
  <2>1. i \in 1..(Len(stack) - 1) /\ i \in 1..Len(stack)
    BY <1>1
  <2>2. \A m \in i..(Len(stack) - 1) : OfRole(stack[m]) /\ m \in 1..Len(stack)
    BY <1>1, <1>5, <2>1 DEF RoleScreens
  <2>3. \A m \in i..(Len(stack) - 1) : stack[m][1] = who /\ Len(stack[m]) > 1
    BY <2>2 DEF RoleScreens
  <2>4. \A m \in i..(Len(stack) - 1) : SameEntry(stack[m], Top, 0)
    BY <1>3, <2>3 DEF SameEntry
  <2>5. k < i
    BY <1>2, <1>4, <2>1, <2>4 DEF Top
  <2> QED
    BY <1>2, <2>1, <2>5
<1> QED
  BY <1>2, <1>5 DEF SignedOut

(* The gate's calls that are still heard. *)
LEMMA GatesStay ==
  ASSUME NavTypeOK, CallsPlaced, GatesKnown, NEW st, NEW S, Routed(st, S), NEW cs, GoTo(st, cs),
         \A c \in cs : c \in CallType /\ Placed(c) /\ (c \in calls \/ c.kind # "gate" \/ who' = "volunteer"),
         who' = who \/ Top[1] # "index"
  PROVE  GatesKnown'
<1>1. stack' = st /\ \A d \in calls' : \E c \in cs :
        d.kind = c.kind /\ d.at = c.at /\ (d.live => c.live /\ Mounted(st, c.at))
  BY GoToKeeps
<1>2. ASSUME NEW d \in calls', d.kind = "gate", d.live
      PROVE  Top'[1] = "index" /\ who' = "volunteer"
  <2>1. PICK c \in cs : c.kind = "gate" /\ c.live /\ Mounted(st, c.at)
    BY <1>1, <1>2
  <2>2. c.at = Index
    BY <2>1 DEF Placed
  <2>3. Top'[1] = "index"
    BY <1>1, <2>1, <2>2, Roots DEF Mounted, Top, Routed
  <2>4. who' = "volunteer"
    BY <2>1 DEF GatesKnown
  <2> QED
    BY <2>3, <2>4
<1> QED
  BY <1>2 DEF GatesKnown

LEMMA Troubling ==
  ASSUME NavTypeOK, NEW ms, Troubled(ms), Clean'
  PROVE  Clean /\ ms \cap {"late", "reset", "env_role", "test_screen", "split"} = {}
  BY TroubledKeeps DEF Clean

(* An action that lays a route on the stack. *)
LEMMA LaidOwn ==
  ASSUME NavTypeOK, CallsPlaced, RoleScreens, EndsOnTop, GatesKnown,
         NEW st, NEW to \in Route, NEW k \in 0..Len(stack), Grown(stack, st, k, to),
         k = Len(stack) => ~Ending(Top),
         NEW cs, GoTo(st, cs),
         \A c \in cs : c \in CallType /\ Placed(c) /\ (c \in calls \/ c.kind # "gate" \/ who' = "volunteer"),
         who' = who \/ Top[1] # "index",
         \/ /\ \A i \in 1..k : ~OfRole(stack[i])
            /\ OfRole(to) => to[1] = who' /\ Len(to) > 1
         \/ /\ who' = who /\ OfRole(to) /\ to[1] = who /\ Len(to) > 1
            /\ k = Len(stack) => OfRole(Top)
         \/ /\ who' = who /\ to = ComingSoon /\ ~OfRole(to) /\ OfRole(Top),
         \/ ~Ending(to)
         \/ to \in {Auth(r, "loginSuccessful") : r \in Role} /\ known'
         \/ to \in {Auth("user", "registerSuccessful"), Begin("user", "specialnotice")} /\ who' = "user"
         \/ to \in {Auth("volunteer", "registerSuccessful"), Auth("volunteer", "verify")}
            /\ who' = "volunteer"
  PROVE  RoleScreens' /\ EndsOnTop' /\ EndsKnown' /\ GatesKnown'
<1>1. Routed(st, {to})
  BY GrownRouted
<1>2. stack' = st
  BY <1>1, GoToKeeps
<1>3. RoleScreens' /\ EndsOnTop' /\ Top' = to
  BY <1>2, GrownOwn
<1>4. GatesKnown'
  BY <1>1, GatesStay
<1>5. EndsKnown'
  <2>1. /\ Auth("user", "registerSuccessful") # Begin("user", "specialnotice")
        /\ \A r \in Role : /\ Auth(r, "loginSuccessful") # Begin("user", "specialnotice")
                           /\ Auth(r, "loginSuccessful") # Auth("user", "registerSuccessful")
                           /\ Auth(r, "loginSuccessful") # Auth("volunteer", "registerSuccessful")
                           /\ Auth(r, "loginSuccessful") # Auth("volunteer", "verify")
        /\ {Auth("user", "registerSuccessful"), Begin("user", "specialnotice")}
             \cap {Auth("volunteer", "registerSuccessful"), Auth("volunteer", "verify")} = {}
    BY EndingsApart DEF Role
  <2>2. /\ \A r \in Role : Ending(Auth(r, "loginSuccessful"))
        /\ Ending(Auth("user", "registerSuccessful")) /\ Ending(Begin("user", "specialnotice"))
        /\ Ending(Auth("volunteer", "registerSuccessful")) /\ Ending(Auth("volunteer", "verify"))
    BY DEF Ending, Role
  <2>3. /\ to \in {Auth(r, "loginSuccessful") : r \in Role} => known'
        /\ to \in {Auth("user", "registerSuccessful"), Begin("user", "specialnotice")} => who' = "user"
        /\ to \in {Auth("volunteer", "registerSuccessful"), Auth("volunteer", "verify")} =>
             who' = "volunteer"
    <3>1. CASE ~Ending(to)
      BY <2>2, <3>1
    <3>2. CASE to \in {Auth(r, "loginSuccessful") : r \in Role} /\ known'
      BY <2>1, <3>2
    <3>3. CASE to \in {Auth("user", "registerSuccessful"), Begin("user", "specialnotice")} /\ who' = "user"
      BY <2>1, <3>3
    <3>4. CASE /\ to \in {Auth("volunteer", "registerSuccessful"), Auth("volunteer", "verify")}
               /\ who' = "volunteer"
      BY <2>1, <3>4
    <3> QED
      BY <3>1, <3>2, <3>3, <3>4
  <2> QED
    BY <1>3, <2>3 DEF EndsKnown
<1> QED
  BY <1>3, <1>4, <1>5

LEMMA IndexOwn ==
  /\ NavInit => Own
  /\ Restart => Own'
<1>1. ~OfRole(Index) /\ ~Ending(Index)
  BY Roots
<1>2. /\ \A r \in Role : Ending(Auth(r, "loginSuccessful"))
      /\ Ending(Auth("user", "registerSuccessful")) /\ Ending(Begin("user", "specialnotice"))
      /\ Ending(Auth("volunteer", "registerSuccessful")) /\ Ending(Auth("volunteer", "verify"))
  BY DEF Ending, Role
<1>3. ASSUME NavInit
      PROVE  Own
  <2>1. Len(stack) = 1 /\ stack[1] = Index /\ Top = Index /\ calls = {}
    BY <1>3 DEF NavInit, Top
  <2> QED
    BY <1>1, <1>2, <2>1 DEF Own, RoleScreens, EndsOnTop, EndsKnown, GatesKnown
<1>4. ASSUME Restart
      PROVE  Own'
  <2>1. Len(stack') = 1 /\ stack'[1] = Index /\ Top' = Index /\ calls' = {}
    BY <1>4 DEF Restart, Top
  <2>2. RoleScreens'
    BY <1>1, <2>1 DEF RoleScreens, OfRole
  <2>3. EndsOnTop'
    BY <2>1 DEF EndsOnTop
  <2> QED
    BY <1>2, <1>1, <2>1, <2>2, <2>3 DEF Own, EndsKnown, GatesKnown
<1> QED
  BY <1>3, <1>4

LEMMA FollowGrows ==
  ASSUME NavTypeOK, NEW e, e.to \in Route, e.how \in {"push", "replace"}
  PROVE  \E k \in 0..Len(stack) :
           Grown(stack, Follow(stack, e), k, e.to) /\ (k = Len(stack) => e.how = "push")
<1>1. stack \in Seq(Route) /\ Len(stack) \in Nat /\ Len(stack) > 0
  BY DEF NavTypeOK
<1>2. CASE e.how = "push"
  <2>1. Grown(stack, Follow(stack, e), Len(stack), e.to)
    BY <1>1, <1>2, PushGrows DEF Follow
  <2> QED
    BY <1>1, <1>2, <2>1
<1>3. CASE e.how # "push"
  <2>1. PICK k \in 0..(Len(stack) - 1) : Grown(stack, Replaced(stack, e.to), k, e.to)
    BY <1>1, ReplaceGrows
  <2>2. k \in 0..Len(stack) /\ k # Len(stack)
    BY <1>1
  <2> QED
    BY <1>3, <2>1, <2>2 DEF Follow
<1> QED
  BY <1>2, <1>3

LEMMA PressOwn ==
  ASSUME HomeInv, Own, Press, Clean'
  PROVE  Own'
<1>1. PICK x \in Exits : /\ x[1] = Top
                         /\ GoTo(Follow(stack, x[2]), calls)
                         /\ Troubled(When(x \in TestExits, "test_screen"))
  BY DEF Press
<1>2. /\ NavTypeOK /\ CallsPlaced /\ who' = who /\ RoleScreens /\ EndsOnTop /\ EndsKnown /\ GatesKnown
  BY DEF HomeInv, Press, Own
<1>3. x \notin TestExits
  BY <1>1, <1>2, Troubling DEF When
<1>4. x[2].to \in Route /\ x[2].how \in {"push", "replace"}
  BY ExitRoutes
<1>5. PICK k \in 0..Len(stack) :
        /\ Grown(stack, Follow(stack, x[2]), k, x[2].to)
        /\ k = Len(stack) => x[2].how = "push"
  BY <1>2, <1>4, FollowGrows
<1>6. \A c \in calls : c \in CallType /\ Placed(c)
  BY CallsTyped
<1>7. /\ OfRole(Top) => Top[1] = who /\ ~Ending(Top)
      /\ \A i \in 1..k : ~OfRole(Top) /\ Top # ComingSoon => ~OfRole(stack[i])
  <2>1. Len(stack) \in Nat /\ Len(stack) > 0
    BY <1>2 DEF NavTypeOK
  <2> QED
    BY <1>2, <2>1, NoneBelow, EndingsApart DEF RoleScreens, Top
<1>8. CASE StaysInRole(Top, x[2])
  <2>1. OfRole(x[2].to) /\ x[2].to[1] = who /\ Len(x[2].to) > 1 /\ OfRole(Top) /\ ~Ending(x[2].to)
    BY <1>7, <1>8, EndingsApart DEF StaysInRole, OfRole
  <2> QED
    BY <1>1, <1>2, <1>4, <1>5, <1>6, <1>7, <2>1, LaidOwn DEF Own
<1>9. CASE ShowsSoon(Top, x[2])
  <2>1. x[2].to = ComingSoon /\ ~OfRole(x[2].to) /\ OfRole(Top) /\ ~Ending(x[2].to)
    BY <1>9, Roots DEF ShowsSoon, Push
  <2> QED
    BY <1>1, <1>2, <1>4, <1>5, <1>6, <1>7, <2>1, LaidOwn DEF Own
<1>10. CASE StaysOutside(Top, x[2])
  <2>1. /\ ~OfRole(Top) /\ Top # ComingSoon /\ ~OfRole(x[2].to)
        /\ k = Len(stack) => ~Ending(Top)
    BY <1>5, <1>10 DEF StaysOutside
  <2>2. \/ ~Ending(x[2].to)
        \/ x[2].to \in {Auth("user", "registerSuccessful"), Begin("user", "specialnotice")} /\ who' = "user"
        \/ x[2].to \in {Auth("volunteer", "registerSuccessful"), Auth("volunteer", "verify")}
           /\ who' = "volunteer"
    BY <1>2, <1>10 DEF StaysOutside, EndsKnown
  <2> QED
    BY <1>1, <1>2, <1>4, <1>5, <1>6, <1>7, <2>1, <2>2, LaidOwn DEF Own
<1>11. CASE EntersHome(Top, x[2])
  <2>1. /\ Top = Begin("user", "specialnotice") /\ x[2].to = Home("user") /\ x[2].how = "replace"
        /\ ~OfRole(Top) /\ Top # ComingSoon /\ who' = "user"
        /\ x[2].to[1] = "user" /\ Len(x[2].to) > 1 /\ OfRole(x[2].to) /\ ~Ending(x[2].to)
    <3>1. Top = Begin("user", "specialnotice") /\ x[2].to = Home("user") /\ x[2].how = "replace"
      BY <1>11 DEF EntersHome, Replace
    <3>2. ~OfRole(Top) /\ Top # ComingSoon
      BY <3>1, Roots
    <3>3. who' = "user"
      BY <1>2, <3>1 DEF EndsKnown
    <3>4. Home("user")[1] = "user" /\ Len(Home("user")) > 1 /\ OfRole(Home("user"))
      BY DEF Home, OfRole, Role
    <3> QED
      BY <3>1, <3>2, <3>3, <3>4, EndingsApart
  <2>2. k # Len(stack)
    BY <1>5, <2>1
  <2> QED
    BY <1>1, <1>2, <1>4, <1>5, <1>6, <1>7, <2>1, <2>2, LaidOwn DEF Own
<1> QED
  BY <1>1, <1>3, <1>8, <1>9, <1>10, <1>11, ExitKinds

(* Going back shows a screen that has been in the stack. *)
LEMMA BackOwn ==
  ASSUME HomeInv, Own, Len(stack) > 1, NEW cs \in SUBSET calls,
         GoTo(SubSeq(stack, 1, Len(stack) - 1), cs), who' = who
  PROVE  Own'
<1>1. NavTypeOK /\ CallsPlaced /\ RoleScreens /\ EndsOnTop /\ GatesKnown
  BY DEF HomeInv, Own
<1>2. Routed(SubSeq(stack, 1, Len(stack) - 1), {})
  BY <1>1, StacksRouted
<1>3. \A c \in cs : c \in CallType /\ Placed(c) /\ c \in calls
  BY CallsTyped
<1>4. GatesKnown'
  BY <1>1, <1>2, <1>3, GatesStay
<1>5. stack \in Seq(Route) /\ stack' = SubSeq(stack, 1, Len(stack) - 1)
  BY <1>1 DEF NavTypeOK, GoTo
<1>6. /\ Len(stack) \in Nat /\ Len(stack') = Len(stack) - 1
      /\ \A i \in 1..Len(stack') : i \in 1..Len(stack) /\ i # Len(stack) /\ stack'[i] = stack[i]
  BY <1>5
<1>7. \A i \in 1..Len(stack') : ~Ending(stack'[i])
  BY <1>1, <1>6 DEF EndsOnTop
<1>8. EndsOnTop'
  BY <1>7 DEF EndsOnTop, Ending
<1>9. RoleScreens'
  <2> SUFFICES ASSUME NEW i \in 1..Len(stack'), OfRole(stack'[i]), NEW j \in i..Len(stack')
               PROVE  /\ stack'[i][1] = who' /\ Len(stack'[i]) > 1
                      /\ OfRole(stack'[j])
    BY DEF RoleScreens, OfRole
  <2>1. j \in 1..Len(stack') /\ j \in i..Len(stack) /\ j # Len(stack) /\ i \in 1..Len(stack)
    BY <1>6
  <2> QED
    BY <1>1, <1>6, <2>1 DEF RoleScreens
<1>10. ~Ending(Top')
  <2>1. Len(stack') \in 1..Len(stack')
    BY <1>6
  <2> QED
    BY <1>7, <2>1 DEF Top
<1>11. /\ \A r \in Role : Ending(Auth(r, "loginSuccessful"))
       /\ Ending(Auth("user", "registerSuccessful")) /\ Ending(Begin("user", "specialnotice"))
       /\ Ending(Auth("volunteer", "registerSuccessful")) /\ Ending(Auth("volunteer", "verify"))
  BY DEF Ending, Role
<1>12. EndsKnown'
  BY <1>10, <1>11 DEF EndsKnown
<1> QED
  BY <1>4, <1>8, <1>9, <1>12 DEF Own

(* A step that goes nowhere. *)
LEMMA StillOwn ==
  ASSUME HomeInv, Own, NEW cs, GoTo(stack, cs), UNCHANGED <<who, known>>,
         \A c \in cs : c \in CallType /\ Placed(c) /\ (c \in calls \/ c.kind # "gate" \/ who' = "volunteer")
  PROVE  Own'
<1>1. NavTypeOK /\ CallsPlaced
  BY DEF HomeInv
<1>2. stack' = stack /\ Top' = Top
  BY DEF GoTo, Top
<1>3. GatesKnown'
  BY <1>1, StacksRouted, GatesStay DEF Own
<1>4. RoleScreens' /\ EndsOnTop' /\ EndsKnown'
  BY <1>2 DEF Own, RoleScreens, EndsOnTop, EndsKnown
<1> QED
  BY <1>3, <1>4 DEF Own

(* A step outside that lays a route on the stack. *)
LEMMA OutsideOwn ==
  ASSUME HomeInv, Own, ~OfRole(Top), Top # ComingSoon,
         NEW to \in Route,
         NEW st, st = Replaced(stack, to) \/ (st = Pushed(stack, to) /\ ~Ending(Top)),
         NEW cs, GoTo(st, cs),
         \A c \in cs : c \in CallType /\ Placed(c) /\ (c \in calls \/ c.kind # "gate"),
         who' = who \/ Top[1] # "index",
         OfRole(to) => to[1] = who' /\ Len(to) > 1,
         \/ ~Ending(to)
         \/ to \in {Auth(r, "loginSuccessful") : r \in Role} /\ known'
         \/ to \in {Auth("user", "registerSuccessful"), Begin("user", "specialnotice")} /\ who' = "user"
         \/ to \in {Auth("volunteer", "registerSuccessful"), Auth("volunteer", "verify")}
            /\ who' = "volunteer"
  PROVE  Own'
<1>1. NavTypeOK /\ CallsPlaced /\ RoleScreens /\ EndsOnTop /\ GatesKnown
  BY DEF HomeInv, Own
<1>2. stack \in Seq(Route) /\ Len(stack) \in Nat /\ Len(stack) > 0
  BY <1>1 DEF NavTypeOK
<1>3. \E k \in 0..Len(stack) : Grown(stack, st, k, to) /\ (k = Len(stack) => ~Ending(Top))
  <2>1. CASE st = Pushed(stack, to) /\ ~Ending(Top)
    BY <1>2, <2>1, PushGrows
  <2>2. CASE st = Replaced(stack, to)
    <3>1. PICK k \in 0..(Len(stack) - 1) : Grown(stack, Replaced(stack, to), k, to)
      BY <1>2, ReplaceGrows
    <3>2. k \in 0..Len(stack) /\ k # Len(stack)
      BY <1>2
    <3> QED
      BY <2>2, <3>1, <3>2
  <2> QED
    BY <2>1, <2>2
<1>4. PICK k \in 0..Len(stack) : Grown(stack, st, k, to) /\ (k = Len(stack) => ~Ending(Top))
  BY <1>3
<1>5. \A i \in 1..k : ~OfRole(stack[i])
  BY <1>1, <1>2, NoneBelow
<1> QED
  BY <1>1, <1>4, <1>5, LaidOwn DEF Own

(* A screen of the role in front takes the place of another one. *)
LEMMA WithinOwn ==
  ASSUME HomeInv, Own, OfRole(Top), NEW to \in Route, to[1] = Top[1], Len(to) > 1,
         NEW st, st = Replaced(stack, to) \/ st = Pushed(stack, to),
         NEW cs, GoTo(st, cs),
         \A c \in cs : c \in CallType /\ Placed(c) /\ (c \in calls \/ c.kind # "gate"),
         who' = who
  PROVE  Own'
<1>1. NavTypeOK /\ CallsPlaced /\ RoleScreens /\ EndsOnTop /\ GatesKnown
  BY DEF HomeInv, Own
<1>2. stack \in Seq(Route) /\ Len(stack) \in Nat /\ Len(stack) > 0
  BY <1>1 DEF NavTypeOK
<1>3. \E k \in 0..Len(stack) : Grown(stack, st, k, to)
  <2>1. CASE st = Pushed(stack, to)
    BY <1>2, <2>1, PushGrows
  <2>2. CASE st = Replaced(stack, to)
    <3>1. PICK k \in 0..(Len(stack) - 1) : Grown(stack, Replaced(stack, to), k, to)
      BY <1>2, ReplaceGrows
    <3>2. k \in 0..Len(stack)
      BY <1>2
    <3> QED
      BY <2>2, <3>1, <3>2
  <2> QED
    BY <2>1, <2>2
<1>4. PICK k \in 0..Len(stack) : Grown(stack, st, k, to)
  BY <1>3
<1>5. Top[1] = who
  BY <1>1, <1>2 DEF RoleScreens, Top
<1>6. OfRole(to) /\ ~Ending(to) /\ ~Ending(Top)
  BY EndingsApart DEF OfRole
<1> QED
  BY <1>1, <1>4, <1>5, <1>6, LaidOwn DEF Own

LEMMA SignOutOwn ==
  ASSUME HomeInv, Own, OfRole(Top), NEW cs \in SUBSET calls, GoTo(SignedOut(stack), cs)
  PROVE  Own'
<1>1. NavTypeOK /\ CallsPlaced /\ RoleScreens /\ EndsOnTop /\ GatesKnown
  BY DEF HomeInv, Own
<1>2. PICK k \in 0..(Len(stack) - 1) :
        Grown(stack, SignedOut(stack), k, Welcome) /\ \A i \in 1..k : ~OfRole(stack[i])
  BY <1>1, SignedOutClears
<1>3. k \in 0..Len(stack) /\ k # Len(stack)
  BY <1>1 DEF NavTypeOK
<1>4. Welcome \in Route /\ ~OfRole(Welcome) /\ ~Ending(Welcome)
  BY Routes, Roots
<1>5. Top[1] # "index"
  BY DEF OfRole, Role
<1>6. \A c \in cs : c \in CallType /\ Placed(c) /\ c \in calls
  BY CallsTyped
<1> QED
  BY <1>1, <1>2, <1>3, <1>4, <1>5, <1>6, LaidOwn DEF Own

LEMMA RedirectOwn ==
  ASSUME HomeInv, Own, Redirect, Clean'
  PROVE  Own'
<1>1. NavTypeOK /\ Top = Index /\ UNCHANGED <<who, known, status>>
  BY DEF HomeInv, Redirect
<1>2. PICK env \in Role \cup {NoOne} :
        LET role == ResolvedRole(env) IN
          /\ CASE role = "volunteer" -> GoTo(stack, calls \cup {Call("gate", NoOne)})
               [] role = "user" -> GoTo(Replaced(stack, Home("user")), calls)
               [] OTHER -> GoTo(Replaced(stack, Welcome), calls)
          /\ Troubled(When(role # who, "env_role"))
  BY DEF Redirect
<1>3. ResolvedRole(env) = who
  BY <1>1, <1>2, Troubling DEF When
<1>4. ~OfRole(Top) /\ Top # ComingSoon
  BY <1>1, Roots
<1>5. \A c \in calls : c \in CallType /\ Placed(c)
  BY CallsTyped
<1>6. CASE who = "volunteer"
  <2> DEFINE cs == calls \cup {Call("gate", NoOne)}
  <2>1. Call("gate", NoOne) \in CallType /\ Placed(Call("gate", NoOne))
    BY <1>1, CallMade DEF CallKind, Placed
  <2>2. \A c \in cs : c \in CallType /\ Placed(c) /\ (c \in calls \/ c.kind # "gate" \/ who' = "volunteer")
    BY <1>1, <1>5, <1>6, <2>1
  <2>3. GoTo(stack, cs)
    BY <1>2, <1>3, <1>6
  <2> HIDE DEF cs
  <2> QED
    BY <1>1, <2>2, <2>3, StillOwn
<1>7. CASE who = "user"
  <2>1. GoTo(Replaced(stack, Home("user")), calls)
    BY <1>2, <1>3, <1>7
  <2>2. Home("user") \in Route /\ Home("user")[1] = "user" /\ Len(Home("user")) > 1 /\ OfRole(Home("user"))
    BY Routes DEF Home, OfRole, Role
  <2>3. ~Ending(Home("user"))
    BY <2>2, EndingsApart
  <2> QED
    BY <1>1, <1>4, <1>5, <1>7, <2>1, <2>2, <2>3, OutsideOwn
<1>8. CASE who \notin Role
  <2>1. GoTo(Replaced(stack, Welcome), calls)
    BY <1>2, <1>3, <1>8 DEF Role
  <2> QED
    BY <1>1, <1>4, <1>5, <2>1, Routes, Roots, OutsideOwn
<1> QED
  BY <1>6, <1>7, <1>8 DEF Role

LEMMA LoginDoneOwn ==
  ASSUME HomeInv, Own, LoginDone
  PROVE  Own'
<1> DEFINE r == IF known /\ who = "volunteer" THEN "volunteer" ELSE "user"
<1>1. /\ Top \in {Auth(s, "loginSuccessful") : s \in Role}
      /\ GoTo(Replaced(stack, Home(r)), calls) /\ UNCHANGED <<who, known, status>>
  BY DEF LoginDone
<1>2. known /\ who \in Role
  BY <1>1, CallsTyped DEF Own, EndsKnown
<1>3. r = who
  BY <1>2 DEF Role
<1> HIDE DEF r
<1>4. ~OfRole(Top) /\ Top # ComingSoon
  BY <1>1, Roots
<1>5. Home(r) \in Route /\ Home(r)[1] = r /\ Len(Home(r)) > 1 /\ OfRole(Home(r))
  BY <1>2, <1>3, Routes DEF Home, OfRole
<1>6. ~Ending(Home(r))
  BY <1>5, EndingsApart
<1>7. \A c \in calls : c \in CallType /\ Placed(c)
  BY CallsTyped
<1> QED
  BY <1>1, <1>3, <1>4, <1>5, <1>6, <1>7, OutsideOwn

LEMMA SignOutHereOwn ==
  ASSUME HomeInv, Own, SignOutHere
  PROVE  Own'
<1>1. OfRole(Top)
  BY Roots DEF SignOutHere, OfRole, Role
<1>2. GoTo(SignedOut(stack), calls)
  BY DEF SignOutHere
<1> QED
  BY <1>1, <1>2, SignOutOwn

LEMMA MatchedOwn ==
  ASSUME HomeInv, Own, Matched, Clean'
  PROVE  Own'
<1>1. /\ NavTypeOK /\ UNCHANGED <<who, known, status>> /\ who = "volunteer"
      /\ GoTo(Pushed(stack, Chat("volunteer")), calls)
  BY DEF HomeInv, Matched
<1>2. Top[1] = "volunteer"
  BY <1>1, Troubling DEF Matched, When
<1>3. /\ OfRole(Top) /\ Chat("volunteer") \in Route /\ Chat("volunteer")[1] = "volunteer"
      /\ Len(Chat("volunteer")) > 1
  BY <1>2, Routes DEF OfRole, Role, Chat
<1>4. \A c \in calls : c \in CallType /\ Placed(c)
  BY CallsTyped
<1> QED
  BY <1>1, <1>2, <1>3, <1>4, WithinOwn

LEMMA ElsewhereOwn ==
  ASSUME HomeInv, Own, Reset \/ Decide, Clean'
  PROVE  Own'
<1>1. CASE Reset
  BY <1>1, Troubling DEF Reset, HomeInv
<1>2. CASE Decide
  BY <1>2 DEF Decide, Own, RoleScreens, EndsOnTop, EndsKnown, GatesKnown, Top, OfRole, Ending
<1> QED
  BY <1>1, <1>2

LEMMA TapsOwn ==
  ASSUME HomeInv, Own, Taps
  PROVE  Own'
<1>1. PICK kind \in CallKind \ {"gate", "mount"}, as \in Role \cup {NoOne} : Ask(kind, as)
  BY TapsAsk
<1>2. /\ calls' = calls \cup {Call(kind, as)}
      /\ UNCHANGED <<stack, who, known, status, trouble>>
  BY <1>1 DEF Ask
<1>3. Call(kind, as).kind # "gate"
  BY CallMade
<1>4. RoleScreens' /\ EndsOnTop' /\ EndsKnown'
  BY <1>2 DEF Own, RoleScreens, EndsOnTop, EndsKnown, Top, OfRole, Ending
<1>5. GatesKnown'
  BY <1>2, <1>3 DEF Own, GatesKnown, Top
<1> QED
  BY <1>4, <1>5 DEF Own

(* An answer heard on the screen that asked. *)
LEMMA Prompt ==
  ASSUME HomeInv, NEW c \in calls, Troubled(Late(c)), Clean'
  PROVE  c.live /\ c.at = Top
  BY Troubling DEF HomeInv, Late, When

LEMMA PendingOwn ==
  ASSUME HomeInv, Own, NEW c \in calls, GoToPending(calls \ {c}), who' = who, who = "volunteer",
         ~OfRole(Top), Top # ComingSoon
  PROVE  Own'
<1> DEFINE mount == [kind |-> "mount", at |-> PendingScreen, by |-> who, as |-> NoOne, live |-> TRUE]
           cs == (calls \ {c}) \cup {mount}
<1>1. mount \in CallType /\ Placed(mount) /\ mount.kind # "gate"
  BY CallsTyped, Routes DEF CallType, CallKind, Placed
<1>2. GoTo(Replaced(stack, PendingScreen), cs)
  BY DEF GoToPending
<1> HIDE DEF mount
<1>3. \A d \in cs : d \in CallType /\ Placed(d) /\ (d \in calls \/ d.kind # "gate")
  BY <1>1, CallsTyped
<1> HIDE DEF cs
<1>4. /\ PendingScreen \in Route /\ PendingScreen[1] = "volunteer" /\ Len(PendingScreen) > 1
      /\ OfRole(PendingScreen)
  BY Routes DEF PendingScreen, OfRole, Role
<1>5. ~Ending(PendingScreen)
  BY <1>4, EndingsApart
<1> QED
  BY <1>2, <1>3, <1>4, <1>5, OutsideOwn

LEMMA GateOwn ==
  ASSUME HomeInv, Own, NEW c \in calls, GateAnswered(c), Clean'
  PROVE  Own'
<1>1. /\ c.kind = "gate" /\ Placed(c) /\ Troubled(Late(c)) /\ UNCHANGED <<who, known, status>>
  BY CallsTyped DEF GateAnswered
<1>2. c.live /\ Top = Index
  BY <1>1, Prompt DEF Placed
<1>3. who = "volunteer" /\ ~OfRole(Top) /\ Top # ComingSoon
  BY <1>1, <1>2, Roots DEF Own, GatesKnown
<1>4. PICK answer \in Answers(c) :
        IF answer = "failed" /\ GateTarget(answer) = PendingScreen
        THEN GoToPending(calls \ {c})
        ELSE GoTo(Replaced(stack, GateTarget(answer)), calls \ {c})
  BY DEF GateAnswered
<1>5. CASE GoToPending(calls \ {c})
  BY <1>1, <1>3, <1>5, PendingOwn
<1>6. CASE GoTo(Replaced(stack, GateTarget(answer)), calls \ {c})
  <2>1. \A x \in {Home("volunteer"), Rejected, PendingScreen} :
          x \in Route /\ x[1] = "volunteer" /\ Len(x) > 1 /\ OfRole(x)
    <3>1. {Home("volunteer"), Rejected, PendingScreen} \subseteq Route
      BY Routes DEF Role
    <3>2. \A x \in {Home("volunteer"), Rejected, PendingScreen} :
            x[1] = "volunteer" /\ Len(x) > 1 /\ OfRole(x)
      BY DEF Home, Rejected, PendingScreen, OfRole, Role
    <3> QED
      BY <3>1, <3>2
  <2>2. GateTarget(answer) \in {Home("volunteer"), Rejected, PendingScreen}
    BY DEF GateTarget
  <2>3. /\ GateTarget(answer) \in Route /\ GateTarget(answer)[1] = "volunteer"
        /\ Len(GateTarget(answer)) > 1 /\ OfRole(GateTarget(answer))
    BY <2>1, <2>2
  <2>4. ~Ending(GateTarget(answer))
    BY <2>3, EndingsApart
  <2>5. \A d \in calls \ {c} : d \in CallType /\ Placed(d) /\ d \in calls
    BY CallsTyped
  <2> QED
    BY <1>1, <1>3, <1>6, <2>3, <2>4, <2>5, OutsideOwn
<1> QED
  BY <1>4, <1>5, <1>6

(* The pending screen turns into another of the same role. *)
LEMMA RejectedOwn ==
  ASSUME HomeInv, Own, NEW c \in calls, GoTo(ShowRejected(c), calls \ {c}), UNCHANGED <<who, known>>
  PROVE  Own'
<1>1. NavTypeOK /\ CallsPlaced
  BY DEF HomeInv
<1>2. \A d \in calls \ {c} : d \in CallType /\ Placed(d) /\ d \in calls
  BY CallsTyped
<1>3. CASE ~c.live
  BY <1>2, <1>3, StillOwn DEF ShowRejected
<1>4. CASE c.live
  <2>1. stack \in Seq(Route) /\ Len(stack) \in Nat /\ Len(stack) > 0
    BY <1>1 DEF NavTypeOK
  <2>2. stack' = [i \in 1..Len(stack) |-> IF stack[i] = PendingScreen THEN Rejected ELSE stack[i]]
    BY <1>4 DEF GoTo, ShowRejected
  <2>3. Routed(ShowRejected(c), {Rejected})
    BY <1>1, StacksRouted
  <2>4. Len(stack') = Len(stack)
    BY <2>1, <2>2
  <2>5. GatesKnown'
    BY <1>1, <1>2, <2>3, GatesStay DEF Own
  <2>6. /\ Rejected[1] = "volunteer" /\ PendingScreen[1] = "volunteer"
        /\ Len(Rejected) = Len(PendingScreen) /\ OfRole(Rejected) /\ OfRole(PendingScreen)
    BY DEF Rejected, PendingScreen, OfRole, Role
  <2>7. ~Ending(Rejected) /\ ~Ending(PendingScreen) /\ Rejected # ComingSoon /\ PendingScreen # ComingSoon
    BY <2>6, EndingsApart, Roots
  <2>8. \A i \in 1..Len(stack) :
          /\ stack'[i][1] = stack[i][1] /\ Len(stack'[i]) = Len(stack[i])
          /\ OfRole(stack'[i]) <=> OfRole(stack[i])
          /\ stack[i] = ComingSoon => stack'[i] = ComingSoon
          /\ Ending(stack'[i]) => stack'[i] = stack[i]
    BY <2>2, <2>6, <2>7
  <2>9. EndsOnTop'
    BY <2>4, <2>8 DEF Own, EndsOnTop, Ending
  <2>10. RoleScreens'
    <3> SUFFICES ASSUME NEW i \in 1..Len(stack), OfRole(stack'[i]), NEW j \in i..Len(stack)
                 PROVE  /\ stack'[i][1] = who /\ Len(stack'[i]) > 1
                        /\ OfRole(stack'[j]) \/ (j = Len(stack) /\ stack'[j] = ComingSoon)
      BY <2>4 DEF RoleScreens, OfRole
    <3>1. j \in 1..Len(stack)
      BY <2>1
    <3> QED
      BY <2>8, <3>1 DEF Own, RoleScreens
  <2>11. Ending(Top') => Top' = Top
    BY <2>1, <2>4, <2>8 DEF Top
  <2>12. /\ \A r \in Role : Ending(Auth(r, "loginSuccessful"))
         /\ Ending(Auth("user", "registerSuccessful")) /\ Ending(Begin("user", "specialnotice"))
         /\ Ending(Auth("volunteer", "registerSuccessful")) /\ Ending(Auth("volunteer", "verify"))
    BY DEF Ending, Role
  <2>13. EndsKnown'
    BY <2>11, <2>12 DEF Own, EndsKnown
  <2> QED
    BY <2>5, <2>9, <2>10, <2>13 DEF Own
<1> QED
  BY <1>3, <1>4

LEMMA CheckOwn ==
  ASSUME HomeInv, Own, NEW c \in calls, CheckAnswered(c), Clean'
  PROVE  Own'
<1>1. NavTypeOK /\ Placed(c) /\ c.kind \in {"mount", "check"} /\ UNCHANGED <<who, known, status>>
  BY CallsTyped DEF HomeInv, CheckAnswered
<1>2. PICK answer \in Answers(c) :
       /\ CASE answer = "approved" -> GoTo(Replaced(stack, Home("volunteer")), calls \ {c})
            [] answer = "rejected" -> GoTo(ShowRejected(c), calls \ {c})
            [] OTHER -> GoTo(stack, calls \ {c})
       /\ Troubled(When(answer = "approved" /\ (~c.live \/ c.at # Top), "late"))
  BY DEF CheckAnswered
<1>3. \A d \in calls \ {c} : d \in CallType /\ Placed(d) /\ d \in calls
  BY CallsTyped
<1>4. CASE answer = "approved"
  <2>1. c.at = Top
    BY <1>1, <1>2, <1>4, Troubling DEF When
  <2>2. Top = PendingScreen
    BY <1>1, <2>1 DEF Placed
  <2>3. /\ OfRole(Top) /\ Home("volunteer") \in Route /\ Home("volunteer")[1] = Top[1]
        /\ Len(Home("volunteer")) > 1
    BY <2>2, Routes DEF OfRole, Role, Home, PendingScreen
  <2>4. GoTo(Replaced(stack, Home("volunteer")), calls \ {c})
    BY <1>2, <1>4
  <2> QED
    BY <1>1, <1>3, <2>3, <2>4, WithinOwn
<1>5. CASE answer = "rejected"
  BY <1>1, <1>2, <1>5, RejectedOwn
<1>6. CASE answer \notin {"approved", "rejected"}
  BY <1>1, <1>2, <1>3, <1>6, StillOwn
<1> QED
  BY <1>4, <1>5, <1>6

LEMMA SignedInOwn ==
  ASSUME HomeInv, Own, NEW c \in calls, LoginAnswered(c) \/ RegisterAnswered(c), Clean'
  PROVE  Own'
<1>1. NavTypeOK /\ Placed(c) /\ Troubled(Late(c))
  BY CallsTyped DEF HomeInv, LoginAnswered, RegisterAnswered
<1>2. c.at = Top
  BY <1>1, Prompt
<1>3. \A d \in calls \ {c} : d \in CallType /\ Placed(d) /\ d \in calls
  BY CallsTyped
<1>4. CASE LoginAnswered(c)
  <2>1. PICK r \in Role : Top = Auth(r, "signIn")
    BY <1>1, <1>2, <1>4 DEF LoginAnswered, Placed
  <2>2. <<c.at[1], "authScreens", "loginSuccessful">> = Auth(r, "loginSuccessful")
    BY <1>2, <2>1 DEF Auth
  <2>3. /\ ~OfRole(Top) /\ Top # ComingSoon /\ Top[1] # "index"
        /\ ~OfRole(Auth(r, "loginSuccessful"))
    BY <2>1, Roots
  <2>4. Auth(r, "loginSuccessful") \in Route
    BY Routes DEF AuthPage
  <2>5. known' /\ GoTo(Replaced(stack, Auth(r, "loginSuccessful")), calls \ {c})
    BY <1>4, <2>2 DEF LoginAnswered
  <2> QED
    BY <1>3, <2>3, <2>4, <2>5, OutsideOwn
<1>5. CASE RegisterAnswered(c)
  <2>1. PICK r \in Role : Top = Auth(r, "signUp")
    BY <1>1, <1>2, <1>5 DEF RegisterAnswered, Placed
  <2>2. c.as \in Role
    BY <1>1, <1>5 DEF RegisterAnswered, Placed
  <2>3. /\ ~OfRole(Top) /\ Top # ComingSoon /\ Top[1] # "index"
        /\ \A s, p : ~OfRole(Auth(s, p))
    BY <2>1, Roots
  <2>4. ~Ending(Top)
    BY <2>1, EndingsApart
  <2>5. \A s \in Role : Auth(s, "registerSuccessful") \in Route /\ Auth(s, "signIn") \in Route
    BY Routes DEF AuthPage
  <2>6. ~Ending(Auth(c.as, "signIn"))
    BY EndingsApart
  <2>7. CASE /\ who' = c.as /\ c.as = "user"
             /\ GoTo(Replaced(stack, Auth("user", "registerSuccessful")), calls \ {c})
    BY <1>3, <2>3, <2>5, <2>7, OutsideOwn DEF Role
  <2>8. CASE /\ who' = c.as /\ c.as = "volunteer"
             /\ GoTo(Pushed(stack, Auth("volunteer", "registerSuccessful")), calls \ {c})
    BY <1>3, <2>3, <2>4, <2>5, <2>8, OutsideOwn DEF Role
  <2>9. CASE GoTo(Replaced(stack, Auth(c.as, "signIn")), calls \ {c})
    BY <1>3, <2>2, <2>3, <2>5, <2>6, <2>9, OutsideOwn
  <2> QED
    BY <1>5, <2>2, <2>7, <2>8, <2>9 DEF RegisterAnswered, Role
<1> QED
  BY <1>4, <1>5

LEMMA ApplyOwn ==
  ASSUME HomeInv, Own, NEW c \in calls, ApplyAnswered(c), Clean'
  PROVE  Own'
<1>1. /\ NavTypeOK /\ Placed(c) /\ c.kind = "apply" /\ UNCHANGED <<who, known>>
      /\ Troubled(When(c.live /\ c.at # Top, "late"))
  BY CallsTyped DEF HomeInv, ApplyAnswered
<1>2. CASE c.live
  <2>1. Top = Auth("volunteer", "verify")
    BY <1>1, <1>2, Troubling DEF When, Placed
  <2>2. who = "volunteer" /\ ~OfRole(Top) /\ Top # ComingSoon
    BY <2>1, Roots DEF Own, EndsKnown
  <2>3. GoToPending(calls \ {c})
    BY <1>2 DEF ApplyAnswered
  <2> QED
    BY <1>1, <2>2, <2>3, PendingOwn
<1>3. CASE ~c.live
  <2>1. GoTo(stack, calls \ {c})
    BY <1>3 DEF ApplyAnswered
  <2>2. \A d \in calls \ {c} : d \in CallType /\ Placed(d) /\ d \in calls
    BY CallsTyped
  <2> QED
    BY <1>1, <2>1, <2>2, StillOwn
<1> QED
  BY <1>2, <1>3

LEMMA LogoutOwn ==
  ASSUME HomeInv, Own, NEW c \in calls, LogoutAnswered(c), Clean'
  PROVE  Own'
<1>1. Placed(c) /\ c.at = Top
  BY CallsTyped, Prompt DEF LogoutAnswered
<1>2. PICK r \in Role : Top = Home(r)
  BY <1>1 DEF LogoutAnswered, Placed
<1>3. OfRole(Top)
  BY <1>2, Roots DEF OfRole
<1>4. GoTo(SignedOut(stack), calls \ {c}) /\ calls \ {c} \in SUBSET calls
  BY DEF LogoutAnswered
<1> QED
  BY <1>3, <1>4, SignOutOwn

LEMMA OnwardOwn ==
  ASSUME HomeInv, Own, NEW c \in calls,
         ForgotAnswered(c) \/ PasswordAnswered(c) \/ RateAnswered(c) \/ CallFailed(c), Clean'
  PROVE  Own'
<1>1. NavTypeOK /\ Placed(c) /\ UNCHANGED <<who, known, status>>
  BY CallsTyped DEF HomeInv, ForgotAnswered, PasswordAnswered, RateAnswered, CallFailed
<1>2. \A d \in calls \ {c} : d \in CallType /\ Placed(d) /\ d \in calls
  BY CallsTyped
<1>3. CASE ForgotAnswered(c)
  <2> DEFINE to == Auth("user", IF c.kind = "forgot" THEN "OTPVerification" ELSE "CreateNewPassword")
  <2>1. c.at = Top /\ GoTo(Pushed(stack, to), calls \ {c})
    BY <1>3, Prompt DEF ForgotAnswered
  <2>2. Top = Auth("user", "enterEmail") \/ Top = Auth("user", "OTPVerification")
    BY <1>1, <1>3, <2>1 DEF ForgotAnswered, Placed
  <2>3. ~OfRole(Top) /\ Top # ComingSoon /\ ~Ending(Top)
    <3>1. ~Ending(Auth("user", "enterEmail")) /\ ~Ending(Auth("user", "OTPVerification"))
      BY EndingsApart
    <3>2. ~OfRole(Top) /\ Top # ComingSoon
      BY <2>2, Roots
    <3> QED
      BY <2>2, <3>1, <3>2
  <2>4. to \in Route /\ ~OfRole(to) /\ ~Ending(to)
    <3>1. ~Ending(Auth("user", "CreateNewPassword")) /\ ~Ending(Auth("user", "OTPVerification"))
      BY EndingsApart
    <3>2. to = Auth("user", "CreateNewPassword") \/ to = Auth("user", "OTPVerification")
      OBVIOUS
    <3>3. Auth("user", "CreateNewPassword") \in Route /\ Auth("user", "OTPVerification") \in Route
      BY Routes DEF AuthPage, Role
    <3>4. ~OfRole(to)
      BY <3>2, Roots
    <3> QED
      BY <3>1, <3>2, <3>3, <3>4
  <2> HIDE DEF to
  <2> QED
    BY <1>1, <1>2, <2>1, <2>3, <2>4, OutsideOwn
<1>4. CASE PasswordAnswered(c)
  BY <1>1, <1>4, BackOwn DEF PasswordAnswered
<1>5. CASE RateAnswered(c)
  <2>1. c.at = Top /\ GoTo(Replaced(stack, Home(c.at[1])), calls \ {c})
    BY <1>5, Prompt DEF RateAnswered
  <2>2. PICK r \in Role : Top = Rate(r)
    BY <1>1, <1>5, <2>1 DEF RateAnswered, Placed
  <2>3. Top[1] = r /\ OfRole(Top) /\ Home(r)[1] = r /\ Len(Home(r)) > 1 /\ Home(r) \in Route
    BY <2>2, Routes, Roots DEF OfRole
  <2> QED
    BY <1>1, <1>2, <2>1, <2>3, WithinOwn
<1>6. CASE CallFailed(c)
  BY <1>1, <1>2, <1>6, StillOwn DEF CallFailed
<1> QED
  BY <1>3, <1>4, <1>5, <1>6

LEMMA OwnStays ==
  ASSUME HomeInv, Clean => Own, [NavNext]_navVars
  PROVE  Clean' => Own'
<1> SUFFICES ASSUME Clean'
             PROVE  Own'
  OBVIOUS
<1>1. CASE UNCHANGED navVars
  BY <1>1 DEF navVars, Own, RoleScreens, EndsOnTop, EndsKnown, GatesKnown, Top, OfRole, Ending, Clean
<1>2. CASE Restart
  BY <1>2, IndexOwn
<1>3. CASE NavNext /\ ~Restart
  <2>1. trouble \subseteq trouble'
    <3>1. NavTypeOK
      BY DEF HomeInv
    <3>2. ASSUME NEW c \in calls, Answered(c)
          PROVE  trouble \subseteq trouble'
      BY <3>1, <3>2, TroubledKeeps DEF Answered, GateAnswered, CheckAnswered, LoginAnswered,
         RegisterAnswered, ApplyAnswered, LogoutAnswered, ForgotAnswered, PasswordAnswered,
         RateAnswered, CallFailed
    <3>3. CASE Press \/ GoBack \/ Redirect \/ LoginDone \/ SignOutHere \/ Matched \/ Reset \/ Decide
      BY <3>1, <3>3, TroubledKeeps
         DEF Press, GoBack, Redirect, LoginDone, SignOutHere, Matched, Reset, Decide
    <3>4. CASE Taps
      BY <3>4, TapsAsk DEF Ask
    <3> QED
      BY <1>3, <3>2, <3>3, <3>4 DEF NavNext, Taps
  <2>2. Own
    BY <2>1 DEF Clean
  <2>3. ASSUME NEW c \in calls, Answered(c)
        PROVE  Own'
    BY <2>2, <2>3, GateOwn, CheckOwn, SignedInOwn, ApplyOwn, LogoutOwn, OnwardOwn DEF Answered
  <2>4. CASE GoBack
    BY <2>2, <2>4, BackOwn DEF GoBack
  <2> QED
    BY <1>3, <2>2, <2>3, <2>4, PressOwn, RedirectOwn, LoginDoneOwn, SignOutHereOwn, MatchedOwn,
       ElsewhereOwn, TapsOwn DEF NavNext, Taps
<1> QED
  BY <1>1, <1>2, <1>3

(* Going back never leads to a screen of an account that has signed out,   *)
(* and no button, timer, answer or match shows those of the other role.    *)
THEOREM OwnScreensHold == NavSpec => []OwnScreens
<1>1. NavInit => Own
  BY IndexOwn
<1>2. HomeInv /\ (Clean => Own) /\ [NavNext]_navVars => (Clean => Own)'
  BY OwnStays
<1>3. (Clean => Own) => OwnScreens
  BY DEF Own, RoleScreens, OwnScreens, Clean, OfRole
<1> QED
  BY <1>1, <1>2, <1>3, HomeInvAlways, PTL DEF NavSpec

-----------------------------------------------------------------------------
(* ConnectForm: what a session is asked for with.                          *)

(* Each timer of the connecting popup runs while its text shows. *)
TimersFollow == timer = TimerOf(popup)

(* The popup counts down only for a tap on Connect, over a form filled in. *)
PopupIsWanted ==
  popup \in {"searching", "connected"} =>
    /\ wanted
    /\ selectedCategoryId # Nothing /\ feelingLevel # Nothing

(* `Other` is chosen only from a list that has been loaded, and the list   *)
(* stays loaded.                                                           *)
OtherIsListed ==
  selectedCategoryId = "other" \/ popup = "other" => categories = "loaded"

FormInv == FormTypeOK /\ TimersFollow /\ PopupIsWanted /\ OtherIsListed

LEMMA FormInitHolds ==
  ASSUME FormInit
  PROVE  FormInv
  BY ConnectFormConstants DEF FormInit, FormInv, FormTypeOK, TimersFollow, PopupIsWanted, OtherIsListed, TimerOf, Popup

-----------------------------------------------------------------------------
(* The steps that neither open nor close a popup. *)
Still ==
  \/ LoadCategories \/ RefetchCategories \/ LoadTickets
  \/ \E l \in Level : SelectFeeling(l)
  \/ \E t \in Text : TypeProblem(t) \/ TypeInOther(t)
  \/ \E c \in Category : RemoveTag(c) \/ ToggleInTags(c) \/ ToggleInOther(c)
  \/ LeaveForm \/ Returned

(* The steps that show another popup, or none. *)
Showing ==
  \/ OpenCategories \/ OpenTags \/ CloseCategories \/ CloseTags \/ CloseOther
  \/ SelectOther \/ ConfirmOther
  \/ \E c \in Category : SelectCategory(c)
  \/ Connect \/ Cancel \/ SearchingDone

LEMMA FormNextSplits == FormNext <=> Still \/ Showing \/ AnimationComplete \/ ConnectAnswered
  BY DEF FormNext, Still, Showing

(* Where a ticket taken or given back leaves the allowance. *)
LEMMA Granted ==
  ASSUME NEW n \in 0..DailyTickets
  PROVE  /\ n > 0 => n - 1 \in 0..DailyTickets
         /\ n < DailyTickets => n + 1 \in 0..DailyTickets /\ DailyTickets \in 0..DailyTickets
  <1>1. DailyTickets \in Nat
    BY ConnectFormConstants
  <1>2. QED
    BY <1>1

LEMMA FormStillHolds ==
  ASSUME FormInv, Still
  PROVE  FormInv' /\ request' = request
  <1> USE DEF FormInv, FormTypeOK, TimersFollow, PopupIsWanted, OtherIsListed, TimerOf
  <1>1. CASE LoadCategories \/ RefetchCategories \/ LoadTickets
    BY <1>1 DEF LoadCategories, RefetchCategories, LoadTickets, chosen
  <1>2. ASSUME NEW l \in Level, SelectFeeling(l)
        PROVE  FormInv' /\ request' = request
    BY ConnectFormConstants, <1>2 DEF SelectFeeling, Form, Rest, told
  <1>3. ASSUME NEW t \in Text, TypeProblem(t) \/ TypeInOther(t)
        PROVE  FormInv' /\ request' = request
    BY <1>3 DEF TypeProblem, TypeInOther, Form, Rest, told
  <1>4. ASSUME NEW c \in Category, RemoveTag(c) \/ ToggleInTags(c) \/ ToggleInOther(c)
        PROVE  FormInv' /\ request' = request
    BY <1>4 DEF RemoveTag, ToggleInTags, ToggleInOther, toggleTag, Form, Rest, told
  <1>5. CASE LeaveForm
    BY <1>5 DEF LeaveForm, chosen, told
  <1>6. CASE Returned
    <2>1. remaining' \in 0..DailyTickets
      BY <1>6, Granted DEF Returned
    <2>2. QED
      BY <1>6, <2>1 DEF Returned, chosen
  <1>7. QED
    BY <1>1, <1>2, <1>3, <1>4, <1>5, <1>6 DEF Still

LEMMA FormShowingHolds ==
  ASSUME FormInv, Showing
  PROVE  FormInv' /\ request' = request
  <1> USE DEF FormInv, FormTypeOK, TimersFollow, PopupIsWanted, OtherIsListed, TimerOf, Popup, ShowPopup
  <1>1. CASE OpenCategories \/ CloseCategories \/ CloseTags \/ CloseOther
    BY <1>1 DEF OpenCategories, CloseCategories, CloseTags, CloseOther, chosen, Rest, told
  <1>2. CASE OpenTags
    BY <1>2 DEF OpenTags, chosen, Rest, told
  <1>3. CASE SelectOther \/ ConfirmOther
    BY <1>3 DEF SelectOther, ConfirmOther, chosen, Rest, told
  <1>4. ASSUME NEW c \in Category, SelectCategory(c)
        PROVE  FormInv' /\ request' = request
    BY <1>4 DEF SelectCategory, handleSelectCategory, Rest, told
  <1>5. CASE Connect
    BY <1>5 DEF Connect, Form, chosen, told
  <1>6. CASE Cancel
    BY <1>6 DEF Cancel, chosen, told
  <1>7. CASE SearchingDone
    BY <1>7 DEF SearchingDone, chosen, told
  <1>8. QED
    BY <1>1, <1>2, <1>3, <1>4, <1>5, <1>6, <1>7 DEF Showing

(* The count-down is over: the form is sent as it stands. *)
LEMMA AskingHolds ==
  ASSUME FormInv, AnimationComplete
  PROVE  /\ FormInv'
         /\ wanted /\ request'.feeling = feelingLevel /\ request'.text = problemText
         /\ request'.category \in Category
         /\ selectedCategoryId \in {request'.category, "other"}
  <1> USE DEF FormInv, FormTypeOK
  <1>1. PICK r \in Request :
          /\ r.feeling = feelingLevel /\ AskedCategory(r.category) /\ r.text = problemText
          /\ request' = r
    BY DEF AnimationComplete
  <1>2. popup = "connected"
    BY DEF AnimationComplete, TimersFollow, TimerOf, Popup
  <1>3. wanted /\ selectedCategoryId \in Category \cup {"other"}
    BY <1>2 DEF PopupIsWanted
  <1>4. r.category \in Category
    BY <1>1, <1>3 DEF AskedCategory, OtherIsListed
  <1>5. selectedCategoryId \in {r.category, "other"}
    BY <1>1 DEF AskedCategory
  <1>6. FormInv'
    BY <1>1 DEF AnimationComplete, ShowPopup, TimersFollow, TimerOf, PopupIsWanted, OtherIsListed,
                Popup, chosen, told
  <1>7. QED
    BY <1>1, <1>3, <1>4, <1>5, <1>6

LEMMA AnsweredHolds ==
  ASSUME FormInv, ConnectAnswered
  PROVE  FormInv' /\ request' = Nothing
  <1> USE DEF FormInv, FormTypeOK, TimersFollow, PopupIsWanted, OtherIsListed, TimerOf, Popup, ShowPopup
  <1>1. request' = Nothing /\ UNCHANGED <<chosen, categories, tickets>>
    BY DEF ConnectAnswered
  <1>2. CASE /\ remaining > 0 /\ remaining' = remaining - 1
             /\ inFront' = FALSE
             /\ UNCHANGED <<popup, timer, wanted>>
    <2>1. remaining' \in 0..DailyTickets
      BY <1>2, Granted
    <2>2. QED
      BY <1>1, <1>2, <2>1 DEF chosen
  <1>3. CASE /\ IF popup \in {"searching", "connected"}
                THEN ShowPopup("none") /\ wanted' = FALSE
                ELSE UNCHANGED <<popup, timer, wanted>>
             /\ UNCHANGED <<remaining, inFront>>
    BY <1>1, <1>3 DEF chosen
  <1>4. QED
    BY <1>1, <1>2, <1>3 DEF ConnectAnswered

LEMMA FormNextHolds ==
  ASSUME FormInv, [FormNext]_formVars
  PROVE  FormInv'
  <1>1. CASE FormNext
    BY <1>1, FormNextSplits, FormStillHolds, FormShowingHolds, AskingHolds, AnsweredHolds
  <1>2. CASE UNCHANGED formVars
    BY <1>2 DEF formVars, FormInv, FormTypeOK, TimersFollow, PopupIsWanted, OtherIsListed
  <1>3. QED
    BY <1>1, <1>2

LEMMA FormInvAlways == FormSpec => []FormInv
  <1>1. FormInit => FormInv
    BY FormInitHolds
  <1>2. FormInv /\ [FormNext]_formVars => FormInv'
    BY FormNextHolds
  <1>3. QED
    BY <1>1, <1>2, PTL DEF FormSpec

-----------------------------------------------------------------------------
(* Whatever the seeker taps and types while the popup counts down, and     *)
(* however the answers come in, a request is sent only for a tap that      *)
(* nobody cancelled, with what the form shows, and with a real category.   *)
THEOREM AskedForm == FormSpec => AskedAsShown
  <1>1. ASSUME FormInv, [FormNext]_formVars, request' \notin {Nothing, request}
        PROVE  /\ wanted /\ request'.feeling = feelingLevel /\ request'.text = problemText
               /\ request'.category \in Category
               /\ selectedCategoryId \in {request'.category, "other"}
    <2>1. request' # request
      BY <1>1
    <2>2. ~UNCHANGED formVars
      BY <2>1 DEF formVars
    <2>3. AnimationComplete
      BY <1>1, <2>1, <2>2, FormNextSplits, FormStillHolds, FormShowingHolds, AnsweredHolds
    <2>4. QED
      BY <1>1, <2>3, AskingHolds
  <1>2. FormInv /\ [FormNext]_formVars =>
          [request' \notin {Nothing, request} =>
             /\ wanted /\ request'.feeling = feelingLevel /\ request'.text = problemText
             /\ request'.category \in Category
             /\ selectedCategoryId \in {request'.category, "other"}]_formVars
    BY <1>1
  <1>3. FormSpec => []FormInv
    BY FormInvAlways
  <1>4. QED
    BY <1>2, <1>3, PTL DEF FormSpec, AskedAsShown

-----------------------------------------------------------------------------
(* Dashboard: what an admin sees of a list and of a row.                   *)

Ids(S) == {r.id : r \in S}
Review == {"applications", "reports"}

(* A row that anything shows or decides is in the list; what is decided on *)
(* the page of a row is that row, and its page is open.                    *)
RowsKnown ==
  /\ \A r \in data : r.id \in Ids(ToSet(rows))
  /\ \A i \in DOMAIN fetching : \A r \in fetching[i].data : r.id \in Ids(ToSet(rows))
  /\ \A d \in deciding : d.id \in Ids(ToSet(rows))
  /\ detail # Nowhere => detail.id \in Ids(ToSet(rows))
  /\ \A d \in deciding : d.at = "row" => detail # Nowhere /\ d.id = detail.id

(* The answer that will come last is, or will be, the page it was asked    *)
(* for, unless a decision is still to start another fetch.                 *)
LastIsRight ==
  IF fetching = << >> THEN data = PageOf(statusFilter, page)
  ELSE \E f \in Filter, p \in PageNo :
         /\ fetching[Len(fetching)].filter = f /\ fetching[Len(fetching)].page = p
         /\ fetching[Len(fetching)].read => fetching[Len(fetching)].data = PageOf(f, p)
TableWillBeRight ==
  detail = Nowhere =>
    /\ \A d \in deciding : d.at = "table"
    /\ LastIsRight \/ \E d \in deciding : d.served

(* The status that is shown is so, or the admin is still to be told of the *)
(* decision that he made on it.                                            *)
RowWillBeRight ==
  detail # Nowhere =>
    /\ \A d \in deciding : /\ d.at = "row" /\ d.id = detail.id
                           /\ d.served /\ list \in Review => StatusOf(detail.id) = "decided"
    /\ \/ detail.status \in {"loading", StatusOf(detail.id)}
       \/ /\ detail.status = "open" /\ StatusOf(detail.id) = "decided"
          /\ \E d \in deciding : d.served /\ (d.bars \/ list # "accounts")

DashInv == DashTypeOK /\ RowsKnown /\ (slips = {} => TableWillBeRight /\ RowWillBeRight)

LEMMA SamePages ==
  ASSUME NEW f, NEW p, UNCHANGED <<list, rows>>
  PROVE  PageOf(f, p)' = PageOf(f, p)
BY DEF PageOf, getVolunteerApplications, findAllReports, findAllAccounts, findAllSessions,
   sanitizePagination, Open, Named

LEMMA PagesKnown ==
  ASSUME DashTypeOK, NEW f, NEW p
  PROVE  PageOf(f, p) \subseteq ToSet(rows)
<1>1. ASSUME NEW S \in SUBSET DOMAIN rows
      PROVE  sanitizePagination(S, p) \subseteq ToSet(rows)
  BY <1>1 DEF sanitizePagination, ToSet
<1>2. /\ {i \in DOMAIN rows : Open(f, rows[i])} \in SUBSET DOMAIN rows
      /\ {i \in DOMAIN rows : Open(f, rows[i]) /\ Named(f, rows[i])} \in SUBSET DOMAIN rows
  OBVIOUS
<1>3. list \in List
  BY DEF DashTypeOK
<1> HIDE DEF sanitizePagination
<1>4. /\ getVolunteerApplications(f, p) \subseteq ToSet(rows)
      /\ findAllReports(f, p) \subseteq ToSet(rows)
      /\ findAllAccounts(f, p) \subseteq ToSet(rows)
      /\ findAllSessions(f, p) \subseteq ToSet(rows)
  BY <1>1, <1>2 DEF getVolunteerApplications, findAllReports, findAllAccounts, findAllSessions
<1> QED
  BY <1>3, <1>4 DEF PageOf, List

LEMMA StatusKnown ==
  ASSUME DashTypeOK, NEW id \in Ids(ToSet(rows))
  PROVE  /\ \E r \in ToSet(rows) : r.id = id /\ StatusOf(id) = r.status
         /\ StatusOf(id) \in {"open", "decided"} /\ id \in Row
<1>1. \E r \in ToSet(rows) : r.id = id
  BY DEF Ids
<1>2. PICK r \in ToSet(rows) : r.id = id /\ StatusOf(id) = r.status
  BY <1>1 DEF StatusOf
<1>3. r \in Entry
  BY DEF DashTypeOK, ToSet
<1> QED
  BY <1>2, <1>3 DEF Entry

(* A row that is decided, in the list. *)
LEMMA RowDecided ==
  ASSUME DashTypeOK, NEW id \in Ids(ToSet(rows)), rows' = Decided(id)
  PROVE  /\ rows' \in Seq(Entry) /\ Len(rows') = Len(rows)
         /\ Ids(ToSet(rows')) = Ids(ToSet(rows))
         /\ (CHOOSE r \in ToSet(rows') : r.id = id).status = "decided"
<1>1. rows \in Seq(Entry)
  BY DEF DashTypeOK
<1>2. DOMAIN rows = 1..Len(rows) /\ \A i \in DOMAIN rows : rows[i] \in Entry
  BY <1>1
<1>3. \A r \in Entry : LET s == [r EXCEPT !.status = "decided"] IN
        s \in Entry /\ s.id = r.id /\ s.status = "decided"
  BY DEF Entry
<1>4. rows' = [i \in 1..Len(rows) |->
                 IF rows[i].id = id THEN [rows[i] EXCEPT !.status = "decided"] ELSE rows[i]]
  BY <1>2 DEF Decided
<1>5. \A i \in 1..Len(rows) : /\ rows'[i] \in Entry /\ rows'[i].id = rows[i].id
                              /\ rows[i].id = id => rows'[i].status = "decided"
  BY <1>2, <1>3, <1>4
<1>6. rows' \in Seq(Entry) /\ Len(rows') = Len(rows) /\ DOMAIN rows' = 1..Len(rows)
  BY <1>1, <1>4, <1>5
<1>7. Ids(ToSet(rows')) = Ids(ToSet(rows))
  BY <1>2, <1>5, <1>6 DEF Ids, ToSet
<1>8. \E r \in ToSet(rows') : r.id = id
  BY <1>7 DEF Ids
<1>9. \A r \in ToSet(rows') : r.id = id => r.status = "decided"
  BY <1>5, <1>6 DEF ToSet
<1> QED
  BY <1>6, <1>7, <1>8, <1>9

LEMMA DashStarts ==
  ASSUME DashInit
  PROVE  DashInv
<1> USE DashboardConstants
<1>0. PICK n \in 0..Rows : \E s \in [1..n -> {"open", "decided"}] :
        rows = [i \in 1..n |-> [id |-> n + 1 - i, status |-> s[i]]]
  BY DEF DashInit
<1>1. PICK s \in [1..n -> {"open", "decided"}] :
        rows = [i \in 1..n |-> [id |-> n + 1 - i, status |-> s[i]]]
  BY <1>0
<1>2. rows \in Seq(Entry) /\ Len(rows) <= Rows
  <2>1. \A i \in 1..n : [id |-> n + 1 - i, status |-> s[i]] \in Entry
    <3>1. Rows \in Nat
      OBVIOUS
    <3> QED
      BY <3>1 DEF Entry, Row
  <2>2. n \in Nat /\ n <= Rows
    OBVIOUS
  <2> QED
    BY <1>1, <2>1, <2>2
<1>3. /\ list \in List /\ statusFilter = {} /\ page = 1 /\ data = {} /\ loading = TRUE
      /\ fetching = <<Fetch({}, 1)>> /\ deciding = {} /\ detail = Nowhere /\ slips = {}
  BY DEF DashInit, TableInit
<1>4. 1 \in PageNo /\ {} \in Filter /\ {} \in FilterOf[list]
  <2>1. Pages \in Nat \ {0}
    OBVIOUS
  <2> QED
    BY <1>3, <2>1 DEF PageNo, Filter, FilterOf, List, ApplicationFilter, ReportFilter, AccountFilter, SessionFilter
<1>5. fetching \in Seq([filter: Filter, page: PageNo, data: SUBSET Entry, read: BOOLEAN])
  BY <1>3, <1>4 DEF Fetch
<1>6. DashTypeOK
  BY <1>2, <1>3, <1>4, <1>5 DEF DashTypeOK
<1>7. fetching # << >> /\ Len(fetching) = 1 /\ fetching[1] = Fetch({}, 1) /\ DOMAIN fetching = {1}
  BY <1>3
<1>8. /\ fetching[Len(fetching)].filter = {} /\ fetching[Len(fetching)].page = 1
      /\ fetching[Len(fetching)].read = FALSE /\ fetching[1].data = {}
  BY <1>7 DEF Fetch
<1>9. RowsKnown
  BY <1>3, <1>7, <1>8 DEF RowsKnown
<1>10. LastIsRight
  BY <1>4, <1>7, <1>8 DEF LastIsRight
<1> QED
  BY <1>3, <1>6, <1>9, <1>10 DEF DashInv, TableWillBeRight, RowWillBeRight

FetchType == [filter: Filter, page: PageNo, data: SUBSET Entry, read: BOOLEAN]
DecisionType == [id: Row, filter: Filter, page: PageNo, at: {"table", "row", "gone"},
                 bars: BOOLEAN, served: BOOLEAN]
DetailType == [id: Row, status: {"loading", "open", "decided"}]

LEMMA SameRows ==
  ASSUME UNCHANGED <<list, rows>>
  PROVE  /\ \A f, p : PageOf(f, p)' = PageOf(f, p)
         /\ \A id : StatusOf(id)' = StatusOf(id)
         /\ Ids(ToSet(rows))' = Ids(ToSet(rows))
<1>1. \A f, p : PageOf(f, p)' = PageOf(f, p)
  BY SamePages
<1> QED
  BY <1>1 DEF StatusOf

LEMMA FiltersKnown ==
  ASSUME NEW l \in List, NEW f \in FilterOf[l]
  PROVE  f \in Filter
BY DEF List, FilterOf, Filter, ApplicationFilter, ReportFilter, AccountFilter, SessionFilter

(* t is s with a fetch for f and p added. *)
Added(s, f, p, t) ==
  /\ t \in Seq(FetchType) /\ t # << >>
  /\ t[Len(t)].filter = f /\ t[Len(t)].page = p /\ t[Len(t)].read = FALSE
  /\ \A i \in DOMAIN t : t[i].data = {} \/ \E j \in DOMAIN s : t[i].data = s[j].data

LEMMA FetchAdded ==
  ASSUME NEW s \in Seq(FetchType), NEW f \in Filter, NEW p \in PageNo
  PROVE  Added(s, f, p, Append(s, Fetch(f, p)))
<1>1. Fetch(f, p) \in FetchType
  BY DEF Fetch, FetchType
<1>2. /\ Fetch(f, p).filter = f /\ Fetch(f, p).page = p /\ Fetch(f, p).read = FALSE
      /\ Fetch(f, p).data = {}
  BY DEF Fetch
<1> HIDE DEF Fetch
<1> DEFINE t == Append(s, Fetch(f, p))
<1>3. /\ t \in Seq(FetchType) /\ Len(t) = Len(s) + 1 /\ t[Len(t)] = Fetch(f, p)
      /\ DOMAIN t = 1..(Len(s) + 1) /\ DOMAIN s = 1..Len(s) /\ Len(s) \in Nat
      /\ \A i \in 1..Len(s) : t[i] = s[i]
  BY <1>1
<1> HIDE DEF t
<1>4. \A i \in DOMAIN t : i = Len(t) \/ i \in DOMAIN s
  BY <1>3
<1>5. t # << >>
  BY <1>3
<1>6. Added(s, f, p, t)
  BY <1>2, <1>3, <1>4, <1>5 DEF Added
<1> QED
  BY <1>6 DEF t

LEMMA FetchRemoved ==
  ASSUME NEW s \in Seq(FetchType), NEW k \in DOMAIN s
  PROVE  /\ RemoveAt(s, k) \in Seq(FetchType)
         /\ LET t == RemoveAt(s, k) IN
              /\ \A i \in DOMAIN t : \E j \in DOMAIN s : t[i] = s[j]
              /\ k = 1 => IF Len(s) = 1 THEN t = << >> ELSE t # << >> /\ t[Len(t)] = s[Len(s)]
<1> DEFINE a == SubSeq(s, 1, k - 1)
           b == SubSeq(s, k + 1, Len(s))
           t == RemoveAt(s, k)
<1>1. k \in 1..Len(s) /\ Len(s) \in Nat
  OBVIOUS
<1>2. a \in Seq(FetchType) /\ Len(a) = k - 1 /\ \A i \in 1..(k - 1) : a[i] = s[i]
  BY <1>1
<1>3. /\ b \in Seq(FetchType) /\ Len(b) = Len(s) - k
      /\ \A i \in 1..(Len(s) - k) : b[i] = s[i + k]
  BY <1>1
<1>4. t = a \o b
  BY DEF RemoveAt
<1> HIDE DEF a, b, t
<1>7. t \in Seq(FetchType) /\ Len(t) = Len(s) - 1
  BY <1>1, <1>2, <1>3, <1>4
<1>8. \A i \in 1..Len(t) : t[i] = IF i <= Len(a) THEN a[i] ELSE b[i - Len(a)]
  BY <1>2, <1>3, <1>4, <1>7
<1>9. \A i \in 1..Len(t) : t[i] = IF i < k THEN s[i] ELSE s[i + 1]
  <2> TAKE i \in 1..Len(t)
  <2>1. CASE i < k
    BY <1>1, <1>2, <1>8, <2>1
  <2>2. CASE ~(i < k)
    <3>1. i - (k - 1) \in 1..(Len(s) - k) /\ (i - (k - 1)) + k = i + 1
      BY <1>1, <1>7, <2>2
    <3>2. t[i] = b[i - (k - 1)]
      <4>1. ~(i <= Len(a)) /\ i - Len(a) = i - (k - 1)
        BY <1>1, <1>2, <1>7, <2>2
      <4> QED
        BY <1>8, <4>1
    <3>3. b[i - (k - 1)] = s[(i - (k - 1)) + k]
      BY <1>3, <3>1
    <3> QED
      BY <2>2, <3>1, <3>2, <3>3
  <2> QED
    BY <2>1, <2>2
<1>5. \A i \in DOMAIN t : \E j \in DOMAIN s : t[i] = s[j]
  BY <1>1, <1>7, <1>9
<1>6. k = 1 => IF Len(s) = 1 THEN t = << >> ELSE t # << >> /\ t[Len(t)] = s[Len(s)]
  BY <1>1, <1>7, <1>9
<1> QED
  BY <1>5, <1>6, <1>7 DEF t

LEMMA SlipsGrow ==
  ASSUME NEW case \in BOOLEAN, NEW m, Slip(case, m), slips \subseteq AllowSlip
  PROVE  /\ slips \subseteq slips' /\ slips' \subseteq AllowSlip
         /\ slips' = {} => slips = {} /\ ~case
BY DEF Slip

(* What holds of the types, taken apart. *)
LEMMA DashTyped ==
  ASSUME DashTypeOK
  PROVE  /\ list \in List /\ rows \in Seq(Entry) /\ statusFilter \in FilterOf[list]
         /\ statusFilter \in Filter /\ page \in PageNo /\ data \subseteq Entry /\ loading \in BOOLEAN
         /\ fetching \in Seq(FetchType) /\ deciding \subseteq DecisionType
         /\ detail = Nowhere \/ detail \in DetailType
         /\ \A r \in DetailType : r # Nowhere
         /\ slips \subseteq AllowSlip
<1>1. list \in List /\ statusFilter \in FilterOf[list]
  BY DEF DashTypeOK
<1>2. \A r \in DetailType : r # Nowhere
  BY DEF DetailType, Nowhere
<1> QED
  BY <1>1, <1>2, FiltersKnown DEF DashTypeOK, FetchType, DecisionType, DetailType

LEMMA ShowPageKeeps ==
  ASSUME DashInv, NEW f \in FilterOf[list], NEW p \in PageNo, ShowPage(f, p)
  PROVE  DashInv'
<1>1. /\ detail = Nowhere /\ statusFilter' = f /\ page' = p
      /\ fetching' = Append(fetching, Fetch(f, p)) /\ loading' = TRUE
      /\ UNCHANGED <<list, rows, data, deciding, detail, slips>>
  BY DEF ShowPage
<1>2. DashTypeOK /\ list \in List /\ fetching \in Seq(FetchType)
  BY DashTyped DEF DashInv
<1>3. f \in Filter
  BY <1>2, FiltersKnown
<1>4. /\ fetching' \in Seq(FetchType) /\ fetching' # << >>
      /\ fetching'[Len(fetching')].filter = f /\ fetching'[Len(fetching')].page = p
      /\ fetching'[Len(fetching')].read = FALSE
      /\ \A i \in DOMAIN fetching' :
           fetching'[i].data = {} \/ \E j \in DOMAIN fetching : fetching'[i].data = fetching[j].data
  <2>1. Added(fetching, f, p, Append(fetching, Fetch(f, p)))
    BY <1>2, <1>3, FetchAdded
  <2> QED
    BY <1>1, <2>1 DEF Added
<1>5. DashTypeOK'
  BY <1>1, <1>2, <1>4 DEF DashTypeOK, FetchType
<1>6. RowsKnown'
  BY <1>1, <1>4, SameRows DEF DashInv, RowsKnown
<1>7. TableWillBeRight' \/ slips' # {}
  BY <1>1, <1>3, <1>4 DEF DashInv, TableWillBeRight, LastIsRight
<1>8. RowWillBeRight'
  BY <1>1 DEF RowWillBeRight
<1> QED
  BY <1>5, <1>6, <1>7, <1>8 DEF DashInv

LEMMA ReadPageKeeps ==
  ASSUME DashInv, NEW k, ReadPage(k)
  PROVE  DashInv'
<1> DEFINE new == [[fetching[k] EXCEPT !.data = PageOf(fetching[k].filter, fetching[k].page)]
                                EXCEPT !.read = TRUE]
<1>1. DashTypeOK /\ fetching \in Seq(FetchType) /\ rows \in Seq(Entry)
  BY DashTyped DEF DashInv
<1>2. /\ k \in DOMAIN fetching /\ k \in 1..Len(fetching) /\ fetching[k] \in FetchType
      /\ UNCHANGED <<list, rows, statusFilter, page, data, loading, deciding, detail, slips>>
  BY <1>1 DEF ReadPage
<1>3. fetching' = [fetching EXCEPT ![k] = new]
  BY <1>1, <1>2 DEF ReadPage
<1>4. PageOf(fetching[k].filter, fetching[k].page) \subseteq ToSet(rows)
  BY <1>1, PagesKnown
<1>5. ToSet(rows) \subseteq Entry
  BY <1>1 DEF ToSet
<1>6. /\ new \in FetchType /\ new.filter = fetching[k].filter /\ new.page = fetching[k].page
      /\ new.data = PageOf(fetching[k].filter, fetching[k].page)
  <2> HIDE DEF PageOf
  <2> QED
    BY <1>2, <1>4, <1>5 DEF FetchType
<1> HIDE DEF new
<1>7. /\ fetching' \in Seq(FetchType) /\ Len(fetching') = Len(fetching) /\ fetching' # << >>
      /\ DOMAIN fetching' = DOMAIN fetching /\ fetching # << >>
      /\ \A i \in DOMAIN fetching : fetching'[i] = IF i = k THEN new ELSE fetching[i]
  BY <1>1, <1>2, <1>3, <1>6
<1>8. DashTypeOK'
  BY <1>1, <1>2, <1>7 DEF DashTypeOK, FetchType
<1>9. RowsKnown'
  <2>1. \A r \in ToSet(rows) : r.id \in Ids(ToSet(rows))
    BY DEF Ids
  <2>2. ASSUME NEW i \in DOMAIN fetching', NEW r \in fetching'[i].data
        PROVE  r.id \in Ids(ToSet(rows))
    BY <1>4, <1>6, <1>7, <2>1, <2>2 DEF DashInv, RowsKnown
  <2> QED
    BY <1>2, <2>2, SameRows DEF DashInv, RowsKnown
<1>10. ASSUME slips' = {} PROVE TableWillBeRight' /\ RowWillBeRight'
  <2>1. TableWillBeRight /\ RowWillBeRight
    BY <1>2, <1>10 DEF DashInv
  <2>2. RowWillBeRight'
    BY <1>2, <2>1, SameRows DEF RowWillBeRight
  <2>3. LastIsRight => LastIsRight'
    <3>1. SUFFICES ASSUME LastIsRight PROVE LastIsRight'
      OBVIOUS
    <3>2. PICK f \in Filter, p \in PageNo :
            /\ fetching[Len(fetching)].filter = f /\ fetching[Len(fetching)].page = p
            /\ fetching[Len(fetching)].read => fetching[Len(fetching)].data = PageOf(f, p)
      BY <1>7, <3>1 DEF LastIsRight
    <3>3. PageOf(f, p)' = PageOf(f, p)
      BY <1>2, SamePages
    <3>4. /\ fetching'[Len(fetching')].filter = f /\ fetching'[Len(fetching')].page = p
          /\ fetching'[Len(fetching')].read => fetching'[Len(fetching')].data = PageOf(f, p)
      <4>1. Len(fetching) \in DOMAIN fetching
        BY <1>1, <1>2
      <4> QED
        BY <1>6, <1>7, <3>2, <4>1
    <3> QED
      BY <1>7, <3>3, <3>4 DEF LastIsRight
  <2> QED
    BY <1>2, <2>1, <2>2, <2>3 DEF TableWillBeRight
<1> QED
  BY <1>8, <1>9, <1>10 DEF DashInv

(* An answer that comes in its turn is the page that is set. *)
LEMMA TakePageKeeps ==
  ASSUME DashInv, NEW k, TakePage(k) \/ FetchFails(k)
  PROVE  DashInv'
<1>1. DashTypeOK /\ fetching \in Seq(FetchType) /\ slips \subseteq AllowSlip /\ data \subseteq Entry
  BY DashTyped DEF DashInv
<1>2. /\ k \in DOMAIN fetching /\ fetching' = RemoveAt(fetching, k) /\ loading' = FALSE
      /\ data' = data \/ (fetching[k].read /\ data' = fetching[k].data)
      /\ UNCHANGED <<list, rows, statusFilter, page, deciding, detail>>
  BY DEF TakePage, FetchFails
<1>3. /\ fetching' \in Seq(FetchType) /\ \A i \in DOMAIN fetching' : \E j \in DOMAIN fetching : fetching'[i] = fetching[j]
      /\ k = 1 => IF Len(fetching) = 1 THEN fetching' = << >>
                  ELSE fetching' # << >> /\ fetching'[Len(fetching')] = fetching[Len(fetching)]
  BY <1>1, <1>2, FetchRemoved
<1>4. slips \subseteq slips' /\ slips' \subseteq AllowSlip
  BY <1>1, SlipsGrow DEF TakePage, FetchFails
<1>5. fetching[k] \in FetchType /\ fetching # << >>
  BY <1>1, <1>2
<1>6. DashTypeOK'
  <2>1. data' \subseteq Entry
    BY <1>1, <1>2, <1>5 DEF FetchType
  <2> QED
    BY <1>1, <1>2, <1>3, <1>4, <2>1 DEF DashTypeOK, FetchType
<1>7. RowsKnown'
  BY <1>2, <1>3, SameRows DEF DashInv, RowsKnown
<1>8. ASSUME slips' = {} PROVE TableWillBeRight' /\ RowWillBeRight'
  <2>1. TableWillBeRight /\ RowWillBeRight /\ slips = {}
    BY <1>4, <1>8 DEF DashInv
  <2>2. /\ k = 1 /\ fetching[1].filter = statusFilter /\ fetching[1].page = page
        /\ data' = fetching[1].data /\ fetching[1].read
    BY <1>8 DEF TakePage, FetchFails, Slip
  <2>3. RowWillBeRight'
    BY <1>2, <2>1, SameRows DEF RowWillBeRight
  <2>4. ASSUME LastIsRight PROVE LastIsRight'
    <3>1. PICK f \in Filter, p \in PageNo :
            /\ fetching[Len(fetching)].filter = f /\ fetching[Len(fetching)].page = p
            /\ fetching[Len(fetching)].read => fetching[Len(fetching)].data = PageOf(f, p)
      BY <1>5, <2>4 DEF LastIsRight
    <3>2. PageOf(f, p)' = PageOf(f, p)
      BY <1>2, SamePages
    <3>3. CASE Len(fetching) = 1
      <4>1. f = statusFilter /\ p = page /\ data' = PageOf(f, p) /\ fetching' = << >>
        BY <1>3, <2>2, <3>1, <3>3
      <4>2. PageOf(statusFilter, page)' = PageOf(f, p)'
        BY <1>2, <4>1
      <4> QED
        BY <3>2, <4>1, <4>2 DEF LastIsRight
    <3>4. CASE Len(fetching) # 1
      BY <1>3, <2>2, <3>1, <3>2, <3>4 DEF LastIsRight
    <3> QED
      BY <3>3, <3>4
  <2> QED
    BY <1>2, <2>1, <2>3, <2>4 DEF TableWillBeRight
<1> QED
  BY <1>6, <1>7, <1>8 DEF DashInv

(* The decisions that are unheard of when a screen is left without a slip: *)
(* none.                                                                   *)
LEMMA PageLeft ==
  ASSUME DashInv, LeavePage
  PROVE  /\ deciding' \subseteq DecisionType /\ \A d \in deciding' : d.at = "gone" /\ \E e \in deciding : d.id = e.id
         /\ slips' \subseteq AllowSlip /\ slips \subseteq slips'
         /\ slips' = {} => deciding = {} /\ deciding' = {}
<1>1. deciding \subseteq DecisionType /\ slips \subseteq AllowSlip
  BY DashTyped DEF DashInv
<1>2. (\E d \in deciding : d.at # "gone") \in BOOLEAN
  OBVIOUS
<1>3. Slip(\E d \in deciding : d.at # "gone", "left") /\ deciding' = {[d EXCEPT !.at = "gone"] : d \in deciding}
  BY DEF LeavePage
<1>4. /\ slips' \subseteq AllowSlip /\ slips \subseteq slips'
      /\ slips' = {} => slips = {} /\ ~\E d \in deciding : d.at # "gone"
  BY <1>1, <1>2, <1>3, SlipsGrow
<1>5. \A d \in DecisionType : LET e == [d EXCEPT !.at = "gone"] IN e \in DecisionType /\ e.id = d.id /\ e.at = "gone"
  BY DEF DecisionType
<1>8. \A d \in deciding' : \E e \in deciding : e \in DecisionType /\ d = [e EXCEPT !.at = "gone"]
  BY <1>1, <1>3
<1>6. deciding' \subseteq DecisionType /\ \A d \in deciding' : d.at = "gone" /\ \E e \in deciding : d.id = e.id
  <2>1. ASSUME NEW d \in deciding'
        PROVE  d \in DecisionType /\ d.at = "gone" /\ \E e \in deciding : d.id = e.id
    <3>1. PICK e \in deciding : e \in DecisionType /\ d = [e EXCEPT !.at = "gone"]
      BY <1>8
    <3> QED
      BY <1>5, <3>1
  <2> QED
    BY <2>1
<1>7. slips' = {} => deciding = {}
  BY <1>4 DEF DashInv, TableWillBeRight, RowWillBeRight
<1> QED
  BY <1>3, <1>4, <1>6, <1>7

LEMMA OpenRowKeeps ==
  ASSUME DashInv, NEW r, OpenRow(r)
  PROVE  DashInv'
<1>1. /\ detail = Nowhere /\ r \in data /\ detail' = [id |-> r.id, status |-> "loading"]
      /\ statusFilter' = {} /\ page' = 1 /\ data' = {} /\ loading' = FALSE /\ fetching' = << >>
      /\ LeavePage /\ UNCHANGED <<list, rows>>
  BY DEF OpenRow
<1>2. DashTypeOK /\ list \in List /\ data \subseteq Entry
  BY DashTyped DEF DashInv
<1>3. detail' \in DetailType /\ detail' # Nowhere /\ detail'.id = r.id /\ detail'.status = "loading"
  BY <1>1, <1>2 DEF DetailType, Entry, Nowhere
<1>4. 1 \in PageNo /\ {} \in FilterOf[list]
  <2>1. Pages \in Nat \ {0}
    BY DashboardConstants
  <2> QED
    BY <1>2, <2>1 DEF PageNo, FilterOf, List, ApplicationFilter, ReportFilter, AccountFilter, SessionFilter
<1>5. /\ deciding' \subseteq DecisionType /\ \A d \in deciding' : d.at = "gone" /\ \E e \in deciding : d.id = e.id
      /\ slips' \subseteq AllowSlip /\ slips \subseteq slips'
      /\ slips' = {} => deciding = {} /\ deciding' = {}
  BY <1>1, PageLeft
<1>6. DashTypeOK'
  <2>1. data' \subseteq Entry /\ loading' \in BOOLEAN
    BY <1>1
  <2>3. << >> \in Seq(FetchType)
    OBVIOUS
  <2>4. fetching' \in Seq(FetchType)
    BY <1>1, <2>3
  <2>2. rows' \in Seq(Entry) /\ Len(rows') <= Rows /\ list' \in List
    BY <1>1, <1>2 DEF DashTypeOK
  <2> QED
    BY <1>1, <1>3, <1>4, <1>5, <2>1, <2>2, <2>4 DEF DashTypeOK, DecisionType, DetailType, FetchType
<1>7. RowsKnown'
  BY <1>1, <1>3, <1>5, SameRows DEF DashInv, RowsKnown
<1>8. slips' = {} => TableWillBeRight' /\ RowWillBeRight'
  BY <1>3, <1>5 DEF TableWillBeRight, RowWillBeRight
<1> QED
  BY <1>6, <1>7, <1>8 DEF DashInv

LEMMA BackToTableKeeps ==
  ASSUME DashInv, BackToTable
  PROVE  DashInv'
<1>1. /\ detail # Nowhere /\ detail' = Nowhere /\ LeavePage /\ UNCHANGED <<list, rows>>
      /\ statusFilter' = {} /\ page' = 1 /\ data' = {} /\ loading' = TRUE /\ fetching' = <<Fetch({}, 1)>>
  BY DEF BackToTable, TableInit
<1>2. DashTypeOK /\ list \in List
  BY DashTyped DEF DashInv
<1>3. 1 \in PageNo /\ {} \in FilterOf[list] /\ {} \in Filter
  <2>1. Pages \in Nat \ {0}
    BY DashboardConstants
  <2> QED
    BY <1>2, <2>1 DEF PageNo, Filter, FilterOf, List, ApplicationFilter, ReportFilter, AccountFilter, SessionFilter
<1>4. /\ deciding' \subseteq DecisionType /\ \A d \in deciding' : d.at = "gone" /\ \E e \in deciding : d.id = e.id
      /\ slips' \subseteq AllowSlip /\ slips \subseteq slips'
      /\ slips' = {} => deciding = {} /\ deciding' = {}
  BY <1>1, PageLeft
<1>5. Fetch({}, 1) \in FetchType
  BY <1>3 DEF Fetch, FetchType
<1>6. /\ Fetch({}, 1).filter = {} /\ Fetch({}, 1).page = 1 /\ Fetch({}, 1).read = FALSE
      /\ Fetch({}, 1).data = {}
  BY DEF Fetch
<1> HIDE DEF Fetch
<1>7. /\ fetching' \in Seq(FetchType) /\ fetching' # << >> /\ Len(fetching') = 1
      /\ fetching'[1] = Fetch({}, 1) /\ DOMAIN fetching' = {1}
  BY <1>1, <1>5
<1>8. DashTypeOK'
  BY <1>1, <1>2, <1>3, <1>4, <1>7 DEF DashTypeOK, DecisionType, FetchType
<1>9. RowsKnown'
  BY <1>1, <1>4, <1>6, <1>7, SameRows DEF DashInv, RowsKnown
<1>10. LastIsRight'
  BY <1>3, <1>6, <1>7 DEF LastIsRight
<1>11. slips' = {} => TableWillBeRight' /\ RowWillBeRight'
  BY <1>1, <1>4, <1>10 DEF TableWillBeRight, RowWillBeRight
<1> QED
  BY <1>8, <1>9, <1>11 DEF DashInv

LEMMA LoadRowKeeps ==
  ASSUME DashInv, NEW of, LoadRow(of, StatusOf(detail.id))
  PROVE  DashInv'
<1>1. /\ detail.status = "loading" /\ detail' = [detail EXCEPT !.status = StatusOf(detail.id)]
      /\ UNCHANGED <<list, rows, statusFilter, page, data, loading, fetching, deciding, slips>>
  BY DEF LoadRow, table
<1>2. DashTypeOK /\ detail \in DetailType
  BY <1>1, DashTyped DEF DashInv, Nowhere
<1>3. detail # Nowhere /\ detail.id \in Ids(ToSet(rows))
  BY <1>2, DashTyped DEF DashInv, RowsKnown
<1>4. StatusOf(detail.id) \in {"open", "decided"}
  BY <1>2, <1>3, StatusKnown
<1> HIDE DEF StatusOf
<1>5. /\ detail' \in DetailType /\ detail'.id = detail.id /\ detail'.status = StatusOf(detail.id)
  BY <1>1, <1>2, <1>4 DEF DetailType
<1>6. detail' # Nowhere
  BY <1>2, <1>5, DashTyped
<1>7. DashTypeOK'
  BY <1>1, <1>2, <1>5 DEF DashTypeOK, DetailType
<1>8. RowsKnown'
  BY <1>1, <1>3, <1>5, <1>6, SameRows DEF DashInv, RowsKnown
<1>9. StatusOf(detail.id)' = StatusOf(detail.id)
  BY <1>1, <1>5 DEF StatusOf
<1>10. ASSUME slips' = {} PROVE RowWillBeRight'
  BY <1>1, <1>3, <1>5, <1>9, <1>10 DEF DashInv, RowWillBeRight
<1> QED
  BY <1>6, <1>7, <1>8, <1>10 DEF DashInv, TableWillBeRight

LEMMA SendKeeps ==
  ASSUME DashInv, NEW r, NEW at \in {"table", "row"}, NEW bars \in BOOLEAN,
         r.id \in Ids(ToSet(rows)), Send(r, at, bars),
         IF detail = Nowhere THEN at = "table" ELSE at = "row" /\ r.id = detail.id
  PROVE  DashInv'
<1> DEFINE new == [id |-> r.id, filter |-> statusFilter, page |-> page, at |-> at, bars |-> bars,
                   served |-> FALSE]
<1>1. /\ deciding' = deciding \cup {new}
      /\ UNCHANGED <<list, rows, statusFilter, page, data, loading, fetching, detail, slips>>
  BY DEF Send, table
<1>2. /\ DashTypeOK /\ deciding \subseteq DecisionType /\ statusFilter \in Filter /\ page \in PageNo
  BY DashTyped DEF DashInv
<1>3. r.id \in Row
  BY <1>2, StatusKnown
<1>4. new \in DecisionType /\ new.id = r.id /\ new.at = at /\ ~new.served
  BY <1>2, <1>3 DEF DecisionType
<1> HIDE DEF new
<1>5. DashTypeOK'
  BY <1>1, <1>2, <1>4 DEF DashTypeOK, DecisionType
<1>6. RowsKnown'
  BY <1>1, <1>4, SameRows DEF DashInv, RowsKnown
<1>7. LastIsRight => LastIsRight'
  BY <1>1, SameRows DEF LastIsRight
<1>8. ASSUME slips' = {} PROVE TableWillBeRight' /\ RowWillBeRight'
  <2>1. TableWillBeRight /\ RowWillBeRight
    BY <1>1, <1>8 DEF DashInv
  <2>2. TableWillBeRight'
    BY <1>1, <1>4, <1>7, <2>1 DEF TableWillBeRight
  <2>3. RowWillBeRight'
    BY <1>1, <1>4, <2>1, SameRows DEF RowWillBeRight
  <2> QED
    BY <2>2, <2>3
<1> QED
  BY <1>5, <1>6, <1>8 DEF DashInv

LEMMA DecidersKeep ==
  ASSUME DashInv,
         \/ \E r \in data : DecideInTable(r)
         \/ DecideApplication \/ DecideReport \/ \E bars \in BOOLEAN : ActOnAccount(bars)
  PROVE  DashInv'
<1>1. CASE \E r \in data : DecideInTable(r)
  <2>1. PICK r \in data : detail = Nowhere /\ Send(r, "table", TRUE)
    BY <1>1 DEF DecideInTable
  <2>2. r.id \in Ids(ToSet(rows))
    BY DEF DashInv, RowsKnown
  <2> QED
    BY <2>1, <2>2, SendKeeps
<1>2. CASE DecideApplication \/ DecideReport \/ \E bars \in BOOLEAN : ActOnAccount(bars)
  <2>1. PICK bars \in BOOLEAN : Send(detail, "row", bars)
    BY <1>2 DEF DecideApplication, DecideReport, ActOnAccount
  <2>4. detail.status \in {"open", "decided"}
    BY <1>2 DEF DecideApplication, DecideReport, ActOnAccount
  <2>2. detail # Nowhere
    BY <2>4 DEF Nowhere
  <2>3. detail.id \in Ids(ToSet(rows))
    BY <2>2 DEF DashInv, RowsKnown
  <2> QED
    BY <2>1, <2>2, <2>3, SendKeeps
<1> QED
  BY <1>1, <1>2

(* The backend serves a decision: the row is decided, or as it was.        *)
LEMMA ServedKeeps ==
  ASSUME DashInv, NEW d \in deciding, Served(d),
         \/ rows' = Decided(d.id) /\ (d.bars \/ list # "accounts")
         \/ rows' = rows /\ list = "accounts"
  PROVE  DashInv'
<1> DEFINE new == [d EXCEPT !.served = TRUE]
<1>1. /\ deciding' = (deciding \ {d}) \cup {new} /\ ~d.served
      /\ UNCHANGED <<list, statusFilter, page, data, loading, fetching, detail, slips>>
  BY DEF Served, table
<1>2. DashTypeOK /\ d \in DecisionType /\ rows \in Seq(Entry) /\ d.id \in Ids(ToSet(rows))
  BY DashTyped DEF DashInv, RowsKnown
<1>3. /\ new \in DecisionType /\ new.id = d.id /\ new.served /\ new.at = d.at /\ new.bars = d.bars
  BY <1>2 DEF DecisionType
<1> HIDE DEF new
<1>4. /\ rows' \in Seq(Entry) /\ Len(rows') = Len(rows) /\ Ids(ToSet(rows')) = Ids(ToSet(rows))
      /\ rows' = Decided(d.id) => (CHOOSE r \in ToSet(rows') : r.id = d.id).status = "decided"
  BY <1>2, RowDecided
<1>5. DashTypeOK'
  BY <1>1, <1>2, <1>3, <1>4, DashTyped DEF DashTypeOK, DecisionType
<1>6. RowsKnown'
  BY <1>1, <1>2, <1>3, <1>4 DEF DashInv, RowsKnown
<1>7. ASSUME slips' = {} PROVE TableWillBeRight' /\ RowWillBeRight'
  <2>1. TableWillBeRight /\ RowWillBeRight
    BY <1>1, <1>7 DEF DashInv
  <2>2. TableWillBeRight'
    BY <1>1, <1>3, <2>1 DEF TableWillBeRight
  <2>3. RowWillBeRight'
    <3>1. SUFFICES ASSUME detail # Nowhere
          PROVE  /\ \A e \in deciding' :
                      /\ e.at = "row" /\ e.id = detail.id
                      /\ e.served /\ list \in Review => StatusOf(detail.id)' = "decided"
                 /\ \/ detail.status \in {"loading", StatusOf(detail.id)'}
                    \/ /\ detail.status = "open" /\ StatusOf(detail.id)' = "decided"
                       /\ \E e \in deciding' : e.served /\ (e.bars \/ list # "accounts")
      BY <1>1 DEF RowWillBeRight
    <3>2. /\ d.id = detail.id /\ d.at = "row" /\ \A e \in deciding' : e.at = "row" /\ e.id = detail.id
      BY <1>1, <1>3, <2>1, <3>1 DEF RowWillBeRight
    <3>3. CASE rows' = Decided(d.id) /\ (d.bars \/ list # "accounts")
      <4>1. StatusOf(detail.id)' = "decided"
        BY <1>1, <1>4, <3>2, <3>3 DEF StatusOf
      <4>2. StatusOf(detail.id) \in {"open", "decided"}
        BY <1>2, <3>2, StatusKnown
      <4>3. detail.status \in {"loading", "open", "decided"}
        BY <2>1, <3>1, <4>2 DEF RowWillBeRight
      <4> QED
        BY <1>1, <1>3, <3>2, <3>3, <4>1, <4>3
    <3>4. CASE rows' = rows /\ list = "accounts"
      <4>1. StatusOf(detail.id)' = StatusOf(detail.id) /\ list \notin Review
        BY <1>1, <3>4 DEF StatusOf, Review
      <4> QED
        BY <1>1, <2>1, <3>1, <3>2, <4>1 DEF RowWillBeRight
    <3> QED
      BY <3>3, <3>4
  <2> QED
    BY <2>2, <2>3
<1> QED
  BY <1>5, <1>6, <1>7 DEF DashInv

LEMMA ServersKeep ==
  ASSUME DashInv, NEW d \in deciding, ServeReview(d) \/ takeAccountAction(d)
  PROVE  DashInv'
<1>1. CASE ServeReview(d)
  BY <1>1, ServedKeeps DEF ServeReview
<1>2. CASE takeAccountAction(d)
  <2>1. list = "accounts" /\ Served(d) /\ rows' = IF d.bars THEN Decided(d.id) ELSE rows
    BY <1>2 DEF takeAccountAction
  <2> QED
    BY <2>1, ServedKeeps
<1> QED
  BY <1>1, <1>2

(* A decision that ends, with no change to the table, the rows or the row  *)
(* that is shown but its status.                                           *)
LEMMA DecisionEnds ==
  ASSUME DashInv, NEW d \in deciding, deciding' = deciding \ {d},
         UNCHANGED <<list, rows, statusFilter, page, data, loading, fetching>>,
         slips \subseteq slips', slips' \subseteq AllowSlip,
         \/ UNCHANGED detail
         \/ detail # Nowhere /\ d.served /\ list \in Review /\ detail' = [detail EXCEPT !.status = "decided"],
         slips' = {} => /\ d.served => detail # Nowhere
                        /\ d.served /\ list = "accounts" => ~(d.bars /\ detail.status = "open")
                        /\ d.served => list = "accounts" \/ detail'.status = "decided"
  PROVE  DashInv'
<1>1. /\ DashTypeOK /\ deciding \subseteq DecisionType
      /\ detail = Nowhere \/ detail \in DetailType
      /\ \A r \in DetailType : r # Nowhere
  BY DashTyped DEF DashInv
<1>2. /\ \/ detail' = detail
         \/ detail' \in DetailType /\ detail'.id = detail.id /\ detail'.status = "decided"
      /\ (detail' = Nowhere) <=> (detail = Nowhere)
  <2>1. CASE detail' = [detail EXCEPT !.status = "decided"] /\ detail # Nowhere
    <3>1. detail \in DetailType
      BY <1>1, <2>1
    <3>2. detail' \in DetailType /\ detail'.id = detail.id /\ detail'.status = "decided"
      BY <2>1, <3>1 DEF DetailType
    <3> QED
      BY <1>1, <2>1, <3>2
  <2> QED
    BY <2>1
<1>3. DashTypeOK'
  BY <1>1, <1>2 DEF DashTypeOK, DetailType
<1>4. RowsKnown'
  BY <1>2, SameRows DEF DashInv, RowsKnown
<1>5. ASSUME slips' = {} PROVE TableWillBeRight' /\ RowWillBeRight'
  <2>1. TableWillBeRight /\ RowWillBeRight
    BY <1>5 DEF DashInv
  <2>2. TableWillBeRight'
    <3>1. LastIsRight => LastIsRight'
      BY SameRows DEF LastIsRight
    <3> QED
      BY <1>2, <1>5, <2>1, <3>1 DEF TableWillBeRight
  <2>3. RowWillBeRight'
    <3>1. SUFFICES ASSUME detail # Nowhere
          PROVE  /\ \A e \in deciding' :
                      /\ e.at = "row" /\ e.id = detail'.id
                      /\ e.served /\ list \in Review => StatusOf(detail.id)' = "decided"
                 /\ \/ detail'.status \in {"loading", StatusOf(detail.id)'}
                    \/ /\ detail'.status = "open" /\ StatusOf(detail.id)' = "decided"
                       /\ \E e \in deciding' : e.served /\ (e.bars \/ list # "accounts")
      BY <1>2 DEF RowWillBeRight
    <3>2. StatusOf(detail.id)' = StatusOf(detail.id) /\ detail'.id = detail.id
      BY <1>2 DEF StatusOf
    <3>3. CASE UNCHANGED detail
      BY <1>5, <2>1, <3>1, <3>2, <3>3 DEF RowWillBeRight
    <3>4. CASE detail'.status = "decided" /\ d.served /\ list \in Review
      BY <2>1, <3>1, <3>2, <3>4 DEF RowWillBeRight
    <3> QED
      BY <1>1, <1>2, <3>1, <3>3, <3>4
  <2> QED
    BY <2>2, <2>3
<1> QED
  BY <1>3, <1>4, <1>5 DEF DashInv

LEMMA ToldInTableKeeps ==
  ASSUME DashInv, NEW d \in deciding, ToldInTable(d)
  PROVE  DashInv'
<1>1. /\ deciding' = deciding \ {d} /\ d.at = "table"
      /\ fetching' = Append(fetching, Fetch(d.filter, d.page)) /\ loading' = TRUE
      /\ UNCHANGED <<list, rows, statusFilter, page, data, detail, slips>>
  BY DEF ToldInTable, Told, Refetch
<1>2. DashTypeOK /\ fetching \in Seq(FetchType) /\ d \in DecisionType
  BY DashTyped DEF DashInv
<1>3. d.filter \in Filter /\ d.page \in PageNo
  BY <1>2 DEF DecisionType
<1>4. Added(fetching, d.filter, d.page, fetching')
  BY <1>1, <1>2, <1>3, FetchAdded
<1>5. DashTypeOK'
  BY <1>1, <1>2, <1>4 DEF DashTypeOK, FetchType, Added
<1>6. RowsKnown'
  BY <1>1, <1>4, SameRows DEF DashInv, RowsKnown, Added
<1>7. LastIsRight'
  BY <1>3, <1>4 DEF LastIsRight, Added
<1>8. ASSUME slips' = {} PROVE TableWillBeRight' /\ RowWillBeRight'
  <2>1. TableWillBeRight /\ RowWillBeRight
    BY <1>1, <1>8 DEF DashInv
  <2>2. detail = Nowhere
    BY <1>1, <2>1 DEF RowWillBeRight
  <2> QED
    BY <1>1, <1>7, <2>1, <2>2 DEF TableWillBeRight, RowWillBeRight
<1> QED
  BY <1>5, <1>6, <1>8 DEF DashInv

LEMMA TellersKeep ==
  ASSUME DashInv, NEW d \in deciding,
         ToldNobody(d) \/ ReviewTold(d) \/ AccountActionTold(d) \/ DecisionFailed(d)
  PROVE  DashInv'
<1>1. slips \subseteq AllowSlip
  BY DashTyped DEF DashInv
<1>2. ASSUME slips = {}
      PROVE  /\ d.at # "gone"
             /\ d.at = "row" => detail # Nowhere
  BY <1>2 DEF DashInv, RowsKnown, TableWillBeRight, RowWillBeRight
<1>3. CASE ToldNobody(d)
  <2>1. /\ d.at = "gone" /\ deciding' = deciding \ {d}
        /\ UNCHANGED <<list, rows, statusFilter, page, data, loading, fetching, detail, slips>>
    BY <1>3 DEF ToldNobody, Told, table
  <2> QED
    BY <1>1, <1>2, <2>1, DecisionEnds
<1>4. CASE ReviewTold(d)
  <2>1. /\ d.at = "row" /\ d.served /\ deciding' = deciding \ {d} /\ list \in Review
        /\ detail' = [detail EXCEPT !.status = "decided"]
        /\ UNCHANGED <<list, rows, statusFilter, page, data, loading, fetching, slips>>
    BY <1>4 DEF ReviewTold, Told, table, Review
  <2>2. detail # Nowhere
    BY <2>1 DEF DashInv, RowsKnown
  <2>3. detail \in DetailType
    BY <2>2, DashTyped DEF DashInv
  <2>4. detail'.status = "decided" /\ list # "accounts"
    BY <2>1, <2>3 DEF DetailType, Review
  <2> QED
    BY <1>1, <2>1, <2>2, <2>4, DecisionEnds
<1>5. CASE AccountActionTold(d)
  <2>1. /\ d.at = "row" /\ d.served /\ deciding' = deciding \ {d} /\ list = "accounts"
        /\ Slip(d.bars /\ detail.status = "open", "acted")
        /\ UNCHANGED <<list, rows, statusFilter, page, data, loading, fetching, detail>>
    BY <1>5 DEF AccountActionTold, Told, table
  <2>2. /\ slips \subseteq slips' /\ slips' \subseteq AllowSlip
        /\ slips' = {} => slips = {} /\ ~(d.bars /\ detail.status = "open")
    BY <1>1, <2>1 DEF Slip
  <2> QED
    BY <1>2, <2>1, <2>2, DecisionEnds
<1>6. CASE DecisionFailed(d)
  <2>1. /\ deciding' = deciding \ {d} /\ Slip(d.served \/ StatusOf(d.id) = "open", "failed")
        /\ UNCHANGED <<list, rows, statusFilter, page, data, loading, fetching, detail>>
    BY <1>6 DEF DecisionFailed, table
  <2>2. /\ slips \subseteq slips' /\ slips' \subseteq AllowSlip /\ (slips' = {} => ~d.served)
    BY <1>1, <2>1 DEF Slip
  <2> QED
    BY <2>1, <2>2, DecisionEnds
<1> QED
  BY <1>3, <1>4, <1>5, <1>6

(* Others change the list: from then on nothing is promised.               *)
LEMMA OthersKeep ==
  ASSUME DashInv, (\E id \in Row : DecidedElsewhere(id)) \/ Arrives
  PROVE  DashInv'
<1>1. DashTypeOK /\ slips \subseteq AllowSlip /\ rows \in Seq(Entry) /\ Len(rows) <= Rows
  BY DashTyped DEF DashInv, DashTypeOK
<1>2. UNCHANGED <<list, statusFilter, page, data, loading, fetching, deciding, detail>>
  BY DEF DecidedElsewhere, Arrives, table
<1>3. slips' # {} /\ slips' \subseteq AllowSlip
  BY <1>1 DEF DecidedElsewhere, Arrives, Slip
<1>4. rows' \in Seq(Entry) /\ Len(rows') <= Rows /\ Ids(ToSet(rows)) \subseteq Ids(ToSet(rows'))
  <2>1. CASE \E id \in Row : DecidedElsewhere(id)
    <3>1. PICK id \in Row : rows' = Decided(id) /\ \E r \in ToSet(rows) : r.id = id
      BY <2>1 DEF DecidedElsewhere
    <3>2. id \in Ids(ToSet(rows))
      BY <3>1 DEF Ids
    <3> QED
      BY <1>1, <3>1, <3>2, RowDecided
  <2>2. CASE Arrives
    <3> DEFINE new == [id |-> Len(rows) + 1, status |-> "open"]
    <3>1. rows' = <<new>> \o rows /\ Len(rows) < Rows
      BY <2>2 DEF Arrives
    <3>2. new \in Entry
      <4>1. Rows \in Nat
        BY DashboardConstants
      <4> QED
        BY <1>1, <3>1, <4>1 DEF Entry, Row
    <3> HIDE DEF new
    <3>3. /\ rows' \in Seq(Entry) /\ Len(rows') = Len(rows) + 1
          /\ \A i \in 1..Len(rows) : rows'[i + 1] = rows[i]
      BY <1>1, <3>1, <3>2
    <3>4. ToSet(rows) \subseteq ToSet(rows')
      <4>1. \A i \in 1..Len(rows) : i + 1 \in 1..Len(rows')
        BY <1>1, <3>3
      <4> QED
        BY <1>1, <3>3, <4>1 DEF ToSet
    <3>5. Len(rows') <= Rows
      <4>1. Rows \in Nat
        BY DashboardConstants
      <4> QED
        BY <1>1, <3>1, <3>3, <4>1
    <3> QED
      BY <3>3, <3>4, <3>5 DEF Ids
  <2> QED
    BY <2>1, <2>2
<1>5. DashTypeOK'
  BY <1>1, <1>2, <1>3, <1>4 DEF DashTypeOK
<1>6. RowsKnown'
  BY <1>2, <1>4 DEF DashInv, RowsKnown
<1> QED
  BY <1>3, <1>5, <1>6 DEF DashInv

LEMMA DashStill ==
  ASSUME DashInv, UNCHANGED dashVars
  PROVE  DashInv'
<1>1. UNCHANGED <<list, rows, statusFilter, page, data, loading, fetching, deciding, detail, slips>>
  BY DEF dashVars, table
<1>2. DashTypeOK' /\ RowsKnown'
  BY <1>1, SameRows DEF DashInv, DashTypeOK, RowsKnown
<1>3. (LastIsRight => LastIsRight') /\ (RowWillBeRight => RowWillBeRight')
  BY <1>1, SameRows DEF LastIsRight, RowWillBeRight
<1> QED
  BY <1>1, <1>2, <1>3 DEF DashInv, TableWillBeRight

LEMMA DashStep ==
  ASSUME DashInv, [DashNext]_dashVars
  PROVE  DashInv'
<1>1. CASE UNCHANGED dashVars
  BY <1>1, DashStill
<1>2. CASE (\E f \in Filter : SetFilter(f)) \/ (\E p \in PageNo : SetPage(p)) \/ ClearSearch
  <2>1. statusFilter \in FilterOf[list] /\ page \in PageNo /\ 1 \in PageNo
    <3>1. Pages \in Nat \ {0}
      BY DashboardConstants
    <3> QED
      BY <3>1, DashTyped DEF DashInv, PageNo
  <2>2. list = "accounts" => statusFilter \ {"named"} \in FilterOf[list]
    BY <2>1 DEF FilterOf, AccountFilter
  <2> QED
    BY <1>2, <2>1, <2>2, ShowPageKeeps DEF SetFilter, SetPage, ClearSearch
<1>3. CASE \E i \in 1..(Fetches + 1) : ReadPage(i) \/ TakePage(i) \/ FetchFails(i)
  BY <1>3, ReadPageKeeps, TakePageKeeps
<1>4. CASE \E r \in data : OpenRow(r)
  BY <1>4, OpenRowKeeps
<1>5. CASE \/ \E r \in data : DecideInTable(r)
           \/ DecideApplication \/ DecideReport \/ \E bars \in BOOLEAN : ActOnAccount(bars)
  BY <1>5, DecidersKeep
<1>6. CASE LoadApplication \/ LoadReport \/ LoadAccount
  BY <1>6, LoadRowKeeps DEF LoadApplication, LoadReport, LoadAccount, getVolunteerApplication,
     findReport, findAccount
<1>7. CASE BackToTable
  BY <1>7, BackToTableKeeps
<1>8. CASE \E d \in deciding : ServeReview(d) \/ takeAccountAction(d)
  BY <1>8, ServersKeep
<1>9. CASE \E d \in deciding : ToldInTable(d)
  BY <1>9, ToldInTableKeeps
<1>10. CASE \E d \in deciding : ToldNobody(d) \/ ReviewTold(d) \/ AccountActionTold(d) \/ DecisionFailed(d)
  BY <1>10, TellersKeep
<1>11. CASE (\E id \in Row : DecidedElsewhere(id)) \/ Arrives
  BY <1>11, OthersKeep
<1> QED
  BY <1>1, <1>2, <1>3, <1>4, <1>5, <1>6, <1>7, <1>8, <1>9, <1>10, <1>11 DEF DashNext

(* When nothing is in flight an admin who made no slip sees the page that  *)
(* he set and the status of the row that he opened, as the backend has     *)
(* them, however fetches and decisions crossed, for any rows, pages and    *)
(* calls in flight (volunteer-applications/page.tsx:26-73).                *)
THEOREM RightDashboard == DashSpec => []DashboardIsRight
<1>1. DashInit => DashInv
  BY DashStarts
<1>2. DashInv /\ [DashNext]_dashVars => DashInv'
  BY DashStep
<1>3. DashInv => DashboardIsRight
  BY DEF DashInv, DashboardIsRight, TableWillBeRight, LastIsRight, RowWillBeRight
<1> QED
  BY <1>1, <1>2, <1>3, PTL DEF DashSpec
=============================================================================
