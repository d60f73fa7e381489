----------------------------- MODULE ProfileCache -----------------------------
(***************************************************************************)
(* A volunteer's profile on his phone: the row the backend keeps, the copy *)
(* in the query cache, the two screens with a switch for his availability  *)
(* and the screen that edits the rest.  A switch is optimistic: it changes *)
(* the cache before the backend answers and puts the old copy back when    *)
(* the answer is an error.  Every answer starts a refetch.                 *)
(*                                                                         *)
(* A step is what JavaScript runs without waiting: cancelQueries, the      *)
(* write to the cache and the effects that follow from it are one.         *)
(***************************************************************************)
EXTENDS Integers, Sequences, FiniteSets

CONSTANTS
  Value,       \* values of an edited field
  CallBound,   \* bound: PATCH calls in flight at once
  MishapBound, \* bound: kinds of mishap in one behaviour, each happens once
  AllowMishap,
  None

(* refused: the backend refuses a call, the account being suspended.       *)
(* lost: the answer to a PATCH is lost.                                    *)
(* unfetched: a GET fails.                                                 *)
(* elsewhere: another device of the volunteer edits the profile.           *)
(* overlap: a switch is tapped while the call of another screen, or of an  *)
(*   earlier visit to this one, is in flight.                              *)
(* left_saving: the editor is left while it saves.                         *)
(* away: a PATCH or a refetch is in flight while the editor is opened.     *)
ProfileMishap ==
  {"refused", "lost", "unfetched", "elsewhere", "overlap", "left_saving", "away"}

Field == {"about", "specialisationIds"}
Edited == [Field -> Value]
Profile == [isAvailable : BOOLEAN, edited : Edited]
Toggling == {"connect", "p2p"}
Screen == Toggling \cup {"settings", "edit"}
Slot == 1..CallBound

(* `live`: the screen that called is still mounted, so that it is told.    *)
StatusCall ==
  [screen : Toggling, live : BOOLEAN, to : BOOLEAN, was : BOOLEAN, before : Profile,
   state : {"sent", "done", "refused"}]
(* What a save sends: the fields that were changed. *)
SaveCall ==
  [screen : {"edit"}, live : BOOLEAN, changed : UNION {[F -> Value] : F \in SUBSET Field},
   state : {"sent", "done", "refused"}]

ASSUME ProfileConstants ==
  /\ CallBound \in Nat /\ MishapBound \in Nat
  /\ AllowMishap \subseteq ProfileMishap
  /\ None \notin Profile \cup StatusCall \cup SaveCall

VARIABLES
  row,       \* volunteer_profile and volunteer_specialisation of the account
  cache,     \* the cached profile, or None
  fresh,     \* it is neither invalidated nor older than staleTime
  fetch,     \* the GET in flight, if any: <<None>>, then <<the profile it has read>>
  mounted,   \* the screens that are mounted
  top,       \* the screen in front, "home" being any other
  selected,  \* what each switch shows
  form,      \* what the editor shows, or None
  patch,     \* the PATCH calls in flight
  choice,    \* history: the option tapped last
  hitches    \* history: the mishaps so far

profileVars == <<row, cache, fresh, fetch, mounted, top, selected, form, patch, choice, hitches>>

ProfileTypeOK ==
  /\ row \in Profile /\ cache \in Profile \cup {None} /\ fresh \in BOOLEAN
  /\ fetch \in {<< >>} \cup {<<p>> : p \in Profile \cup {None}}
  /\ mounted \subseteq Screen /\ top \in Screen \cup {"home"}
  /\ selected \in [Toggling -> BOOLEAN]
  /\ form \in Edited \cup {None}
  /\ patch \in [Slot -> StatusCall \cup SaveCall \cup {None}]
  /\ choice \in BOOLEAN /\ hitches \subseteq AllowMishap

ProfileInit ==
  /\ row \in Profile
  /\ cache = None /\ fresh = FALSE /\ fetch = << >>
  /\ mounted = {} /\ top = "home"
  /\ selected = [s \in Toggling |-> FALSE]
  /\ form = None
  /\ patch = [i \in Slot |-> None]
  /\ choice = row.isAvailable /\ hitches = {}

-----------------------------------------------------------------------------
Hitch(case, m) ==
  IF case THEN /\ m \in AllowMishap \ hitches
               /\ Cardinality(hitches) < MishapBound
               /\ hitches' = hitches \cup {m}
  ELSE UNCHANGED hitches

InFlight == {i \in Slot : patch[i] # None}
Pending(s) == \E i \in InFlight : patch[i].screen = s /\ patch[i].live
Free == CHOOSE i \in Slot : patch[i] = None
CanCall == \E i \in Slot : patch[i] = None

Mut_SyncAlways(new) ==
  /\ selected' = [s \in Toggling |-> IF s \in mounted THEN new.isAvailable ELSE selected[s]]
  /\ form' = IF "edit" \in mounted THEN new.edited ELSE form

(* The effects of the mounted screens when the cache becomes `new`: each   *)
(* runs when the value it depends on changes.  The list of specialisations *)
(* is mapped anew in every render (editVolunteerProfile.tsx:33) and is the *)
(* same value only because the React compiler memoizes it                  *)
(* (app.config.ts:99); without the compiler it would change every time.    *)
Sync(new) ==
  /\ selected' = [s \in Toggling |->
       IF s \in mounted /\ (cache = None \/ cache.isAvailable # new.isAvailable)
       THEN new.isAvailable ELSE selected[s]]
  /\ form' = IF "edit" \notin mounted THEN form
             ELSE [f \in Field |->
                     IF cache = None \/ cache.edited[f] # new.edited[f]
                     THEN new.edited[f] ELSE form[f]]

(* invalidateQueries: what is mounted refetches, and the answer of a GET   *)
(* in flight is dropped.                                                   *)
Invalidate ==
  /\ fresh' = FALSE
  /\ fetch' = IF mounted # {} THEN <<None>> ELSE fetch

-----------------------------------------------------------------------------
(* useQuery of a screen that mounts fetches what is stale or missing. *)
MountQuery ==
  fetch' = IF fetch = << >> /\ ~fresh THEN <<None>> ELSE fetch

(* A tab is mounted when it is first opened and stays so. *)
OpenTab(s) ==
  /\ s \in {"connect", "settings", "home"}
  /\ top \in {"connect", "settings", "home"} \ {s}
  /\ top' = s
  /\ IF s \in mounted \cup {"home"}
     THEN UNCHANGED <<mounted, selected, fetch>>
     ELSE /\ mounted' = mounted \cup {s}
          /\ selected' = IF s = "connect" THEN [selected EXCEPT ![s] = cache # None /\ cache.isAvailable]
                         ELSE selected
          /\ MountQuery
  /\ UNCHANGED <<row, cache, fresh, form, patch, choice, hitches>>

(* The pushed screens: the second switch, behind the proTalk tab, ...      *)
OpenP2p ==
  /\ top = "home"
  /\ top' = "p2p" /\ mounted' = mounted \cup {"p2p"}
  /\ selected' = [selected EXCEPT !["p2p"] = cache # None /\ cache.isAvailable]
  /\ MountQuery
  /\ UNCHANGED <<row, cache, fresh, form, patch, choice, hitches>>

(* ... and the editor, behind Settings, which shows its button only once   *)
(* the profile is loaded.                                                  *)
OpenEdit ==
  /\ top = "settings" /\ cache # None
  /\ top' = "edit" /\ mounted' = mounted \cup {"edit"}
  /\ form' = cache.edited
  /\ Hitch(InFlight # {} \/ fetch # << >>, "away")
  /\ MountQuery
  /\ UNCHANGED <<row, cache, fresh, selected, patch, choice>>

(* A pushed screen is left, its calls go on unheard. *)
Unmounted(s) == [i \in Slot |->
  IF patch[i] # None /\ patch[i].screen = s THEN [patch[i] EXCEPT !.live = FALSE] ELSE patch[i]]
Leave(s) ==
  /\ mounted' = mounted \ {s}
  /\ top' = IF s = "edit" THEN "settings" ELSE "home"
  /\ form' = IF s = "edit" THEN None ELSE form

Back ==
  /\ top \in {"p2p", "edit"}
  /\ Leave(top)
  /\ patch' = Unmounted(top)
  /\ Hitch(Pending("edit"), "left_saving")
  /\ UNCHANGED <<row, cache, fresh, fetch, selected, choice>>

RetryFetch ==
  /\ top = "settings" /\ cache = None /\ fetch = << >>
  /\ fetch' = <<None>>
  /\ UNCHANGED <<row, cache, fresh, mounted, top, selected, form, patch, choice, hitches>>

-----------------------------------------------------------------------------
(* The switch of s is enabled. *)
Enabled(s) == ~Pending(s) /\ cache # None

(* handleToggle and onMutate: the GET in flight is dropped, the copy is    *)
(* kept for the rollback and changed.                                      *)
Toggle(s) ==
  /\ top = s /\ s \in Toggling /\ Enabled(s) /\ CanCall
  /\ LET to == ~selected[s] IN
     LET new == [cache EXCEPT !.isAvailable = to] IN
       /\ patch' = [patch EXCEPT ![Free] =
            [screen |-> s, live |-> TRUE, to |-> to, was |-> selected[s], before |-> cache,
             state |-> "sent"]]
       /\ cache' = new /\ fresh' = TRUE /\ fetch' = << >>
       /\ selected' = [t \in Toggling |->
            IF t = s \/ (t \in mounted /\ cache.isAvailable # to) THEN to ELSE selected[t]]
       /\ choice' = to
  /\ Hitch(\E i \in InFlight : patch[i].screen \in Toggling /\ ~(patch[i].screen = s /\ patch[i].live),
           "overlap")
  /\ UNCHANGED <<row, mounted, top, form>>

(* updateStatus and updateProfile of the backend. *)
Serve(i) ==
  /\ patch[i] # None /\ patch[i].state = "sent"
  /\ row' = IF patch[i].screen = "edit"
            THEN [row EXCEPT !.edited = [f \in Field |->
                    IF f \in DOMAIN patch[i].changed THEN patch[i].changed[f] ELSE @[f]]]
            ELSE [row EXCEPT !.isAvailable = patch[i].to]
  /\ patch' = [patch EXCEPT ![i].state = "done"]
  /\ UNCHANGED <<cache, fresh, fetch, mounted, top, selected, form, choice, hitches>>

Refuse(i) ==
  /\ patch[i] # None /\ patch[i].state = "sent"
  /\ Hitch(TRUE, "refused")
  /\ patch' = [patch EXCEPT ![i].state = "refused"]
  /\ UNCHANGED <<row, cache, fresh, fetch, mounted, top, selected, form, choice>>

(* onSettled of a switch. *)
Settled == Invalidate

ToggleAnswered(i) ==
  /\ patch[i] # None /\ patch[i].screen \in Toggling /\ patch[i].state = "done"
  /\ Settled
  /\ patch' = [patch EXCEPT ![i] = None]
  /\ UNCHANGED <<row, cache, mounted, top, selected, form, choice, hitches>>

Mut_NoRollback(i) == cache

(* onError of a switch puts the whole copy back.                           *)
RolledBack(i) == patch[i].before

(* An error: the rollback, the refetch and then, if the screen still       *)
(* listens, the option it showed when it was tapped.                       *)
ToggleFailed(i) ==
  /\ patch[i] # None /\ patch[i].screen \in Toggling
  /\ Hitch(patch[i].state # "refused", "lost")
  /\ cache' = RolledBack(i)
  /\ Settled
  /\ LET new == RolledBack(i) IN
       /\ form' = IF "edit" \notin mounted THEN form
                  ELSE [f \in Field |-> IF cache.edited[f] # new.edited[f] THEN new.edited[f]
                                        ELSE form[f]]
       /\ selected' = [s \in Toggling |->
            IF s = patch[i].screen /\ patch[i].live THEN patch[i].was
            ELSE IF s \in mounted /\ cache.isAvailable # new.isAvailable THEN new.isAvailable
            ELSE selected[s]]
  /\ patch' = [patch EXCEPT ![i] = None]
  /\ UNCHANGED <<row, mounted, top, choice>>

-----------------------------------------------------------------------------
FetchRead ==
  /\ fetch = <<None>>
  /\ fetch' = <<row>>
  /\ UNCHANGED <<row, cache, fresh, mounted, top, selected, form, patch, choice, hitches>>

FetchAnswered ==
  /\ fetch \notin {<< >>, <<None>>}
  /\ cache' = fetch[1] /\ fresh' = TRUE /\ fetch' = << >>
  /\ Sync(fetch[1])
  /\ UNCHANGED <<row, mounted, top, patch, choice, hitches>>

FetchFailed ==
  /\ fetch # << >>
  /\ Hitch(TRUE, "unfetched")
  /\ fetch' = << >>
  /\ UNCHANGED <<row, cache, fresh, mounted, top, selected, form, patch, choice>>

(* staleTime passes. *)
GoesStale ==
  /\ fresh /\ cache # None /\ InFlight = {}
  /\ fresh' = FALSE
  /\ UNCHANGED <<row, cache, fetch, mounted, top, selected, form, patch, choice, hitches>>

-----------------------------------------------------------------------------
(* The editor's field f is changed. *)
Type(f, v) ==
  /\ top = "edit" /\ ~Pending("edit") /\ form[f] # v
  /\ form' = [form EXCEPT ![f] = v]
  /\ UNCHANGED <<row, cache, fresh, fetch, mounted, top, selected, patch, choice, hitches>>

(* isDirty and the payload of handleSave. *)
Changed == {f \in Field : form[f] # cache.edited[f]}

Save ==
  /\ top = "edit" /\ ~Pending("edit") /\ Changed # {} /\ CanCall
  /\ patch' = [patch EXCEPT ![Free] =
       [screen |-> "edit", live |-> TRUE, changed |-> [f \in Changed |-> form[f]],
        state |-> "sent"]]
  /\ UNCHANGED <<row, cache, fresh, fetch, mounted, top, selected, form, choice, hitches>>

(* A save that succeeded refetches and closes its editor. *)
SaveAnswered(i) ==
  /\ patch[i] # None /\ patch[i].screen = "edit" /\ patch[i].state = "done"
  /\ Invalidate
  /\ IF patch[i].live THEN Leave("edit") ELSE UNCHANGED <<mounted, top, form>>
  /\ patch' = [patch EXCEPT ![i] = None]
  /\ UNCHANGED <<row, cache, selected, choice, hitches>>

SaveFailed(i) ==
  /\ patch[i] # None /\ patch[i].screen = "edit"
  /\ Hitch(patch[i].state # "refused", "lost")
  /\ patch' = [patch EXCEPT ![i] = None]
  /\ UNCHANGED <<row, cache, fresh, fetch, mounted, top, selected, form, choice>>

(* Another phone of the account writes. *)
Elsewhere ==
  /\ Hitch(TRUE, "elsewhere")
  /\ row' \in Profile \ {row}
  /\ UNCHANGED <<cache, fresh, fetch, mounted, top, selected, form, patch, choice>>

-----------------------------------------------------------------------------
ProfileNext ==
  \/ \E s \in Screen \cup {"home"} : OpenTab(s)
  \/ OpenP2p \/ OpenEdit \/ Back \/ RetryFetch
  \/ \E s \in Toggling : Toggle(s)
  \/ \E i \in Slot :
       Serve(i) \/ Refuse(i) \/ ToggleAnswered(i) \/ ToggleFailed(i) \/ SaveAnswered(i) \/ SaveFailed(i)
  \/ FetchRead \/ FetchAnswered \/ FetchFailed \/ GoesStale
  \/ \E f \in Field, v \in Value : Type(f, v)
  \/ Save \/ Elsewhere

ProfileSpec == ProfileInit /\ [][ProfileNext]_profileVars

-----------------------------------------------------------------------------
Unhitched(ms) == hitches \cap ms = {}

(* A switch shows what the cache says, whichever of the two screens was    *)
(* tapped, failed or left (connect.tsx:91-112, p2p-and.tsx:40-62).         *)
SwitchesAgree ==
  \A s \in mounted \cap Toggling : cache # None => selected[s] = cache.isAvailable

(* When nothing is in flight a cache that counts as fresh is what the      *)
(* backend has, and what it has is what the volunteer tapped last          *)
(* (useVolunteerProfile.ts:175-236).                                       *)
CacheIsRight ==
  InFlight = {} /\ fetch = << >> =>
    /\ fresh /\ Unhitched({"elsewhere", "lost", "overlap"}) => cache = row
    /\ Unhitched({"refused", "lost", "elsewhere", "overlap"}) => row.isAvailable = choice

(* What the volunteer sees of his profile is right.                        *)
ProfileShown == SwitchesAgree /\ CacheIsRight

(* What is typed in the editor stays until it is saved or left: no refetch *)
(* and no rollback of a switch overwrites it                               *)
(* (useVolunteerEditProfile.ts:27-37).                                     *)
EditsSurvive ==
  [][top = "edit" /\ top' = "edit"
     /\ Unhitched({"elsewhere", "left_saving", "away", "lost", "unfetched"})'
       => \A f \in Field : form'[f] = form[f] \/ cache' = cache]_profileVars
=============================================================================
