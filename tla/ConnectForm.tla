----------------------------- MODULE ConnectForm -----------------------------
(***************************************************************************)
(* The form in which a seeker says what troubles him and the popups that   *)
(* end in one POST /session/connect: the sheets of categories and of tags, *)
(* the sheet of `Other`, and the popup that counts down before it asks.    *)
(* The count of tickets that the form shows is read once, when the tab is  *)
(* mounted, and nothing reads it again while the app lives.                *)
(*                                                                         *)
(* What the backend does with the request is Journey and SessionLifecycle; *)
(* what the screens behind it do is Journey.                               *)
(***************************************************************************)
EXTENDS Integers, FiniteSets

CONSTANTS
  Category,      \* the problem categories
  Level,         \* feeling levels
  Text,          \* what may be written of the problem, "" for nothing
  DailyTickets,  \* sessions a seeker may have in a day
  Nothing        \* null

ASSUME ConnectFormConstants ==
  /\ DailyTickets \in Nat /\ "" \in Text /\ Category # {} /\ IsFiniteSet(Category)
  /\ Nothing \notin Category \cup Level \cup {"other"} /\ "other" \notin Category

Popup == {"none", "category", "tags", "other", "searching", "connected"}

VARIABLES
  selectedCategoryId,
  feelingLevel,
  selectedTagIds,
  problemText,
  categories,  \* the list of categories: "loading", "error" or "loaded"
  popup,       \* the popup in front of the form
  timer,       \* the timer that runs: "none", "search" (3 s) or "shown" (1.5 s)
  request,     \* the POST in flight, or Nothing
  inFront,     \* the form's tab is the screen in front
  remaining,   \* the tickets the backend would still grant
  tickets,     \* the count the form has, or Nothing
  wanted       \* history: Connect was tapped, and neither cancelled nor asked for

formVars ==
  <<selectedCategoryId, feelingLevel, selectedTagIds, problemText, categories, popup, timer,
    request, inFront, remaining, tickets, wanted>>
chosen == <<selectedCategoryId, feelingLevel, selectedTagIds, problemText>>
told == <<categories, remaining, tickets>>

Request == [category : Category \cup {""}, feeling : Level, text : Text]

FormTypeOK ==
  /\ selectedCategoryId \in Category \cup {"other", Nothing}
  /\ feelingLevel \in Level \cup {Nothing} /\ selectedTagIds \subseteq Category
  /\ problemText \in Text
  /\ categories \in {"loading", "error", "loaded"}
  /\ popup \in Popup /\ timer \in {"none", "search", "shown"}
  /\ request \in Request \cup {Nothing} /\ inFront \in BOOLEAN
  /\ remaining \in 0..DailyTickets /\ tickets \in 0..DailyTickets \cup {Nothing}
  /\ wanted \in BOOLEAN

FormInit ==
  /\ selectedCategoryId = Nothing /\ feelingLevel = Nothing
  /\ selectedTagIds = {} /\ problemText = ""
  /\ categories = "loading" /\ popup = "none" /\ timer = "none" /\ request = Nothing
  /\ inFront = TRUE /\ remaining \in 0..DailyTickets /\ tickets = Nothing
  /\ wanted = FALSE

-----------------------------------------------------------------------------
(* useQuery of the categories and of the tickets. *)
LoadCategories ==
  /\ categories = "loading"
  /\ categories' \in {"loaded", "error"}
  /\ UNCHANGED <<chosen, popup, timer, request, inFront, remaining, tickets, wanted>>

RefetchCategories ==
  /\ popup \in {"category", "tags"} /\ categories = "error"
  /\ categories' = "loading"
  /\ UNCHANGED <<chosen, popup, timer, request, inFront, remaining, tickets, wanted>>

LoadTickets ==
  /\ tickets = Nothing
  /\ tickets' = remaining
  /\ UNCHANGED <<chosen, categories, popup, timer, request, inFront, remaining, wanted>>

-----------------------------------------------------------------------------
Mut_TimerUncleared(p) ==
  IF p = "searching" THEN "search" ELSE IF p = "connected" THEN "shown" ELSE timer

(* The effects of ConnectingPopup: each clears its timer when the popup is *)
(* hidden or shows the other text.                                         *)
TimerOf(p) == IF p = "searching" THEN "search" ELSE IF p = "connected" THEN "shown" ELSE "none"

ShowPopup(p) == popup' = p /\ timer' = TimerOf(p)

(* The form takes taps while it is in front and no popup covers it. *)
Form == inFront /\ popup = "none"
Rest == <<request, inFront, told, wanted>>

SelectFeeling(l) ==
  /\ Form /\ feelingLevel' = l
  /\ UNCHANGED <<selectedCategoryId, selectedTagIds, problemText, popup, timer, Rest>>

OpenCategories == Form /\ ShowPopup("category") /\ UNCHANGED <<chosen, Rest>>

(* The tags and the text are asked for once there is a category. *)
OpenTags ==
  /\ Form /\ selectedCategoryId # Nothing
  /\ ShowPopup("tags")
  /\ UNCHANGED <<chosen, Rest>>

RemoveTag(c) ==
  /\ Form /\ selectedCategoryId # Nothing /\ c \in selectedTagIds
  /\ selectedTagIds' = selectedTagIds \ {c}
  /\ UNCHANGED <<selectedCategoryId, feelingLevel, problemText, popup, timer, Rest>>

TypeProblem(t) ==
  /\ Form /\ selectedCategoryId # Nothing
  /\ problemText' = t
  /\ UNCHANGED <<selectedCategoryId, feelingLevel, selectedTagIds, popup, timer, Rest>>

-----------------------------------------------------------------------------
(* The sheets: each is closed by a tap outside it or by going back, that   *)
(* of the tags by its button too.                                          *)
CloseCategories == popup = "category" /\ ShowPopup("none") /\ UNCHANGED <<chosen, Rest>>
CloseTags == popup = "tags" /\ ShowPopup("none") /\ UNCHANGED <<chosen, Rest>>
CloseOther == popup = "other" /\ ShowPopup("none") /\ UNCHANGED <<chosen, Rest>>

(* The category is added to the tags; an earlier one stays among them. *)
handleSelectCategory(c) ==
  selectedCategoryId' = c /\ selectedTagIds' = selectedTagIds \cup {c} /\ ShowPopup("none")

SelectCategory(c) ==
  /\ popup = "category" /\ categories = "loaded"
  /\ handleSelectCategory(c)
  /\ UNCHANGED <<feelingLevel, problemText, Rest>>

SelectOther ==
  /\ popup = "category" /\ categories = "loaded"
  /\ ShowPopup("other")
  /\ UNCHANGED <<chosen, Rest>>

toggleTag(c) ==
  selectedTagIds' = IF c \in selectedTagIds THEN selectedTagIds \ {c} ELSE selectedTagIds \cup {c}

ToggleInTags(c) ==
  /\ popup = "tags" /\ categories = "loaded"
  /\ toggleTag(c)
  /\ UNCHANGED <<selectedCategoryId, feelingLevel, problemText, popup, timer, Rest>>

TypeInOther(t) ==
  /\ popup = "other" /\ problemText' = t
  /\ UNCHANGED <<selectedCategoryId, feelingLevel, selectedTagIds, popup, timer, Rest>>

ToggleInOther(c) ==
  /\ popup = "other" /\ categories = "loaded"
  /\ toggleTag(c)
  /\ UNCHANGED <<selectedCategoryId, feelingLevel, problemText, popup, timer, Rest>>

ConfirmOther ==
  /\ popup = "other"
  /\ selectedCategoryId' = "other"
  /\ ShowPopup("none")
  /\ UNCHANGED <<feelingLevel, selectedTagIds, problemText, Rest>>

-----------------------------------------------------------------------------
(* handleConnect past its three alerts; the button is off while a request  *)
(* is pending.                                                             *)
Connect ==
  /\ Form /\ request = Nothing
  /\ selectedCategoryId # Nothing /\ feelingLevel # Nothing /\ tickets # 0
  /\ ShowPopup("searching") /\ wanted' = TRUE
  /\ UNCHANGED <<chosen, request, inFront, told>>

Cancel ==
  /\ popup \in {"searching", "connected"}
  /\ ShowPopup("none") /\ wanted' = FALSE
  /\ UNCHANGED <<chosen, request, inFront, told>>

SearchingDone ==
  /\ timer = "search"
  /\ ShowPopup("connected")
  /\ UNCHANGED <<chosen, request, inFront, told, wanted>>

(* The category that is asked for: `Other` asks for the first of the list. *)
AskedCategory(c) ==
  /\ selectedCategoryId = "other" => c \in (IF categories = "loaded" THEN Category ELSE {""})
  /\ selectedCategoryId # "other" => c = selectedCategoryId

AnimationComplete ==
  /\ timer = "shown"
  /\ \E r \in Request :
       /\ r.feeling = feelingLevel /\ AskedCategory(r.category) /\ r.text = problemText
       /\ request' = r
  /\ ShowPopup("none") /\ wanted' = FALSE
  /\ UNCHANGED <<chosen, inFront, told>>

(* The seeker goes to another tab and comes back; a popup covers the tabs. *)
LeaveForm ==
  /\ popup = "none" /\ inFront' = ~inFront
  /\ UNCHANGED <<chosen, popup, timer, request, told, wanted>>

(* The answer opens the next screen from wherever the seeker is; an error  *)
(* closes the popup.                                                       *)
ConnectAnswered ==
  /\ request # Nothing
  /\ request' = Nothing
  /\ \/ /\ remaining > 0 /\ remaining' = remaining - 1
        /\ inFront' = FALSE
        /\ UNCHANGED <<popup, timer, wanted>>
     \/ /\ IF popup \in {"searching", "connected"}
           THEN ShowPopup("none") /\ wanted' = FALSE
           ELSE UNCHANGED <<popup, timer, wanted>>
        /\ UNCHANGED <<remaining, inFront>>
  /\ UNCHANGED <<chosen, categories, tickets>>

(* A reservation is released, or the day is over. *)
Returned ==
  /\ remaining < DailyTickets
  /\ remaining' \in {remaining + 1, DailyTickets}
  /\ UNCHANGED <<chosen, categories, popup, timer, request, inFront, tickets, wanted>>

FormNext ==
  \/ LoadCategories \/ RefetchCategories \/ LoadTickets
  \/ \E l \in Level : SelectFeeling(l)
  \/ \E t \in Text : TypeProblem(t) \/ TypeInOther(t)
  \/ OpenCategories \/ OpenTags \/ CloseCategories \/ CloseTags \/ CloseOther
  \/ SelectOther \/ ConfirmOther
  \/ \E c \in Category : SelectCategory(c) \/ RemoveTag(c) \/ ToggleInTags(c) \/ ToggleInOther(c)
  \/ Connect \/ Cancel \/ SearchingDone \/ AnimationComplete
  \/ LeaveForm \/ ConnectAnswered \/ Returned

FormSpec == FormInit /\ [][FormNext]_formVars

-----------------------------------------------------------------------------
(* A session is asked for only after a tap on Connect that nobody has      *)
(* cancelled, once for each tap, and for the category, the feeling and the *)
(* text that the form shows, `Other` being asked for as one of the         *)
(* categories (connect.tsx:92-110, 308-328, 970-998).                      *)
AskedAsShown ==
  [][request' \notin {Nothing, request} =>
       /\ wanted /\ request'.feeling = feelingLevel /\ request'.text = problemText
       /\ request'.category \in Category
       /\ selectedCategoryId \in {request'.category, "other"}]_formVars
=============================================================================
