------------------------------ MODULE PageActions ------------------------------
(***************************************************************************)
(* What a turn of the agent does to the browser: observe numbers elements  *)
(* of the active page (core/nodes/observe.py), think decides an action     *)
(* (core/nodes/think.py), act dispatches it to its handler (core/nodes/    *)
(* act.py, core/actions/) and the answer is classified                     *)
(* (core/actions/result.py).                                               *)
(*                                                                         *)
(* Every handler is a chain of awaits on Playwright, and the page goes on  *)
(* between them: its scripts replace elements, open tabs and close them.   *)
(* Elements are numbered in document order, pages in the order they open.  *)
(***************************************************************************)
EXTENDS Integers, FiniteSets, FiniteSetsExt

CONSTANTS
    Elements,     \* numbers of the elements pages are made of
    MaxIndex,     \* MAX_INTERACTIVE_ELEMENTS
    Ops,          \* the action types the LLM uses
    TargetWords,  \* sets of markers that a target's text may contain
    MaxCount,     \* bound: count of "back"
    MaxPages,     \* bound: pages opened
    MaxChanges,   \* bound: what pages do on their own
    MaxTurns      \* bound: turns

ASSUME ConstantsAssumption ==
    /\ Elements \subseteq Nat /\ IsFiniteSet(Elements)
    /\ MaxIndex \in Nat /\ MaxCount \in Nat /\ MaxPages \in Nat \ {0}
    /\ MaxChanges \in Nat /\ MaxTurns \in Nat

VARIABLES
    \* the browser
    open,         \* context.pages
    opened,       \* pages opened so far
    where,        \* the page an element is in, NoPage if it is in none
    tag,          \* its data-oi-idx
    changes,
    \* the agent
    node,
    page,         \* BrowserManager._page
    selector_map, \* the element the prompt shows under each index
    last_action,
    decided,      \* think has decided last_action in this turn
    turns,
    \* the handler
    phase,        \* the await it is at
    on,           \* the page it was given
    attempt,      \* the locator it tries, the go_back it is at
    before,       \* opened when it took pages_before, before it clicks
    touched,      \* how often it has acted on an element: [element, times]
    meant,        \* the element last_action was decided for
    outcome       \* "none", "ok" or an ActionErrorCode

domVars == <<where, tag>>
browserVars == <<open, opened, domVars, changes>>
promptVars == <<selector_map, last_action, decided, meant>>
handlerVars == <<phase, on, attempt, before, touched, outcome>>
vars == <<browserVars, node, page, promptVars, turns, handlerVars>>

Pages == 1 .. MaxPages
NoPage == 0
Indexes == 0 .. MaxIndex - 1
NoTag == -1
Nothing == -1
NoAction == [op |-> "none", index |-> 0, words |-> {}, count |-> 0]

IndexOps == {"click_index", "type_index", "hover_index", "press_index",
             "check_index", "scroll_to_index"}
TextOps == {"click", "type", "hover", "press", "check", "scroll_to_element",
            "wait_for_element", "upload_file", "drag_and_drop", "extract"}
PageOps == {"navigate", "refresh", "back", "scroll", "wait", "screenshot",
            "execute_js"}

\* Markers map_exception_to_code looks for in an exception's text.
Words == {"not visible", "intercepts", "detached", "no element", "net::"}

\* What a target's text may contain are the markers it is searched for.
ASSUME TargetsAssumption == TargetWords \subseteq SUBSET Words

Codes == {"TIMEOUT", "ELEMENT_NOT_VISIBLE", "ELEMENT_NOT_INTERACTABLE",
          "STALE_ELEMENT", "ELEMENT_NOT_FOUND", "NAVIGATION_FAILED",
          "INVALID_ARGUMENT", "UNKNOWN"}

TypeOK ==
    /\ open \subseteq Pages /\ opened \in Pages
    /\ where \in [Elements -> {NoPage} \cup Pages]
    /\ tag \in [Elements -> {NoTag} \cup Indexes]
    /\ \A e \in Elements : where[e] = NoPage => tag[e] = NoTag
    /\ changes \in 0 .. MaxChanges
    /\ node \in {"observe", "think", "act", "handler"}
    /\ page \in Pages
    /\ selector_map \in [Indexes -> {Nothing} \cup Elements]
    /\ last_action \in {NoAction} \cup
           [op : Ops, index : Indexes, words : TargetWords, count : 0 .. MaxCount]
    /\ decided \in BOOLEAN
    /\ turns \in 0 .. MaxTurns
    /\ phase \in {"start", "scroll", "act", "settle"}
    /\ on \in {NoPage} \cup Pages
    /\ attempt \in 1 .. 8 \cup 1 .. MaxCount + 1
    /\ before \in 0 .. MaxPages
    /\ touched \in [Elements -> Nat]
    /\ meant \in {Nothing} \cup Elements
    /\ outcome \in {"none", "ok"} \cup Codes

Dom(p) == {e \in Elements : where[e] = p}
Untouched == [e \in Elements |-> 0]

Init ==
    /\ open = {1} /\ opened = 1
    /\ where \in [Elements -> {NoPage, 1}]
    /\ tag = [e \in Elements |-> NoTag]
    /\ changes = 0
    /\ node = "observe"
    /\ page = 1
    /\ selector_map = [n \in Indexes |-> Nothing]
    /\ last_action = NoAction
    /\ decided = FALSE
    /\ turns = 0
    /\ phase = "start" /\ on = NoPage /\ attempt = 1 /\ before = 0
    /\ touched = Untouched
    /\ meant = Nothing
    /\ outcome = "none"

(***************************************************************************)
(* Pages                                                                   *)
(***************************************************************************)

\* Page p comes to consist of the elements S; those it keeps keep their
\* attributes.
Becomes(p, S) ==
    /\ S \subseteq Dom(p) \cup Dom(NoPage)
    /\ where' = [e \in Elements |->
                    IF e \in S THEN p ELSE IF where[e] = p THEN NoPage ELSE where[e]]
    /\ tag' = [e \in Elements |-> IF e \in Dom(p) \ S THEN NoTag ELSE tag[e]]

\* A new document: no element of it has been numbered.
Loads(p) ==
    \E S \in SUBSET (Dom(p) \cup Dom(NoPage)) :
        /\ where' = [e \in Elements |->
                        IF e \in S THEN p ELSE IF where[e] = p THEN NoPage ELSE where[e]]
        /\ tag' = [e \in Elements |-> IF where[e] = p THEN NoTag ELSE tag[e]]

Changes ==
    /\ changes < MaxChanges
    /\ changes' = changes + 1
    /\ UNCHANGED <<node, page, promptVars, turns, handlerVars>>

\* A script re-renders part of the page, or takes it to another document.
Renders(p) ==
    /\ Changes
    /\ p \in open
    /\ (\E S \in SUBSET Elements : Becomes(p, S)) \/ Loads(p)
    /\ UNCHANGED <<open, opened>>

\* A page opens a tab, because it was clicked or by itself.
Opens ==
    /\ Changes
    /\ open # {}
    /\ opened < MaxPages
    /\ opened' = opened + 1
    /\ open' = open \cup {opened + 1}
    /\ \E S \in SUBSET Dom(NoPage) : Becomes(opened + 1, S)

Closes(p) ==
    /\ Changes
    /\ p \in open
    /\ open' = open \ {p}
    /\ Becomes(p, {})
    /\ UNCHANGED opened

(***************************************************************************)
(* observe                                                                 *)
(***************************************************************************)

\* The i-th element of S in document order, counted from 0.
Nth(S, i) == CHOOSE e \in S : Cardinality({d \in S : d < e}) = i

\* The injected script: the old numbers go, the first MaxIndex of the elements
\* it keeps are numbered from 0.
Retag(K) ==
    tag' = [e \in Elements |->
        IF where[e] # page THEN tag[e]
        ELSE IF e \in K /\ Cardinality({d \in K : d < e}) < MaxIndex
             THEN Cardinality({d \in K : d < e}) ELSE NoTag]

\* Which elements the script keeps depends on style and geometry; here it is any set.
ObserveOk ==
    /\ page \in open
    /\ \E K \in SUBSET Dom(page) :
        /\ Retag(K)
        /\ selector_map' = [n \in Indexes |->
               IF n < Cardinality(K) THEN Nth(K, n) ELSE Nothing]

\* _extract_structured_dom catches what fails in it: the list is empty, and the
\* script may have run or not.
ObserveEmpty ==
    /\ page \in open
    /\ UNCHANGED tag \/ (\E K \in SUBSET Dom(page) : Retag(K))
    /\ selector_map' = [n \in Indexes |-> Nothing]

\* The screenshot fails, as on a closed page: the prompt keeps the last list.
ObserveFails == UNCHANGED <<tag, selector_map>>

Observe ==
    /\ node = "observe"
    /\ turns < MaxTurns
    /\ ObserveOk \/ ObserveEmpty \/ ObserveFails
    /\ node' = "think"
    /\ turns' = turns + 1
    /\ UNCHANGED <<open, opened, where, changes, page, last_action, decided, meant,
                   handlerVars>>

(***************************************************************************)
(* think and act                                                           *)
(***************************************************************************)

\* The LLM names only indexes of the list it was shown (prompt/agent.md:88).
Decisions ==
    {a \in [op : Ops, index : Indexes, words : TargetWords, count : 0 .. MaxCount] :
        /\ IF a.op \in IndexOps THEN selector_map[a.index] # Nothing ELSE a.index = 0
        /\ a.op \in TextOps \/ a.words = {}
        /\ a.op = "back" \/ a.count = 0}

ThinkOk ==
    /\ last_action' \in Decisions
    /\ decided' = TRUE
    /\ meant' = IF last_action'.op \in IndexOps
                THEN selector_map[last_action'.index] ELSE Nothing

\* The call fails or its answer is refused: last_action stays as it was.
ThinkFails ==
    /\ decided' = FALSE
    /\ UNCHANGED <<last_action, meant>>

Think ==
    /\ node = "think"
    /\ ThinkOk \/ ThinkFails
    /\ node' = "act"
    /\ touched' = Untouched
    /\ outcome' = "none"
    /\ UNCHANGED <<browserVars, page, selector_map, turns, phase, on, attempt, before>>

\* The first marker that the text holds gives the code, after the class.
map_exception_to_code(exc) ==
    CASE exc.timeout -> "TIMEOUT"
      [] ~exc.timeout /\ "not visible" \in exc.words -> "ELEMENT_NOT_VISIBLE"
      [] ~exc.timeout /\ "not visible" \notin exc.words /\ "intercepts" \in exc.words
            -> "ELEMENT_NOT_INTERACTABLE"
      [] ~exc.timeout /\ exc.words \cap {"not visible", "intercepts"} = {}
            /\ "detached" \in exc.words -> "STALE_ELEMENT"
      [] ~exc.timeout /\ exc.words \cap {"not visible", "intercepts", "detached"} = {}
            /\ "no element" \in exc.words -> "ELEMENT_NOT_FOUND"
      [] ~exc.timeout /\ exc.words = {"net::"} -> "NAVIGATION_FAILED"
      [] ~exc.timeout /\ exc.words = {} -> "UNKNOWN"

Error(words) == [timeout |-> FALSE, words |-> words]
PlaywrightErrors ==
    {Error({}), [timeout |-> TRUE, words |-> {}]} \cup {Error({w}) : w \in Words}

Returns(answer) ==
    /\ outcome' = answer
    /\ node' = "observe"
    /\ phase' = "start"
    /\ on' = NoPage
    /\ attempt' = 1
    /\ before' = 0

Raises(exc) == Returns(map_exception_to_code(exc))

PlaywrightRaises == \E exc \in PlaywrightErrors : Raises(exc)

Registered == IndexOps \cup TextOps \cup PageOps

\* No action yet, or no handler of that type: answered without touching a page.
ActRefused ==
    /\ node = "act"
    /\ last_action = NoAction \/ last_action.op \notin Registered
    /\ Returns("INVALID_ARGUMENT")
    /\ UNCHANGED <<browserVars, page, promptVars, turns, touched>>

\* click takes pages_before first of all, for each locator anew.
Began == IF last_action.op = "click" THEN opened ELSE before

\* get_page gives the handler the active page, closed or not.
ActDispatches ==
    /\ node = "act"
    /\ last_action.op \in Registered
    /\ node' = "handler"
    /\ phase' = IF last_action.op \in IndexOps THEN "start" ELSE "act"
    /\ on' = page
    /\ before' = Began
    /\ UNCHANGED <<browserVars, page, promptVars, turns, attempt, touched, outcome>>

In(op, ph) == node = "handler" /\ last_action.op = op /\ phase = ph

Handler == UNCHANGED <<browserVars, promptVars, turns>>

Touches(e) == touched' = [touched EXCEPT ![e] = @ + 1]

\* check, check_index and upload_file look at their arguments first.
BadArgument ==
    /\ node = "handler" /\ phase \in {"start", "act"} /\ attempt = 1
    /\ last_action.op \in {"check", "check_index", "upload_file"}
    /\ Returns("INVALID_ARGUMENT")
    /\ Handler
    /\ UNCHANGED <<page, touched>>

(***************************************************************************)
(* Handlers that look for a text                                           *)
(***************************************************************************)
Locators ==
    [click |-> 3, type |-> 8, hover |-> 3, press |-> 3, check |-> 3,
     scroll_to_element |-> 3, wait_for_element |-> 2, upload_file |-> 4,
     drag_and_drop |-> 2, extract |-> 2]

\* Mutant: after the last locator the first is tried again.
NextLocatorAround ==
    /\ attempt' = IF attempt < Locators[last_action.op] THEN attempt + 1 ELSE 1
    /\ phase' = "act"
    /\ before' = Began
    /\ UNCHANGED <<node, on, outcome>>

\* Whatever the locator raised is dropped; after the last one the handler
\* raises an error of its own, which quotes the target.
NextLocator ==
    IF attempt < Locators[last_action.op]
    THEN /\ attempt' = attempt + 1
         /\ phase' = "act"
         /\ before' = Began
         /\ UNCHANGED <<node, on, outcome>>
    ELSE Raises(Error(last_action.words \cup {"no element"}))

\* A locator finds an element of an open page.
Locates(e) == on \in open /\ e \in Dom(on)

ActsOnText(op) ==
    /\ In(op, "act")
    /\ \/ /\ \E e \in Elements : Locates(e) /\ Touches(e)
          /\ Returns("ok")
       \/ /\ UNCHANGED touched
          /\ NextLocator
    /\ Handler
    /\ UNCHANGED page

\* The locator has acted on its element when a later part of it raises.
RaisesMidway(op) ==
    /\ In(op, "act")
    /\ \E e \in Elements : Locates(e) /\ Touches(e)
    /\ NextLocator
    /\ Handler
    /\ UNCHANGED page

ReadsText(op) ==
    /\ In(op, "act")
    /\ \/ on \in open /\ Dom(on) # {} /\ Returns("ok")
       \/ NextLocator
    /\ Handler
    /\ UNCHANGED <<page, touched>>

\* clear, fill and press("Enter") of one field after the other.
TypeText == ActsOnText("type") \/ RaisesMidway("type")

Hover == ActsOnText("hover")

\* Playwright clicks the box and raises when its state did not change.
Check == ActsOnText("check") \/ RaisesMidway("check")

Press == ActsOnText("press")

\* Without a target the key goes to whatever has the focus.
PressFocused ==
    /\ In("press", "act") /\ attempt = 1
    /\ \/ on \in open /\ Returns("ok")
       \/ PlaywrightRaises
    /\ UNCHANGED touched \/ (\E e \in Elements : Locates(e) /\ Touches(e))
    /\ Handler
    /\ UNCHANGED page

WaitForElement == ReadsText("wait_for_element")

ScrollToElement == ActsOnText("scroll_to_element")

UploadFile == ActsOnText("upload_file")

Extract == ReadsText("extract")

\* The second way's error is wrapped: its class is lost, its text is kept.
DragAndDrop ==
    /\ In("drag_and_drop", "act")
    /\ \/ /\ \E e \in Elements : Locates(e) /\ Touches(e)
          /\ \/ Returns("ok")
             \/ attempt = 1 /\ NextLocator
       \/ UNCHANGED touched /\ attempt = 1 /\ NextLocator
       \/ /\ UNCHANGED touched
          /\ attempt = 2
          /\ \E exc \in PlaywrightErrors : Raises(Error(exc.words \cup last_action.words))
    /\ Handler
    /\ UNCHANGED page

\* click and the wait of _NEW_TAB_WAIT_MS after it.
Click ==
    /\ In("click", "act")
    /\ \/ /\ \E e \in Elements : Locates(e) /\ Touches(e)
          /\ phase' = "settle"
          /\ UNCHANGED <<node, on, attempt, before, outcome>>
       \/ /\ UNCHANGED touched
          /\ NextLocator
    /\ Handler
    /\ UNCHANGED page

NewPages == {p \in open : p > before}

\* A tab that was opened meanwhile becomes the active page once it has loaded.
\* Whatever raises here, on a page that is gone too, goes on to the next locator.
ClickSettles ==
    /\ In("click", "settle")
    /\ \/ /\ on \in open \/ NewPages # {}
          /\ page' = IF NewPages # {} THEN Max(NewPages) ELSE page
          /\ Returns("ok")
       \/ /\ UNCHANGED page
          /\ NextLocator
    /\ Handler
    /\ UNCHANGED touched

(***************************************************************************)
(* Handlers that take an index                                             *)
(***************************************************************************)
Tagged == {e \in Dom(on) : tag[e] = last_action.index}

\* _assert_index_exists, an await of its own.
IndexExists ==
    /\ node = "handler" /\ phase = "start" /\ last_action.op \in IndexOps
    /\ on \in open
    /\ IF Tagged = {} THEN Returns("ELEMENT_NOT_FOUND")
       ELSE /\ phase' = IF last_action.op = "click_index" THEN "scroll" ELSE "act"
            /\ UNCHANGED <<node, on, attempt, before, outcome>>
    /\ Handler
    /\ UNCHANGED <<page, touched>>

\* The page is gone by then.
IndexRaises ==
    /\ node = "handler" /\ phase = "start"
    /\ PlaywrightRaises
    /\ Handler
    /\ UNCHANGED <<page, touched>>

\* loc.first: the locator is resolved again, and the element may be gone.
ActsOnIndex(op) ==
    /\ In(op, "act")
    /\ \/ /\ Tagged # {} /\ Touches(Min(Tagged))
          /\ Returns("ok")
       \/ /\ UNCHANGED touched
          /\ PlaywrightRaises
    /\ Handler
    /\ UNCHANGED page

\* clear has emptied the field when fill or press raises; a box was clicked.
IndexRaisesMidway(op) ==
    /\ In(op, "act")
    /\ Tagged # {} /\ Touches(Min(Tagged))
    /\ PlaywrightRaises
    /\ Handler
    /\ UNCHANGED page

TypeIndex == ActsOnIndex("type_index") \/ IndexRaisesMidway("type_index")
HoverIndex == ActsOnIndex("hover_index")
PressIndex == ActsOnIndex("press_index")
CheckIndex == ActsOnIndex("check_index") \/ IndexRaisesMidway("check_index")
ScrollToIndex == ActsOnIndex("scroll_to_index")

\* The scroll is over, a failure of it is ignored; then pages_before is taken.
ClickIndexScrolls ==
    /\ In("click_index", "scroll")
    /\ phase' = "act"
    /\ before' = opened
    /\ Handler
    /\ UNCHANGED <<node, page, on, attempt, touched, outcome>>

ClickIndex ==
    /\ In("click_index", "act")
    /\ \/ /\ Tagged # {} /\ Touches(Min(Tagged))
          /\ phase' = "settle"
          /\ UNCHANGED <<node, on, attempt, before, outcome>>
       \/ /\ UNCHANGED touched
          /\ PlaywrightRaises
    /\ Handler
    /\ UNCHANGED page

\* Mutant: the tab is switched to before it has loaded.
ClickIndexSwitchesFirst ==
    /\ In("click_index", "settle")
    /\ page' = IF NewPages # {} THEN Max(NewPages) ELSE page
    /\ Returns("ok") \/ PlaywrightRaises
    /\ Handler
    /\ UNCHANGED touched

\* Mutant: a tab that does not load is clicked for again, as click does.
ClickIndexRetries ==
    /\ In("click_index", "settle")
    /\ \/ /\ on \in open \/ NewPages # {}
          /\ page' = IF NewPages # {} THEN Max(NewPages) ELSE page
          /\ Returns("ok")
       \/ /\ NewPages # {}
          /\ phase' = "act"
          /\ UNCHANGED <<page, node, on, attempt, before, outcome>>
    /\ Handler
    /\ UNCHANGED touched

\* Only waiting for the new tab may raise, or a page that closed in the wait.
ClickIndexSettles ==
    /\ In("click_index", "settle")
    /\ \/ /\ on \in open \/ NewPages # {}
          /\ page' = IF NewPages # {} THEN Max(NewPages) ELSE page
          /\ Returns("ok")
       \/ NewPages # {} /\ UNCHANGED page /\ PlaywrightRaises
       \/ on \notin open /\ UNCHANGED page /\ Raises(Error({}))
    /\ Handler
    /\ UNCHANGED touched

(***************************************************************************)
(* Handlers of the whole page                                              *)
(***************************************************************************)

\* goto, reload and go_back may raise before and after the document changes.
LoadsPage(op, last) ==
    /\ In(op, "act")
    /\ UNCHANGED domVars \/ (on \in open /\ Loads(on))
    /\ \/ PlaywrightRaises
       \/ /\ on \in open
          /\ IF last THEN Returns("ok")
             ELSE attempt' = attempt + 1 /\ UNCHANGED <<node, phase, on, before, outcome>>
    /\ UNCHANGED <<open, opened, changes, page, promptVars, turns, touched>>

Navigate == LoadsPage("navigate", TRUE)
Refresh == LoadsPage("refresh", TRUE)

\* count times go_back; a failure in the middle keeps the steps before it.
Back == LoadsPage("back", attempt >= last_action.count)

KeepsPage(op) ==
    /\ In(op, "act")
    /\ (on \in open /\ Returns("ok")) \/ PlaywrightRaises
    /\ Handler
    /\ UNCHANGED <<page, touched>>

Scroll == KeepsPage("scroll")
Wait == KeepsPage("wait")

\* Its error is wrapped, which loses the class.
Screenshot ==
    /\ In("screenshot", "act")
    /\ \/ on \in open /\ Returns("ok")
       \/ \E exc \in PlaywrightErrors : Raises(Error(exc.words))
    /\ Handler
    /\ UNCHANGED <<page, touched>>

\* The LLM's own script may change the page and still raise.
ExecuteJs ==
    /\ In("execute_js", "act")
    /\ UNCHANGED domVars \/ (on \in open /\ \E S \in SUBSET Elements : Becomes(on, S))
    /\ \/ on \in open /\ Returns("ok")
       \/ \E exc \in PlaywrightErrors : Raises(Error(exc.words))
    /\ UNCHANGED <<open, opened, changes, page, promptVars, turns, touched>>

TextStep ==
    \/ TypeText \/ Hover \/ Check \/ Press \/ PressFocused \/ WaitForElement
    \/ ScrollToElement \/ UploadFile \/ Extract \/ DragAndDrop \/ Click \/ ClickSettles

IndexStep ==
    \/ IndexExists \/ IndexRaises
    \/ TypeIndex \/ HoverIndex \/ PressIndex \/ CheckIndex \/ ScrollToIndex
    \/ ClickIndexScrolls \/ ClickIndex \/ ClickIndexSettles

PageStep == Navigate \/ Refresh \/ Back \/ Scroll \/ Wait \/ Screenshot \/ ExecuteJs

HandlerStep == BadArgument \/ TextStep \/ IndexStep \/ PageStep

AgentStep == Observe \/ Think \/ ActRefused \/ ActDispatches \/ HandlerStep

PageChanges == Opens \/ \E p \in Pages : Renders(p) \/ Closes(p)

Next == AgentStep \/ PageChanges

\* Playwright's waits have a limit and the page answers: a handler goes on.
Spec == Init /\ [][Next]_vars /\ WF_vars(AgentStep)

(***************************************************************************)
(* Properties                                                              *)
(***************************************************************************)
IndexAction == last_action.op \in IndexOps
TouchedOnly(S) == \A e \in Elements \ S : touched[e] = 0

\* Whatever the pages do between two turns, a number in the active page never
\* denotes another element than the one the prompt lists under it
\* (observe removes the old numbers; a script that failed lists nothing).
IndexMeansWhatWasShown ==
    \A e \in Dom(page) :
        tag[e] # NoTag => selector_map[tag[e]] \in {e, Nothing}

\* An index action that this turn decided acts on the element it was decided
\* for or on none, at most once, however the page changed after it was observed.
IndexTouchesMeant ==
    IndexAction /\ decided =>
        /\ TouchedOnly({meant})
        /\ \A e \in Elements : touched[e] <= 1

\* An index denotes the element it was shown for, from the observation to the click.
IndexInv == TypeOK /\ IndexMeansWhatWasShown /\ IndexTouchesMeant

\* The active page changes only as an action succeeds, and only to a tab that
\* opened during the action; a failed action leaves the agent where it was.
OnlyClicksSwitch ==
    [][page' # page => outcome' = "ok" /\ page' \in open /\ page' > before]_vars

\* Every action comes to an answer, whatever the pages do meanwhile.
ActionEnds == node = "handler" ~> node = "observe"

\* An index action acts on the element that the turn which decided it saw under
\* the index ("observe assigns the indexes anew every turn, so they are valid
\* only within one turn", interaction.py).
IndexOfItsTurn == IndexAction => TouchedOnly({meant})

\* "The element to click cannot be found" (click) is said of an element that was
\* not found: nothing has been clicked.
NotFoundIsUntouched == outcome = "ELEMENT_NOT_FOUND" => TouchedOnly({})

\* "The element was not found in the given time" (map_exception_to_code) is said
\* of an element that was not found in that time.
TimeoutIsUntouched == outcome = "TIMEOUT" => TouchedOnly({})

\* When every locator of a text fails the code is ELEMENT_NOT_FOUND ("RuntimeError:
\* every locator strategy failed (ELEMENT_NOT_FOUND)", click).
AllFailedIsNotFound ==
    last_action.op = "click" /\ outcome \in Codes => outcome = "ELEMENT_NOT_FOUND"

\* As long as a page is open, a turn looks at an open page ("returns the currently
\* active page", BrowserManager.get_page).
ObservesOpenPage ==
    [][node = "observe" /\ node' = "think" /\ open # {} => page \in open]_vars
================================================================================
