-------------------------- MODULE PageActionsProofs --------------------------
(***************************************************************************)
(* Theorems about a turn of the agent at the browser, for any number of    *)
(* elements, pages, turns and changes a page makes on its own.             *)
(*                                                                         *)
(* The index the LLM answers with names one element from the scan to the   *)
(* click: observe gives every number once (NumbersDiffer), a new element   *)
(* never carries one, and the active page is switched only once the        *)
(* handler has acted (PageInv).  The active page changes only as an action *)
(* succeeds, and only to a tab that opened during it (OnlyClicksSwitch).   *)
(***************************************************************************)
EXTENDS PageActions, FiniteSetTheorems, WellFoundedInduction, NaturalsInduction, TLAPS

Attempts == 1 .. 8 \cup 1 .. MaxCount + 1
Outcomes == {"none", "ok"} \cup Codes

\* A click that is under way, from its reading of the pages to the switch.
Clicking ==
    /\ node = "handler"
    /\ \/ phase = "settle"
       \/ last_action.op = "click"
       \/ last_action.op = "click_index" /\ phase = "act"

PagesKnown == Clicking => before >= page

\* A tab that opens later than the active page has no numbers yet, and only such a tab
\* is switched to.
PagesInOrder ==
    /\ page <= opened
    /\ \A p \in open : p <= opened
    /\ \A e \in Elements : where[e] > page => tag[e] = NoTag
    /\ phase = "settle" => node = "handler"
    /\ PagesKnown

\* A handler works on the active page.
OnActivePage == node = "handler" => on = page

\* Before an index action acts it has acted on nothing.
NotActedYet ==
    /\ node = "act" => touched = Untouched
    /\ IndexAction /\ node = "handler" /\ phase \in {"start", "scroll", "act"} =>
          touched = Untouched

\* What the turn has decided is what it was shown under the index.
MeantIsShown ==
    IndexAction /\ decided /\ node \in {"act", "handler"} =>
        meant = selector_map[last_action.index] /\ meant # Nothing

PageInv ==
    /\ IndexInv /\ PagesInOrder /\ OnActivePage /\ NotActedYet /\ MeantIsShown

(***************************************************************************)
(* The helpers                                                             *)
(***************************************************************************)

\* A set of numbers has a least one.
LEMMA LeastNumber ==
    ASSUME NEW S, S \subseteq Nat, S # {}
    PROVE  \E n \in S : \A m \in S : n <= m
<1> DEFINE less == {ss \in Nat \X Nat : ss[1] < ss[2]}
<1>1. IsWellFoundedOn(less, Nat)
  <2>1. less = OpToRel(<, Nat)
    BY Zenon DEF OpToRel
  <2> QED
    BY <2>1, NatLessThanWellFounded, Zenon
<1>2. PICK n \in S : \A m \in S : <<m, n>> \notin less
  <2> HIDE DEF less
  <2> QED
    BY <1>1, WFMin
<1>3. \A m \in S : ~(m < n)
  BY <1>2
<1> QED
  BY <1>3

\* A set of elements has a first one.
LEMMA FirstElement ==
    ASSUME ConstantsAssumption, NEW S, S \subseteq Elements, S # {}
    PROVE  Min(S) \in S
BY LeastNumber DEF ConstantsAssumption, Min

\* A set of pages has a last one.
LEMMA LastPage ==
    ASSUME ConstantsAssumption, NEW S, S \subseteq Pages, S # {}
    PROVE  Max(S) \in S
<1> DEFINE T == {MaxPages - p : p \in S}
<1>0. MaxPages \in Nat /\ \A p \in S : p \in 1 .. MaxPages
  BY DEF ConstantsAssumption, Pages
<1>1. T \subseteq Nat /\ T # {}
  BY <1>0
<1>2. PICK t \in T : \A u \in T : t <= u
  <2> HIDE DEF T
  <2> QED
    BY <1>1, LeastNumber
<1>3. PICK p \in S : t = MaxPages - p
  OBVIOUS
<1>4. \A q \in S : p >= q
  <2> SUFFICES ASSUME NEW q \in S PROVE p >= q
    OBVIOUS
  <2>1. t <= MaxPages - q
    BY <1>2
  <2> QED
    BY <1>0, <1>3, <2>1
<1> QED
  BY <1>4 DEF Max

\* The markers decide the code, whatever else the text holds.
LEMMA CodesComplete ==
    \A exc \in [timeout : BOOLEAN, words : SUBSET Words] : map_exception_to_code(exc) \in Codes
<1> SUFFICES ASSUME NEW exc \in [timeout : BOOLEAN, words : SUBSET Words]
             PROVE  map_exception_to_code(exc) \in Codes
  OBVIOUS
<1>1. exc.timeout \in BOOLEAN /\ exc.words \subseteq Words
  OBVIOUS
<1>2. \/ exc.timeout
      \/ ~exc.timeout /\ exc.words \cap {"not visible", "intercepts", "detached", "no element"} # {}
      \/ ~exc.timeout /\ exc.words = {"net::"}
      \/ ~exc.timeout /\ exc.words = {}
  BY <1>1 DEF Words
<1> QED
  BY <1>1, <1>2 DEF map_exception_to_code, Codes

(***************************************************************************)
(* The numbering of the elements                                           *)
(***************************************************************************)

\* The elements of K that come before e; how many they are is the number of e.
Before(K, e) == {d \in K : d < e}

\* The number of an element is a number.
LEMMA NumberType ==
    ASSUME ConstantsAssumption, NEW K, K \subseteq Elements, NEW e
    PROVE  /\ IsFiniteSet(K) /\ IsFiniteSet(Before(K, e))
           /\ Cardinality(K) \in Nat /\ Cardinality(Before(K, e)) \in Nat
<1>1. IsFiniteSet(K)
  BY FS_Subset DEF ConstantsAssumption
<1>2. Before(K, e) \in SUBSET K
  BY DEF Before
<1>3. IsFiniteSet(Before(K, e))
  BY <1>1, <1>2, FS_Subset
<1> QED
  BY <1>1, <1>3, FS_CardinalityType

\* Later elements have other numbers.
LEMMA NumbersGrow ==
    ASSUME ConstantsAssumption, NEW K, K \subseteq Elements, NEW e \in K, NEW f \in K, e < f
    PROVE  Cardinality(Before(K, e)) # Cardinality(Before(K, f))
<1>1. K \subseteq Nat
  BY DEF ConstantsAssumption
<1>2. /\ Before(K, e) \in SUBSET Before(K, f)
      /\ e \in Before(K, f) /\ e \notin Before(K, e)
  <2>1. \A d \in K : d < e => d < f
    BY <1>1
  <2>2. e \in Nat /\ ~(e < e)
    BY <1>1
  <2>3. Before(K, e) \subseteq Before(K, f)
    BY <2>1 DEF Before
  <2> QED
    BY <2>2, <2>3 DEF Before
<1>3. IsFiniteSet(Before(K, f))
  BY NumberType
<1> QED
  BY <1>2, <1>3, FS_Subset

\* A number denotes one element.
LEMMA NumbersDiffer ==
    ASSUME ConstantsAssumption, NEW K, K \subseteq Elements, NEW e \in K, NEW f \in K,
           Cardinality(Before(K, e)) = Cardinality(Before(K, f))
    PROVE  e = f
<1>1. e \in Nat /\ f \in Nat
  BY DEF ConstantsAssumption
<1>2. ~(e < f) /\ ~(f < e)
  BY NumbersGrow
<1> QED
  BY <1>1, <1>2

\* The numbers have no gap.
LEMMA EveryNumberGiven ==
    ASSUME ConstantsAssumption, NEW K, K \subseteq Elements, NEW n \in Nat,
           n < Cardinality(K)
    PROVE  \E e \in K : Cardinality(Before(K, e)) = n
<1> DEFINE Missing == {m \in Nat : /\ m < Cardinality(K)
                                   /\ \A e \in K : Cardinality(Before(K, e)) # m}
<1>0. /\ K \subseteq Nat /\ IsFiniteSet(K) /\ Cardinality(K) \in Nat
      /\ \A e \in K : IsFiniteSet(Before(K, e)) /\ Cardinality(Before(K, e)) \in Nat
  BY NumberType DEF ConstantsAssumption
<1> SUFFICES ASSUME Missing # {} PROVE FALSE
  OBVIOUS
<1>1. PICK m \in Missing : \A k \in Missing : m <= k
  <2>1. Missing \subseteq Nat
    OBVIOUS
  <2> HIDE DEF Missing
  <2> QED
    BY <2>1, LeastNumber
<1>2. m \in Nat /\ m < Cardinality(K) /\ \A e \in K : Cardinality(Before(K, e)) # m
  OBVIOUS
<1>3. CASE m = 0
  <2>1. K # {}
    BY <1>2, <1>3, FS_EmptySet
  <2>2. PICK e \in K : \A d \in K : e <= d
    BY <1>0, <2>1, LeastNumber
  <2>3. Before(K, e) = {}
    <3>1. \A d \in K : ~(d < e)
      BY <1>0, <2>2
    <3> QED
      BY <3>1 DEF Before
  <2> QED
    BY <1>2, <1>3, <2>3, FS_EmptySet
<1>4. CASE m # 0
  <2>1. m - 1 \in Nat /\ m - 1 < Cardinality(K) /\ m - 1 \notin Missing
    BY <1>0, <1>1, <1>2, <1>4
  <2>2. PICK e \in K : Cardinality(Before(K, e)) = m - 1
    BY <2>1
  <2> DEFINE upto == Before(K, e) \cup {e}
  <2>3. IsFiniteSet(upto) /\ Cardinality(upto) = m /\ upto \subseteq K
    <3>1. e \notin Before(K, e) /\ Before(K, e) \subseteq K
      BY <1>0 DEF Before
    <3>2. IsFiniteSet(upto) /\ Cardinality(upto) = Cardinality(Before(K, e)) + 1
      BY <1>0, <3>1, FS_AddElement
    <3> QED
      BY <1>2, <2>2, <3>1, <3>2
  <2>4. K \ upto # {} /\ K \ upto \subseteq Nat
    <3>1. K # upto
      BY <1>0, <1>2, <2>3
    <3> HIDE DEF upto
    <3> QED
      BY <1>0, <2>3, <3>1
  <2>5. PICK f \in K \ upto : \A d \in K \ upto : f <= d
    <3> HIDE DEF upto
    <3> QED
      BY <2>4, LeastNumber
  <2>6. Before(K, f) = upto
    <3>1. e < f
      BY <1>0, <2>5 DEF Before
    <3>2. \A d \in K : d < f <=> d \in upto
      BY <1>0, <2>5, <3>1 DEF Before
    <3>3. upto \subseteq K
      BY <2>3
    <3> HIDE DEF upto
    <3> QED
      BY <3>2, <3>3 DEF Before
  <2> QED
    BY <1>2, <2>3, <2>5, <2>6
<1> QED
  BY <1>3, <1>4

\* What the prompt lists under a number is the element that was given that number.
LEMMA NthIsNumbered ==
    ASSUME ConstantsAssumption, NEW K, K \subseteq Elements, NEW n \in Nat,
           n < Cardinality(K)
    PROVE  Nth(K, n) \in K /\ Cardinality(Before(K, Nth(K, n))) = n
<1>1. \E e \in K : Cardinality(Before(K, e)) = n
  BY EveryNumberGiven
<1> QED
  BY <1>1 DEF Nth, Before

(***************************************************************************)
(* The pages                                                               *)
(***************************************************************************)

\* The part of the invariant that what happens in a page could break.
DomInv ==
    /\ where \in [Elements -> {NoPage} \cup Pages]
    /\ tag \in [Elements -> {NoTag} \cup Indexes]
    /\ \A e \in Elements : where[e] = NoPage => tag[e] = NoTag
    /\ IndexMeansWhatWasShown
    /\ \A e \in Elements : where[e] > page => tag[e] = NoTag

\* A page that changes gives no element a number, and takes it from those that go.
LEMMA NumbersOnlyGo ==
    ASSUME DomInv, NEW p \in Pages, (\E S \in SUBSET Elements : Becomes(p, S)) \/ Loads(p)
    PROVE  /\ where' \in [Elements -> {NoPage} \cup Pages]
           /\ tag' \in [Elements -> {NoTag} \cup Indexes]
           /\ \A e \in Elements :
                 tag'[e] # NoTag => /\ tag'[e] = tag[e]
                                    /\ where'[e] = where[e] /\ where[e] # NoPage
<1>1. CASE \E S \in SUBSET Elements : Becomes(p, S)
  BY <1>1 DEF Becomes, Dom, DomInv
<1>2. CASE Loads(p)
  BY <1>2 DEF Loads, Dom, DomInv
<1> QED
  BY <1>1, <1>2

\* So every number goes on to mean what it was shown for.
LEMMA DomKept ==
    ASSUME DomInv, NEW p \in Pages, (\E S \in SUBSET Elements : Becomes(p, S)) \/ Loads(p),
           UNCHANGED <<page, selector_map>>
    PROVE  DomInv'
<1>1. /\ where' \in [Elements -> {NoPage} \cup Pages]
      /\ tag' \in [Elements -> {NoTag} \cup Indexes]
      /\ \A e \in Elements :
            tag'[e] # NoTag => /\ tag'[e] = tag[e]
                               /\ where'[e] = where[e] /\ where[e] # NoPage
  BY NumbersOnlyGo
<1>2. \A e \in Elements : where'[e] = NoPage => tag'[e] = NoTag
  BY <1>1
<1>3. \A e \in Elements : where'[e] > page' => tag'[e] = NoTag
  BY <1>1 DEF DomInv
<1>4. IndexMeansWhatWasShown'
  BY <1>1 DEF DomInv, IndexMeansWhatWasShown, Dom
<1> QED
  BY <1>1, <1>2, <1>3, <1>4 DEF DomInv

\* The invariant without the part of the pages.
AgentInv ==
    /\ open \subseteq Pages /\ opened \in Pages /\ changes \in 0 .. MaxChanges
    /\ node \in {"observe", "think", "act", "handler"}
    /\ page \in Pages
    /\ selector_map \in [Indexes -> {Nothing} \cup Elements]
    /\ last_action \in {NoAction} \cup
           [op : Ops, index : Indexes, words : TargetWords, count : 0 .. MaxCount]
    /\ decided \in BOOLEAN
    /\ turns \in 0 .. MaxTurns
    /\ phase \in {"start", "scroll", "act", "settle"}
    /\ on \in {NoPage} \cup Pages
    /\ attempt \in Attempts
    /\ before \in 0 .. MaxPages
    /\ touched \in [Elements -> Nat]
    /\ meant \in {Nothing} \cup Elements
    /\ outcome \in Outcomes
    /\ IndexTouchesMeant
    /\ page <= opened
    /\ \A p \in open : p <= opened
    /\ phase = "settle" => node = "handler"
    /\ PagesKnown
    /\ OnActivePage /\ NotActedYet /\ MeantIsShown

\* The two parts are the invariant.
LEMMA TwoParts == (PageInv <=> DomInv /\ AgentInv) /\ (PageInv' <=> DomInv' /\ AgentInv')
BY DEF PageInv, DomInv, AgentInv, IndexInv, TypeOK, PagesInOrder, Attempts, Outcomes

\* What pages do on their own.
LEMMA PageChangesKeep ==
    ASSUME ConstantsAssumption, PageInv, PageChanges
    PROVE  PageInv'
<1>0. DomInv /\ AgentInv /\ MaxPages \in Nat /\ MaxChanges \in Nat
  BY TwoParts DEF ConstantsAssumption
<1>1. /\ Changes /\ changes' \in 0 .. MaxChanges
      /\ UNCHANGED <<node, page, promptVars, turns, handlerVars>>
  BY <1>0 DEF PageChanges, Opens, Renders, Closes, Changes, AgentInv
<1>2. /\ open' \subseteq Pages /\ opened' \in Pages /\ opened <= opened'
      /\ \A p \in open' : p <= opened'
  <2>1. CASE Opens
    BY <1>0, <2>1 DEF Opens, AgentInv, Pages
  <2>2. CASE \E p \in Pages : Renders(p)
    BY <1>0, <2>2 DEF Renders, AgentInv, Pages
  <2>3. CASE \E p \in Pages : Closes(p)
    BY <1>0, <2>3 DEF Closes, AgentInv, Pages
  <2> QED
    BY <2>1, <2>2, <2>3 DEF PageChanges
<1>3. \E p \in Pages : (\E S \in SUBSET Elements : Becomes(p, S)) \/ Loads(p)
  <2>1. CASE Opens
    <3>1. opened + 1 \in Pages
      BY <1>0, <2>1 DEF Opens, AgentInv, Pages
    <3>2. \E S \in SUBSET Elements : Becomes(opened + 1, S)
      BY <2>1 DEF Opens, Dom
    <3> QED
      BY <3>1, <3>2
  <2>2. CASE \E p \in Pages : Renders(p)
    BY <2>2 DEF Renders
  <2>3. CASE \E p \in Pages : Closes(p)
    BY <2>3 DEF Closes
  <2> QED
    BY <2>1, <2>2, <2>3 DEF PageChanges
<1>4. DomInv'
  BY <1>0, <1>1, <1>3, DomKept DEF promptVars
<1>5. page' <= opened'
  BY <1>0, <1>1, <1>2 DEF AgentInv, Pages
<1>6. AgentInv'
  BY <1>0, <1>1, <1>2, <1>5 DEF AgentInv, promptVars, handlerVars, IndexTouchesMeant, IndexAction,
     TouchedOnly, OnActivePage, NotActedYet, MeantIsShown, PagesKnown, Clicking
<1> QED
  BY <1>4, <1>6, TwoParts

(***************************************************************************)
(* The handlers                                                            *)
(***************************************************************************)

\* Every exception has its code.
LEMMA RaisingAnswers ==
    \A exc \in [timeout : BOOLEAN, words : SUBSET Words] :
       Raises(exc) => \E answer \in Outcomes : Returns(answer)
BY CodesComplete DEF Raises, Outcomes

\* So have those of Playwright, with the target's text or without.
LEMMA PlaywrightAnswers ==
    ASSUME TargetsAssumption, PageInv
    PROVE  /\ PlaywrightRaises => \E answer \in Outcomes : Returns(answer)
           /\ \A exc \in PlaywrightErrors :
                 Raises(Error(exc.words)) => \E answer \in Outcomes : Returns(answer)
           /\ \A exc \in PlaywrightErrors :
                 Raises(Error(exc.words \cup last_action.words))
                    => \E answer \in Outcomes : Returns(answer)
<1>1. \A exc \in PlaywrightErrors : exc \in [timeout : BOOLEAN, words : SUBSET Words]
  <2>1. /\ \A W \in SUBSET Words : Error(W) \in [timeout : BOOLEAN, words : SUBSET Words]
        /\ [timeout |-> TRUE, words |-> {}] \in [timeout : BOOLEAN, words : SUBSET Words]
    BY DEF Error
  <2>2. {} \in SUBSET Words /\ \A w \in Words : {w} \in SUBSET Words
    OBVIOUS
  <2> QED
    BY <2>1, <2>2 DEF PlaywrightErrors
<1>2. last_action.words \subseteq Words
  BY DEF PageInv, IndexInv, TypeOK, TargetsAssumption, NoAction
<1>3. \A W \in SUBSET Words : Error(W) \in [timeout : BOOLEAN, words : SUBSET Words]
  BY DEF Error
<1>4. \A exc \in PlaywrightErrors : /\ exc.words \in SUBSET Words
                                    /\ exc.words \cup last_action.words \in SUBSET Words
  BY <1>1, <1>2
<1> QED
  BY <1>1, <1>3, <1>4, RaisingAnswers DEF PlaywrightRaises

\* The next await of a handler that has not clicked: a click has read the pages by then.
NextAwait ==
    /\ phase' \in {"scroll", "act"} /\ attempt' \in Attempts /\ before' \in {before, opened}
    /\ UNCHANGED <<node, on, outcome>>
    /\ IndexAction => phase \in {"start", "scroll"} /\ touched' = touched
    /\ last_action.op = "click" => before' = opened
    /\ last_action.op = "click_index" /\ phase' = "act" => before' = opened

\* A handler goes on: it answers, takes the next step, or waits for a new tab.
Proceeds ==
    \/ \E answer \in Outcomes : Returns(answer)
    \/ NextAwait
    \/ /\ phase' = "settle" /\ phase = "act" /\ last_action.op \in {"click", "click_index"}
       /\ UNCHANGED <<node, on, attempt, before, outcome>>

\* What it acts on, an index action only on what has the number, and only once.
ActsOnOne ==
    \/ touched' = touched
    \/ \E e \in Elements :
          /\ Touches(e)
          /\ IndexAction => e \in Tagged /\ phase \in {"start", "act"}

\* What has the number is what the number was shown for.
LEMMA TaggedIsMeant ==
    ASSUME PageInv, node = "handler", IndexAction, decided, NEW e \in Tagged
    PROVE  e = meant
<1>1. e \in Dom(page) /\ tag[e] = last_action.index
  BY DEF Tagged, PageInv, OnActivePage
<1>2. last_action.index \in Indexes
  BY DEF PageInv, IndexInv, TypeOK, IndexAction, IndexOps, NoAction
<1>3. tag[e] # NoTag
  BY <1>1, <1>2 DEF Indexes, NoTag
<1>4. selector_map[last_action.index] \in {e, Nothing}
  BY <1>1, <1>3 DEF PageInv, IndexInv, IndexMeansWhatWasShown, Dom
<1> QED
  BY <1>4 DEF PageInv, MeantIsShown, PagesKnown, Clicking

\* A handler that goes on with the active page keeps the invariant.
LEMMA HandlerKeeps ==
    ASSUME PageInv, node = "handler", Proceeds, ActsOnOne,
           \/ UNCHANGED domVars
           \/ on \in open /\ ((\E S \in SUBSET Elements : Becomes(on, S)) \/ Loads(on)),
           UNCHANGED <<open, opened, changes, page, promptVars, turns>>
    PROVE  PageInv'
<1>0. DomInv /\ AgentInv
  BY TwoParts
<1>1. DomInv'
  <2>1. CASE UNCHANGED domVars
    BY <1>0, <2>1 DEF domVars, promptVars, DomInv, IndexMeansWhatWasShown, Dom
  <2>2. CASE on \in open /\ ((\E S \in SUBSET Elements : Becomes(on, S)) \/ Loads(on))
    <3>1. on \in Pages
      BY <1>0, <2>2 DEF AgentInv
    <3> QED
      BY <1>0, <2>2, <3>1, DomKept DEF promptVars
  <2> QED
    BY <2>1, <2>2
<1>2. touched' \in [Elements -> Nat]
  BY <1>0 DEF ActsOnOne, Touches, AgentInv
<1>3. IndexTouchesMeant'
  <2> SUFFICES ASSUME IndexAction, decided
               PROVE  /\ \A e \in Elements \ {meant} : touched'[e] = 0
                      /\ \A e \in Elements : touched'[e] <= 1
    BY DEF IndexTouchesMeant, IndexAction, TouchedOnly, promptVars
  <2>1. CASE touched' = touched
    BY <1>0, <2>1 DEF AgentInv, IndexTouchesMeant, TouchedOnly
  <2>2. CASE touched' # touched
    <3>1. PICK e \in Elements : Touches(e) /\ e \in Tagged /\ phase \in {"start", "act"}
      BY <2>2 DEF ActsOnOne
    <3>2. touched = Untouched
      BY <3>1 DEF PageInv, NotActedYet
    <3>3. e = meant
      BY <3>1, TaggedIsMeant
    <3> QED
      BY <3>1, <3>2, <3>3 DEF Touches, Untouched
  <2> QED
    BY <2>1, <2>2
<1>4. CASE \E answer \in Outcomes : Returns(answer)
  <2>1. /\ node' = "observe" /\ phase' = "start" /\ on' = NoPage /\ attempt' = 1 /\ before' = 0
        /\ outcome' \in Outcomes
    BY <1>4 DEF Returns
  <2>2. 1 \in Attempts /\ 0 \in 0 .. MaxPages
    BY ConstantsAssumption DEF Attempts, ConstantsAssumption
  <2>3. OnActivePage' /\ NotActedYet' /\ MeantIsShown' /\ PagesKnown'
    BY <2>1 DEF OnActivePage, NotActedYet, MeantIsShown, PagesKnown, Clicking
  <2>4. AgentInv'
    BY <1>0, <1>2, <1>3, <2>1, <2>2, <2>3 DEF AgentInv, promptVars
  <2> QED
    BY <1>1, <2>4, TwoParts
<1>5. CASE NextAwait
  <2>1. OnActivePage' /\ NotActedYet' /\ MeantIsShown'
    BY <1>0, <1>5 DEF NextAwait, AgentInv, OnActivePage, NotActedYet, MeantIsShown, promptVars,
       IndexAction
  <2>2. before' \in 0 .. MaxPages /\ PagesKnown'
    BY <1>0, <1>5 DEF NextAwait, AgentInv, Pages, PagesKnown, Clicking, promptVars
  <2>3. AgentInv'
    BY <1>0, <1>2, <1>3, <1>5, <2>1, <2>2 DEF NextAwait, AgentInv, promptVars
  <2> QED
    BY <1>1, <2>3, TwoParts
<1>6. CASE /\ phase' = "settle" /\ phase = "act"
           /\ last_action.op \in {"click", "click_index"}
           /\ UNCHANGED <<node, on, attempt, before, outcome>>
  <2>1. OnActivePage' /\ NotActedYet' /\ MeantIsShown'
    BY <1>0, <1>6 DEF AgentInv, OnActivePage, NotActedYet, MeantIsShown, promptVars,
       IndexAction
  <2>2. before' \in 0 .. MaxPages /\ PagesKnown'
    BY <1>0, <1>6 DEF AgentInv, PagesKnown, Clicking
  <2>3. AgentInv'
    BY <1>0, <1>2, <1>3, <1>6, <2>1, <2>2 DEF AgentInv, promptVars
  <2> QED
    BY <1>1, <2>3, TwoParts
<1> QED
  BY <1>4, <1>5, <1>6 DEF Proceeds

\* A locator that fails leads to the next one, or to the handler's own error.
LEMMA NextLocatorProceeds ==
    ASSUME TargetsAssumption, PageInv, last_action.op \in TextOps, NextLocator
    PROVE  Proceeds
<1>1. \A op \in TextOps : Locators[op] \in 1 .. 8
  BY DEF TextOps, Locators
<1>2. ~IndexAction
  BY DEF IndexAction, IndexOps, TextOps
<1>3. CASE attempt < Locators[last_action.op]
  <2>1. attempt \in Nat
    BY ConstantsAssumption DEF PageInv, IndexInv, TypeOK, ConstantsAssumption
  <2>2. attempt + 1 \in Attempts
    <3>1. attempt >= 1
      BY ConstantsAssumption DEF PageInv, IndexInv, TypeOK, ConstantsAssumption
    <3> QED
      BY <1>1, <1>3, <2>1, <3>1 DEF Attempts
  <2> QED
    BY <1>2, <1>3, <2>2 DEF NextLocator, Proceeds, NextAwait, Began, IndexAction, IndexOps
<1>4. CASE ~(attempt < Locators[last_action.op])
  <2>1. last_action.words \cup {"no element"} \subseteq Words
    <3>1. last_action.words \subseteq Words
      BY DEF PageInv, IndexInv, TypeOK, TargetsAssumption, NoAction
    <3> QED
      BY <3>1 DEF Words
  <2>2. Error(last_action.words \cup {"no element"})
           \in [timeout : BOOLEAN, words : SUBSET Words]
    BY <2>1 DEF Error
  <2>3. Raises(Error(last_action.words \cup {"no element"}))
    BY <1>4 DEF NextLocator
  <2> QED
    BY <2>2, <2>3, RaisingAnswers DEF Proceeds
<1> QED
  BY <1>3, <1>4

\* Each of the ways a handler ends in.
LEMMA AnsweringProceeds ==
    ASSUME NEW answer \in Outcomes, Returns(answer)
    PROVE  Proceeds
BY DEF Proceeds

\* A handler that looks for a text, one locator after the other.
LEMMA TextKeeps ==
    ASSUME TargetsAssumption, PageInv, NEW op \in TextOps,
           ActsOnText(op) \/ RaisesMidway(op) \/ ReadsText(op)
    PROVE  PageInv'
<1>1. /\ node = "handler" /\ last_action.op = op /\ Handler /\ UNCHANGED page
  BY DEF ActsOnText, RaisesMidway, ReadsText, In
<1>2. ~IndexAction
  BY <1>1 DEF IndexAction, IndexOps, TextOps
<1>3. "ok" \in Outcomes
  BY DEF Outcomes
<1>4. Proceeds
  BY <1>1, <1>3, NextLocatorProceeds, AnsweringProceeds DEF ActsOnText, RaisesMidway, ReadsText
<1>5. ActsOnOne
  BY <1>2 DEF ActsOnText, RaisesMidway, ReadsText, ActsOnOne
<1> QED
  BY <1>1, <1>4, <1>5, HandlerKeeps DEF Handler, browserVars

\* A handler that takes an index and then acts on the element.
LEMMA IndexKeeps ==
    ASSUME TargetsAssumption, PageInv, NEW op \in IndexOps, ActsOnIndex(op) \/ IndexRaisesMidway(op)
    PROVE  PageInv'
<1>1. /\ node = "handler" /\ phase = "act" /\ Handler /\ UNCHANGED page
  BY DEF ActsOnIndex, IndexRaisesMidway, In
<1>2. Tagged # {} => Min(Tagged) \in Tagged /\ Min(Tagged) \in Elements
  <2>1. Tagged \subseteq Elements
    BY DEF Tagged, Dom
  <2> QED
    BY <2>1, FirstElement, ConstantsAssumption
<1>3. "ok" \in Outcomes
  BY DEF Outcomes
<1>4. Proceeds
  BY <1>3, PlaywrightAnswers, AnsweringProceeds DEF ActsOnIndex, IndexRaisesMidway, Proceeds
<1>5. ActsOnOne
  BY <1>1, <1>2 DEF ActsOnIndex, IndexRaisesMidway, ActsOnOne
<1> QED
  BY <1>1, <1>4, <1>5, HandlerKeeps DEF Handler, browserVars

\* The click that waits for a tab it may open.
LEMMA ClickKeeps ==
    ASSUME TargetsAssumption, PageInv, Click \/ ClickIndex
    PROVE  PageInv'
<1>1. /\ node = "handler" /\ phase = "act" /\ Handler /\ UNCHANGED page
  BY DEF Click, ClickIndex, In
<1>2. Tagged # {} => Min(Tagged) \in Tagged /\ Min(Tagged) \in Elements
  <2>1. Tagged \subseteq Elements
    BY DEF Tagged, Dom
  <2> QED
    BY <2>1, FirstElement, ConstantsAssumption
<1>3. CASE Click
  <2>1. last_action.op \in TextOps /\ ~IndexAction
    BY <1>3 DEF Click, In, TextOps, IndexAction, IndexOps
  <2>2. Proceeds
    BY <1>1, <1>3, <2>1, NextLocatorProceeds DEF Click, Proceeds, In
  <2>3. ActsOnOne
    BY <1>3, <2>1 DEF Click, ActsOnOne
  <2> QED
    BY <1>1, <2>2, <2>3, HandlerKeeps DEF Handler, browserVars
<1>4. CASE ClickIndex
  <2>1. Proceeds
    BY <1>1, <1>4, PlaywrightAnswers DEF ClickIndex, Proceeds, In
  <2>2. ActsOnOne
    BY <1>1, <1>2, <1>4 DEF ClickIndex, ActsOnOne
  <2> QED
    BY <1>1, <2>1, <2>2, HandlerKeeps DEF Handler, browserVars
<1> QED
  BY <1>3, <1>4

\* The tab a click switches to is open, and has opened since.
LEMMA NewestPage ==
    ASSUME PageInv, NewPages # {}
    PROVE  Max(NewPages) \in open /\ Max(NewPages) > before /\ Max(NewPages) \in Pages
<1>1. NewPages \subseteq Pages
  BY DEF NewPages, PageInv, IndexInv, TypeOK
<1> QED
  BY <1>1, LastPage, ConstantsAssumption DEF NewPages

\* It has no numbers yet, and neither have the later ones.
LEMMA SwitchKeeps ==
    ASSUME PageInv, node = "handler", phase = "settle", Handler, UNCHANGED touched,
           NewPages # {}, page' = Max(NewPages), Returns("ok")
    PROVE  PageInv'
<1>0. DomInv /\ AgentInv
  BY TwoParts
<1>1. /\ page' \in open /\ page' > before /\ page' \in Pages /\ before >= page /\ before \in Nat
      /\ page \in Nat /\ page' \in Nat
  <2>1. before >= page
    BY <1>0 DEF AgentInv, PagesKnown, Clicking
  <2> QED
    BY <1>0, <2>1, NewestPage, ConstantsAssumption DEF AgentInv, Pages, ConstantsAssumption
<1>2. \A e \in Elements : where[e] >= page' => tag[e] = NoTag
  <2>1. \A e \in Elements : where[e] \in Nat
    BY <1>0, ConstantsAssumption DEF DomInv, Pages, NoPage, ConstantsAssumption
  <2>2. \A e \in Elements : where[e] >= page' => where[e] > page
    BY <1>1, <2>1
  <2> QED
    BY <1>0, <2>2 DEF DomInv
<1>3. \A e \in Elements : where[e] = page' \/ where[e] > page' => where[e] >= page'
  <2>1. \A e \in Elements : where[e] \in Nat
    BY <1>0, ConstantsAssumption DEF DomInv, Pages, NoPage, ConstantsAssumption
  <2> QED
    BY <1>1, <2>1
<1>4. DomInv'
  BY <1>0, <1>2, <1>3 DEF DomInv, Handler, browserVars, domVars, promptVars,
     IndexMeansWhatWasShown, Dom
<1>5. /\ node' = "observe" /\ phase' = "start" /\ on' = NoPage /\ attempt' = 1 /\ before' = 0
      /\ outcome' = "ok"
  BY DEF Returns
<1>6. 1 \in Attempts /\ 0 \in 0 .. MaxPages /\ "ok" \in Outcomes
  BY ConstantsAssumption DEF Attempts, Outcomes, ConstantsAssumption
<1>7. OnActivePage' /\ NotActedYet' /\ MeantIsShown' /\ PagesKnown'
  BY <1>5 DEF OnActivePage, NotActedYet, MeantIsShown, PagesKnown, Clicking
<1>8. IndexTouchesMeant'
  BY <1>0 DEF AgentInv, IndexTouchesMeant, IndexAction, TouchedOnly, Handler, promptVars
<1>9. page' <= opened'
  BY <1>0, <1>1 DEF AgentInv, Handler, browserVars
<1>10. AgentInv'
  BY <1>0, <1>1, <1>5, <1>6, <1>7, <1>8, <1>9 DEF AgentInv, Handler, browserVars, promptVars
<1> QED
  BY <1>4, <1>10, TwoParts

\* The end of that wait.
LEMMA SettleKeeps ==
    ASSUME TargetsAssumption, PageInv, ClickSettles \/ ClickIndexSettles
    PROVE  /\ PageInv'
           /\ page' # page => outcome' = "ok" /\ page' \in open /\ page' > before
<1>1. /\ node = "handler" /\ phase = "settle" /\ Handler /\ UNCHANGED touched
  BY DEF ClickSettles, ClickIndexSettles, In
<1>2. "ok" \in Outcomes /\ ActsOnOne
  BY <1>1 DEF Outcomes, ActsOnOne
<1>3. CASE NewPages # {} /\ page' = Max(NewPages) /\ Returns("ok")
  BY <1>1, <1>3, SwitchKeeps, NewestPage DEF Returns
<1>4. CASE UNCHANGED page
  <2>1. Proceeds
    <3>1. CASE ClickSettles
      <4>1. last_action.op \in TextOps
        BY <3>1 DEF ClickSettles, In, TextOps
      <4> QED
        BY <1>2, <3>1, <4>1, NextLocatorProceeds, AnsweringProceeds DEF ClickSettles
    <3>2. CASE ClickIndexSettles
      <4>1. Raises(Error({})) => \E answer \in Outcomes : Returns(answer)
        BY RaisingAnswers DEF Error
      <4> QED
        BY <1>2, <3>2, <4>1, PlaywrightAnswers DEF ClickIndexSettles, Proceeds
    <3> QED
      BY <3>1, <3>2
  <2> QED
    BY <1>1, <1>2, <1>4, <2>1, HandlerKeeps DEF Handler, browserVars
<1> QED
  BY <1>3, <1>4 DEF ClickSettles, ClickIndexSettles

\* Every step of a handler.
LEMMA HandlerStepKeeps ==
    ASSUME ConstantsAssumption, TargetsAssumption, PageInv, HandlerStep
    PROVE  /\ PageInv'
           /\ page' # page => outcome' = "ok" /\ page' \in open /\ page' > before
<1>0. /\ {"INVALID_ARGUMENT", "ELEMENT_NOT_FOUND", "ok"} \subseteq Outcomes
      /\ {"type", "hover", "check", "press", "wait_for_element", "scroll_to_element",
          "upload_file", "extract"} \subseteq TextOps
      /\ {"type_index", "hover_index", "press_index", "check_index", "scroll_to_index"}
            \subseteq IndexOps
  BY DEF Outcomes, Codes, TextOps, IndexOps
<1>1. CASE BadArgument
  <2>1. /\ node = "handler" /\ Handler /\ UNCHANGED <<page, touched>>
        /\ Returns("INVALID_ARGUMENT")
    BY <1>1 DEF BadArgument
  <2>2. Proceeds /\ ActsOnOne
    BY <1>0, <2>1 DEF Proceeds, ActsOnOne
  <2> QED
    BY <2>1, <2>2, HandlerKeeps DEF Handler, browserVars
<1>2. CASE TypeText \/ Hover \/ Check \/ Press \/ WaitForElement \/ ScrollToElement
           \/ UploadFile \/ Extract
  <2>1. PICK op \in TextOps : ActsOnText(op) \/ RaisesMidway(op) \/ ReadsText(op)
    BY <1>0, <1>2 DEF TypeText, Hover, Check, Press, WaitForElement, ScrollToElement,
       UploadFile, Extract
  <2>2. UNCHANGED page
    BY <2>1 DEF ActsOnText, RaisesMidway, ReadsText
  <2> QED
    BY <2>1, <2>2, TextKeeps
<1>3. CASE PressFocused
  <2>1. /\ node = "handler" /\ Handler /\ UNCHANGED page /\ ~IndexAction
    BY <1>3 DEF PressFocused, In, IndexAction, IndexOps
  <2>2. Proceeds /\ ActsOnOne
    BY <1>0, <1>3, <2>1, PlaywrightAnswers DEF PressFocused, Proceeds, ActsOnOne
  <2> QED
    BY <2>1, <2>2, HandlerKeeps DEF Handler, browserVars
<1>4. CASE DragAndDrop
  <2>1. /\ node = "handler" /\ Handler /\ UNCHANGED page /\ ~IndexAction
        /\ last_action.op \in TextOps
    BY <1>4 DEF DragAndDrop, In, IndexAction, IndexOps, TextOps
  <2>2. Proceeds
    BY <1>0, <1>4, <2>1, PlaywrightAnswers, NextLocatorProceeds, AnsweringProceeds
       DEF DragAndDrop, Proceeds
  <2>3. ActsOnOne
    BY <1>4, <2>1 DEF DragAndDrop, ActsOnOne
  <2> QED
    BY <2>1, <2>2, <2>3, HandlerKeeps DEF Handler, browserVars
<1>5. CASE Click \/ ClickIndex
  <2>1. UNCHANGED page
    BY <1>5 DEF Click, ClickIndex
  <2> QED
    BY <1>5, <2>1, ClickKeeps
<1>6. CASE ClickSettles \/ ClickIndexSettles
  BY <1>6, SettleKeeps
<1>7. CASE IndexExists \/ IndexRaises
  <2>1. /\ node = "handler" /\ phase = "start" /\ Handler /\ UNCHANGED <<page, touched>>
    BY <1>7 DEF IndexExists, IndexRaises
  <2>2. attempt \in Attempts
    BY DEF PageInv, IndexInv, TypeOK, Attempts
  <2>3. Proceeds
    <3>1. CASE IndexExists
      BY <1>0, <2>1, <2>2, <3>1 DEF IndexExists, Proceeds, NextAwait, IndexOps
    <3>2. CASE IndexRaises
      BY <3>2, PlaywrightAnswers DEF IndexRaises, Proceeds
    <3> QED
      BY <1>7, <3>1, <3>2
  <2>4. ActsOnOne
    BY <2>1 DEF ActsOnOne
  <2> QED
    BY <2>1, <2>3, <2>4, HandlerKeeps DEF Handler, browserVars
<1>12. CASE ClickIndexScrolls
  <2>1. /\ node = "handler" /\ phase = "scroll" /\ Handler /\ UNCHANGED <<page, touched>>
        /\ last_action.op = "click_index"
    BY <1>12 DEF ClickIndexScrolls, In
  <2>2. attempt \in Attempts
    BY DEF PageInv, IndexInv, TypeOK, Attempts
  <2>3. Proceeds /\ ActsOnOne
    BY <1>12, <2>1, <2>2 DEF ClickIndexScrolls, Proceeds, NextAwait, ActsOnOne
  <2> QED
    BY <2>1, <2>3, HandlerKeeps DEF Handler, browserVars
<1>8. CASE TypeIndex \/ HoverIndex \/ PressIndex \/ CheckIndex \/ ScrollToIndex
  <2>1. PICK op \in IndexOps : ActsOnIndex(op) \/ IndexRaisesMidway(op)
    BY <1>0, <1>8 DEF TypeIndex, HoverIndex, PressIndex, CheckIndex, ScrollToIndex
  <2>2. UNCHANGED page
    BY <2>1 DEF ActsOnIndex, IndexRaisesMidway
  <2> QED
    BY <2>1, <2>2, IndexKeeps
<1>9. CASE Navigate \/ Refresh \/ Back
  <2>1. /\ node = "handler" /\ ~IndexAction
        /\ UNCHANGED <<open, opened, changes, page, promptVars, turns, touched>>
        /\ UNCHANGED domVars \/ (on \in open /\ Loads(on))
    BY <1>9 DEF Navigate, Refresh, Back, LoadsPage, In, IndexAction, IndexOps
  <2>2. Proceeds
    <3>1. CASE Navigate \/ Refresh
      BY <1>0, <3>1, PlaywrightAnswers DEF Navigate, Refresh, LoadsPage, Proceeds
    <3>2. CASE Back
      <4>1. attempt < last_action.count => attempt + 1 \in Attempts
        <5>1. attempt \in Nat /\ attempt >= 1 /\ last_action.count \in 0 .. MaxCount
              /\ MaxCount \in Nat
          BY DEF PageInv, IndexInv, TypeOK, NoAction, ConstantsAssumption
        <5> QED
          BY <5>1 DEF Attempts
      <4>2. attempt \in Int /\ last_action.count \in Int
        BY DEF PageInv, IndexInv, TypeOK, NoAction, ConstantsAssumption
      <4>3. phase = "act"
        BY <3>2 DEF Back, LoadsPage, In
      <4> QED
        BY <1>0, <2>1, <3>2, <4>1, <4>2, <4>3, PlaywrightAnswers DEF Back, LoadsPage, Proceeds,
           NextAwait, In
    <3> QED
      BY <1>9, <3>1, <3>2
  <2>3. ActsOnOne
    BY <2>1 DEF ActsOnOne
  <2> QED
    BY <2>1, <2>2, <2>3, HandlerKeeps
<1>10. CASE Scroll \/ Wait \/ Screenshot
  <2>1. /\ node = "handler" /\ Handler /\ UNCHANGED <<page, touched>>
    BY <1>10 DEF Scroll, Wait, KeepsPage, Screenshot, In
  <2>2. Proceeds /\ ActsOnOne
    BY <1>0, <1>10, <2>1, PlaywrightAnswers DEF Scroll, Wait, KeepsPage, Screenshot, Proceeds,
       ActsOnOne
  <2> QED
    BY <2>1, <2>2, HandlerKeeps DEF Handler, browserVars
<1>11. CASE ExecuteJs
  <2>1. /\ node = "handler"
        /\ UNCHANGED <<open, opened, changes, page, promptVars, turns, touched>>
        /\ UNCHANGED domVars \/ (on \in open /\ \E S \in SUBSET Elements : Becomes(on, S))
    BY <1>11 DEF ExecuteJs, In
  <2>2. Proceeds /\ ActsOnOne
    BY <1>0, <1>11, <2>1, PlaywrightAnswers DEF ExecuteJs, Proceeds, ActsOnOne
  <2> QED
    BY <2>1, <2>2, HandlerKeeps
<1> QED
  BY <1>1, <1>2, <1>3, <1>4, <1>5, <1>6, <1>7, <1>8, <1>9, <1>10, <1>11, <1>12
     DEF HandlerStep, TextStep, IndexStep, PageStep

(***************************************************************************)
(* The turn                                                                *)
(***************************************************************************)

\* observe numbers the elements of the active page anew, and the prompt lists what has
\* been numbered.
LEMMA RetagMeansShown ==
    ASSUME ConstantsAssumption, DomInv, page \in Pages, NEW K, K \subseteq Dom(page), Retag(K)
    PROVE  /\ tag' \in [Elements -> {NoTag} \cup Indexes]
           /\ \A e \in Elements : where[e] # page => tag'[e] = tag[e]
           /\ [n \in Indexes |-> IF n < Cardinality(K) THEN Nth(K, n) ELSE Nothing]
                 \in [Indexes -> {Nothing} \cup Elements]
           /\ \A e \in Dom(page) : tag'[e] # NoTag =>
                 /\ tag'[e] \in Indexes
                 /\ tag'[e] < Cardinality(K) => Nth(K, tag'[e]) = e
<1>0. K \subseteq Elements /\ MaxIndex \in Nat /\ MaxPages \in Nat
  BY DEF Dom, ConstantsAssumption
<1>1. \A e \in Elements : tag'[e] = IF where[e] # page THEN tag[e]
                                    ELSE IF e \in K /\ Cardinality(Before(K, e)) < MaxIndex
                                         THEN Cardinality(Before(K, e)) ELSE NoTag
  BY DEF Retag, Before
<1>2. \A e \in Elements : Cardinality(Before(K, e)) \in Nat
  BY <1>0, NumberType
<1>3. \A e \in Elements : Cardinality(Before(K, e)) < MaxIndex =>
                             Cardinality(Before(K, e)) \in Indexes
  BY <1>0, <1>2 DEF Indexes
<1>4. \A e \in Elements : tag'[e] \in {NoTag} \cup Indexes
  BY <1>1, <1>3 DEF DomInv
<1>5. tag' \in [Elements -> {NoTag} \cup Indexes]
  <2>1. tag' = [e \in Elements |-> tag'[e]]
    BY DEF Retag
  <2> QED
    BY <1>4, <2>1
<1>6. \A n \in Indexes : n < Cardinality(K) =>
         Nth(K, n) \in K /\ Cardinality(Before(K, Nth(K, n))) = n
  <2>1. Indexes \subseteq Nat
    BY <1>0 DEF Indexes
  <2> QED
    BY <1>0, <2>1, NthIsNumbered
<1>7. ASSUME NEW e \in Dom(page), tag'[e] # NoTag
      PROVE  tag'[e] \in Indexes /\ (tag'[e] < Cardinality(K) => Nth(K, tag'[e]) = e)
  <2>1. e \in Elements /\ where[e] = page
    BY DEF Dom
  <2>2. e \in K /\ tag'[e] = Cardinality(Before(K, e)) /\ tag'[e] \in Indexes
    BY <1>1, <1>4, <1>7, <2>1
  <2>3. ASSUME tag'[e] < Cardinality(K) PROVE Nth(K, tag'[e]) = e
    <3>1. PICK n \in Indexes : n = Cardinality(Before(K, e)) /\ n = tag'[e]
      BY <2>2
    <3>2. Nth(K, n) \in K /\ Cardinality(Before(K, Nth(K, n))) = Cardinality(Before(K, e))
      BY <1>6, <2>3, <3>1
    <3>3. Nth(K, n) = e
      BY <1>0, <2>2, <3>2, NumbersDiffer
    <3> QED
      BY <3>1, <3>3
  <2> QED
    BY <2>2, <2>3
<1>8. [n \in Indexes |-> IF n < Cardinality(K) THEN Nth(K, n) ELSE Nothing]
         \in [Indexes -> {Nothing} \cup Elements]
  BY <1>0, <1>6
<1> QED
  BY <1>1, <1>5, <1>7, <1>8

\* observe, however it ends.
LEMMA ObserveKeeps ==
    ASSUME ConstantsAssumption, PageInv, Observe
    PROVE  PageInv'
<1>0. DomInv /\ AgentInv
  BY TwoParts
<1>1. /\ node = "observe" /\ node' = "think" /\ turns < MaxTurns /\ turns' = turns + 1
      /\ UNCHANGED <<open, opened, where, changes, page, last_action, decided, meant,
                     handlerVars>>
  BY DEF Observe
<1>2. /\ tag' \in [Elements -> {NoTag} \cup Indexes]
      /\ \A e \in Elements : where[e] # page => tag'[e] = tag[e]
      /\ selector_map' \in [Indexes -> {Nothing} \cup Elements]
      /\ \A e \in Dom(page) : tag'[e] # NoTag => selector_map'[tag'[e]] \in {e, Nothing}
  <2>1. CASE ObserveOk
    <3>1. PICK K \in SUBSET Dom(page) :
            /\ Retag(K)
            /\ selector_map' = [n \in Indexes |->
                  IF n < Cardinality(K) THEN Nth(K, n) ELSE Nothing]
      BY <2>1 DEF ObserveOk
    <3>2. /\ tag' \in [Elements -> {NoTag} \cup Indexes]
          /\ \A e \in Elements : where[e] # page => tag'[e] = tag[e]
          /\ selector_map' \in [Indexes -> {Nothing} \cup Elements]
          /\ \A e \in Dom(page) : tag'[e] # NoTag =>
                /\ tag'[e] \in Indexes
                /\ tag'[e] < Cardinality(K) => Nth(K, tag'[e]) = e
      BY <1>0, <3>1, RetagMeansShown DEF AgentInv
    <3>3. ASSUME NEW e \in Dom(page), tag'[e] # NoTag
          PROVE  selector_map'[tag'[e]] \in {e, Nothing}
      <4>1. PICK n \in Indexes : n = tag'[e] /\ (n < Cardinality(K) => Nth(K, n) = e)
        BY <3>2, <3>3
      <4>2. selector_map'[n] = IF n < Cardinality(K) THEN Nth(K, n) ELSE Nothing
        BY <3>1
      <4> QED
        BY <4>1, <4>2
    <3> QED
      BY <3>2, <3>3
  <2>2. CASE ObserveEmpty
    <3>1. /\ tag' \in [Elements -> {NoTag} \cup Indexes]
          /\ \A e \in Elements : where[e] # page => tag'[e] = tag[e]
      <4>1. CASE UNCHANGED tag
        BY <1>0, <4>1 DEF DomInv
      <4>2. CASE \E K \in SUBSET Dom(page) : Retag(K)
        BY <1>0, <4>2, RetagMeansShown DEF AgentInv
      <4> QED
        BY <2>2, <4>1, <4>2 DEF ObserveEmpty
    <3>2. selector_map' = [n \in Indexes |-> Nothing]
      BY <2>2 DEF ObserveEmpty
    <3>3. \A e \in Dom(page) : tag'[e] # NoTag => tag'[e] \in Indexes
      BY <3>1 DEF Dom
    <3> QED
      BY <3>1, <3>2, <3>3
  <2>3. CASE ObserveFails
    BY <1>0, <2>3 DEF ObserveFails, DomInv, AgentInv, IndexMeansWhatWasShown
  <2> QED
    BY <2>1, <2>2, <2>3 DEF Observe
<1>3. DomInv'
  <2>1. IndexMeansWhatWasShown'
    BY <1>1, <1>2 DEF IndexMeansWhatWasShown, Dom
  <2>2. \A e \in Elements : where'[e] > page' => tag'[e] = NoTag
    <3>1. \A e \in Elements : where[e] > page => where[e] # page
      BY <1>0, ConstantsAssumption DEF DomInv, AgentInv, Pages, NoPage, ConstantsAssumption
    <3> QED
      BY <1>0, <1>1, <1>2, <3>1 DEF DomInv
  <2>3. \A e \in Elements : where'[e] = NoPage => tag'[e] = NoTag
    <3>1. page # NoPage
      BY <1>0, ConstantsAssumption DEF AgentInv, Pages, NoPage, ConstantsAssumption
    <3> QED
      BY <1>0, <1>1, <1>2, <3>1 DEF DomInv
  <2> QED
    BY <1>0, <1>1, <1>2, <2>1, <2>2, <2>3 DEF DomInv
<1>4. turns' \in 0 .. MaxTurns
  BY <1>0, <1>1 DEF AgentInv, ConstantsAssumption
<1>5. OnActivePage' /\ NotActedYet' /\ MeantIsShown' /\ PagesKnown' /\ IndexTouchesMeant'
  BY <1>0, <1>1
     DEF AgentInv, OnActivePage, NotActedYet, MeantIsShown, PagesKnown, Clicking, IndexTouchesMeant,
     IndexAction, TouchedOnly, handlerVars
<1>6. AgentInv'
  BY <1>0, <1>1, <1>2, <1>4, <1>5 DEF AgentInv, handlerVars
<1> QED
  BY <1>3, <1>6, TwoParts

\* think, however it ends: a decision means what is listed under its index.
LEMMA ThinkKeeps ==
    ASSUME PageInv, Think
    PROVE  PageInv'
<1>0. DomInv /\ AgentInv
  BY TwoParts
<1>1. /\ node = "think" /\ node' = "act" /\ touched' = Untouched /\ outcome' = "none"
      /\ UNCHANGED <<browserVars, page, selector_map, turns, phase, on, attempt, before>>
  BY DEF Think
<1>2. /\ last_action' \in {NoAction} \cup
             [op : Ops, index : Indexes, words : TargetWords, count : 0 .. MaxCount]
      /\ decided' \in BOOLEAN /\ meant' \in {Nothing} \cup Elements
      /\ IndexAction' /\ decided' =>
            meant' = selector_map[last_action'.index] /\ meant' # Nothing
  <2>1. CASE ThinkOk
    <3>1. PICK a \in Decisions :
            /\ last_action' = a
            /\ meant' = IF a.op \in IndexOps THEN selector_map[a.index] ELSE Nothing
      BY <2>1 DEF ThinkOk
    <3>2. /\ a \in [op : Ops, index : Indexes, words : TargetWords, count : 0 .. MaxCount]
          /\ a.index \in Indexes
          /\ a.op \in IndexOps => selector_map[a.index] # Nothing
      BY DEF Decisions
    <3> QED
      BY <1>0, <2>1, <3>1, <3>2 DEF ThinkOk, AgentInv, IndexAction
  <2>2. CASE ThinkFails
    BY <1>0, <2>2 DEF ThinkFails, AgentInv
  <2> QED
    BY <2>1, <2>2 DEF Think
<1>3. DomInv'
  BY <1>0, <1>1 DEF DomInv, browserVars, domVars, IndexMeansWhatWasShown, Dom
<1>4. touched' \in [Elements -> Nat] /\ IndexTouchesMeant'
  BY <1>1 DEF Untouched, IndexTouchesMeant, TouchedOnly
<1>5. phase # "settle"
  BY <1>0, <1>1 DEF AgentInv
<1>6. OnActivePage' /\ NotActedYet' /\ MeantIsShown' /\ PagesKnown'
  BY <1>1, <1>2 DEF OnActivePage, NotActedYet, MeantIsShown, PagesKnown, Clicking
<1>7. AgentInv'
  BY <1>0, <1>1, <1>2, <1>4, <1>5, <1>6 DEF AgentInv, browserVars, Outcomes
<1> QED
  BY <1>3, <1>7, TwoParts

\* act gives the handler the active page.
LEMMA ActKeeps ==
    ASSUME ConstantsAssumption, PageInv, ActRefused \/ ActDispatches
    PROVE  PageInv'
<1>0. DomInv /\ AgentInv
  BY TwoParts
<1>1. /\ node = "act" /\ UNCHANGED <<browserVars, page, promptVars, turns, touched>>
      /\ touched = Untouched /\ phase # "settle"
  BY <1>0 DEF ActRefused, ActDispatches, AgentInv, NotActedYet
<1>2. DomInv'
  BY <1>0, <1>1 DEF DomInv, browserVars, domVars, promptVars, IndexMeansWhatWasShown, Dom
<1>3. IndexTouchesMeant'
  BY <1>1 DEF Untouched, IndexTouchesMeant, TouchedOnly
<1>4. CASE ActRefused
  <2>1. /\ node' = "observe" /\ phase' = "start" /\ on' = NoPage /\ attempt' = 1 /\ before' = 0
        /\ outcome' = "INVALID_ARGUMENT"
    BY <1>4 DEF ActRefused, Returns
  <2>2. 1 \in Attempts /\ 0 \in 0 .. MaxPages /\ "INVALID_ARGUMENT" \in Outcomes
    BY DEF Attempts, ConstantsAssumption, Outcomes, Codes
  <2>3. OnActivePage' /\ NotActedYet' /\ MeantIsShown' /\ PagesKnown'
    BY <2>1 DEF OnActivePage, NotActedYet, MeantIsShown, PagesKnown, Clicking
  <2>4. AgentInv'
    BY <1>0, <1>1, <1>3, <2>1, <2>2, <2>3 DEF AgentInv, browserVars, promptVars
  <2> QED
    BY <1>2, <2>4, TwoParts
<1>5. CASE ActDispatches
  <2>1. /\ node' = "handler" /\ phase' \in {"start", "act"} /\ on' = page
        /\ UNCHANGED <<attempt, outcome>> /\ before' \in {before, opened}
        /\ last_action.op = "click" => before' = opened
        /\ last_action.op = "click_index" => phase' = "start"
    BY <1>5 DEF ActDispatches, Began, IndexOps
  <2>2. OnActivePage' /\ NotActedYet' /\ MeantIsShown' /\ PagesKnown'
    BY <1>0, <1>1, <2>1
       DEF AgentInv, OnActivePage, NotActedYet, MeantIsShown, PagesKnown, Clicking, promptVars,
       IndexAction
  <2>3. before' \in 0 .. MaxPages
    BY <1>0, <2>1 DEF AgentInv, Pages
  <2>4. AgentInv'
    BY <1>0, <1>1, <1>3, <2>1, <2>2, <2>3 DEF AgentInv, browserVars, promptVars
  <2> QED
    BY <1>2, <2>4, TwoParts
<1> QED
  BY <1>4, <1>5

\* Every step keeps the invariant, and takes the agent to another page only with a click
\* that succeeds.
LEMMA PageStepKeeps ==
    ASSUME ConstantsAssumption, TargetsAssumption, PageInv, [Next]_vars
    PROVE  /\ PageInv'
           /\ page' # page => outcome' = "ok" /\ page' \in open /\ page' > before
<1>1. CASE Observe \/ Think \/ ActRefused \/ ActDispatches \/ PageChanges
  <2>1. page' = page
    BY <1>1 DEF Observe, Think, ActRefused, ActDispatches, PageChanges, Opens, Renders, Closes,
       Changes
  <2> QED
    BY <1>1, <2>1, ObserveKeeps, ThinkKeeps, ActKeeps, PageChangesKeep
<1>2. CASE HandlerStep
  BY <1>2, HandlerStepKeeps
<1>3. CASE UNCHANGED vars
  <2>1. DomInv /\ AgentInv
    BY TwoParts
  <2>2. DomInv'
    BY <1>3, <2>1 DEF vars, browserVars, domVars, promptVars, handlerVars, DomInv,
       IndexMeansWhatWasShown, Dom
  <2>3. OnActivePage' /\ NotActedYet' /\ MeantIsShown' /\ PagesKnown' /\ IndexTouchesMeant'
    BY <1>3, <2>1 DEF vars, browserVars, domVars, promptVars, handlerVars, AgentInv,
       OnActivePage, NotActedYet, MeantIsShown, PagesKnown, Clicking, IndexTouchesMeant,
       IndexAction, TouchedOnly
  <2>4. AgentInv'
    BY <1>3, <2>1, <2>3 DEF vars, browserVars, domVars, promptVars, handlerVars, AgentInv
  <2> QED
    BY <1>3, <2>2, <2>4, TwoParts DEF vars
<1> QED
  BY <1>1, <1>2, <1>3 DEF Next, AgentStep

\* Nothing has been numbered, decided or touched.
LEMMA PageStart ==
    ASSUME ConstantsAssumption, TargetsAssumption, Init
    PROVE  PageInv
<1>0. /\ 1 \in Pages /\ 1 \in Attempts /\ 0 \in 0 .. MaxPages /\ 0 \in 0 .. MaxTurns
      /\ 0 \in 0 .. MaxChanges /\ "none" \in Outcomes
  BY DEF ConstantsAssumption, Pages, Attempts, Outcomes
<1>1. DomInv
  BY <1>0 DEF Init, DomInv, IndexMeansWhatWasShown, Dom
<1>2. touched \in [Elements -> Nat] /\ IndexTouchesMeant
  BY DEF Init, Untouched, IndexTouchesMeant, TouchedOnly
<1>3. OnActivePage /\ NotActedYet /\ MeantIsShown /\ PagesKnown
  BY DEF Init, OnActivePage, NotActedYet, MeantIsShown, PagesKnown, Clicking
<1>4. \A p \in open : p <= opened
  BY DEF Init
<1>5. selector_map \in [Indexes -> {Nothing} \cup Elements] /\ decided \in BOOLEAN
  BY DEF Init
<1>6. AgentInv
  BY <1>0, <1>2, <1>3, <1>4, <1>5 DEF Init, AgentInv
<1> QED
  BY <1>1, <1>6, TwoParts

\* The inductive invariant of the turns.
THEOREM PageInvariant == Spec => []PageInv
<1>1. ConstantsAssumption /\ TargetsAssumption /\ Init => PageInv
  BY PageStart
<1>2. ConstantsAssumption /\ TargetsAssumption /\ PageInv /\ [Next]_vars => PageInv'
  BY PageStepKeeps
<1> QED
  BY ConstantsAssumption, TargetsAssumption, <1>1, <1>2, PTL DEF Spec

\* An index denotes the element it was shown for, whatever the pages do between the
\* observation and the click, for any number of elements, pages, tabs and turns.
THEOREM IndexInvHolds == Spec => []IndexInv
<1>1. PageInv => IndexInv
  BY DEF PageInv
<1> QED
  BY <1>1, PageInvariant, PTL

\* Only a click that succeeds takes the agent to another page, and only to a tab that
\* opened during the click.
THEOREM OnlyClicksSwitchHolds == Spec => OnlyClicksSwitch
<1>1. ConstantsAssumption /\ TargetsAssumption /\ PageInv /\ [Next]_vars
         => [page' # page => outcome' = "ok" /\ page' \in open /\ page' > before]_vars
  BY PageStepKeeps
<1> QED
  BY ConstantsAssumption, TargetsAssumption, <1>1, PageInvariant, PTL
     DEF Spec, OnlyClicksSwitch
=============================================================================
