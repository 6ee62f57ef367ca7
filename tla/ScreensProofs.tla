---------------------------- MODULE ScreensProofs ----------------------------
(***************************************************************************)
(* What the screens of the backoffice show is true, for a queue, a form,   *)
(* services and addresses of any size and any number of calls. One screen  *)
(* after the other: its inductive invariant, and the lemmas that its first *)
(* state has it and that every step keeps it. The theorems about Screens,  *)
(* which shows one screen at a time, are at the end.                       *)
(*                                                                         *)
(* The queue: while a review is on its way no question is, so what comes   *)
(* later was listed later. The creation: the call a form waits for is its  *)
(* last one. The detail: one call at a time, each reads later than what is *)
(* shown. The status: every reply has its reason since the round began.    *)
(* The list: only the newest question can be for the address as it is.     *)
(***************************************************************************)
EXTENDS Screens, FiniteSetTheorems, SequenceTheorems, TLAPS

\* How many of the pending requests come before one, and those of a page.
PlaceIn(waiting, r) == Cardinality({x \in waiting : x > r})
PageIn(waiting, p) ==
  {r \in waiting : PlaceIn(waiting, r) \in (p - 1) * PageSize .. p * PageSize - 1}
OnPage == PageIn(pending, queuePage)

QueueOK ==
  /\ pending \subseteq Queue!Requests /\ queuePage \in Queue!Pages
  /\ queueRows = None \/ queueRows \subseteq Queue!Requests
  /\ queueLoading \in BOOLEAN /\ queueAsked \in Nat /\ trouble \in BOOLEAN
  /\ \A l \in queueLoads :
       /\ l \in [n : 1..queueAsked, page : Queue!Pages, silent : BOOLEAN,
                 items : {None} \cup SUBSET Queue!Requests]
  /\ {dialog, reviewing, mark} \subseteq Queue!Requests \cup {None}
  /\ answer \in {"none", "waiting", "ok", "refused"} /\ reload \in Nat
  /\ acked \subseteq Queue!Requests

\* A dialog lies over rows, and locks them while its review is on its way.
DialogOverRows ==
  /\ dialog # None => ~queueLoading /\ queueRows # None
  /\ answer # "none" => dialog = reviewing /\ reviewing # None /\ reload = 0
  /\ reload # 0 => reviewing # None

\* At most two questions are under way: one that hides the rows, and the silent one that
\* the last review waits for.
QuestionsApart ==
  /\ \A l \in queueLoads : IF l.silent THEN l.n = reload ELSE queueLoading
  /\ \A l, m \in queueLoads : l.silent = m.silent \/ l.n = m.n => l = m

\* Nothing that was confirmed is pending, on screen or on its way to it.
ConfirmedIsGone ==
  /\ answer = "ok" => reviewing \notin pending
  /\ acked \cap pending = {}
  /\ queueRows # None => acked \cap queueRows = {}
  /\ \A l \in queueLoads : l.items # None => acked \cap l.items = {}

\* As long as nothing goes wrong the rows are those of the page, but for the request that
\* was just reviewed, and what the automation waits for is under the dialog or confirmed.
NothingWrong ==
  ~trouble =>
    /\ \A l \in queueLoads : l.page = queuePage /\ l.items \in {None, OnPage}
    /\ ~queueLoading /\ queueRows # None =>
         queueRows \subseteq OnPage \cup {r \in {reviewing} : answer = "ok"}
    /\ dialog # None => dialog \in queueRows
    /\ answer # "refused"
    /\ mark # None => mark \in acked \/ (answer \in {"waiting", "ok"} /\ mark = dialog)
    /\ seenGone \subseteq acked

QueueInv ==
  QueueOK /\ DialogOverRows /\ QuestionsApart /\ ConfirmedIsGone /\ NothingWrong
-----------------------------------------------------------------------------
CreateOK ==
  /\ form \in 1..MaxForms /\ mounted \in BOOLEAN /\ submitting \in BOOLEAN
  /\ draft \in Drafts /\ posts \in Seq(Create!Calls)
  /\ created \in {0} \cup DOMAIN posts
  /\ attempted \in [draft : Drafts,
                    end : {"none", "local", "sent", "lost"} \cup Create!ServerSide]
  /\ \A k \in DOMAIN posts : posts[k].form <= form

\* The call a form waits for is its last one, and the one it submitted last.
WaitsForItsLast ==
  \A k \in DOMAIN posts : posts[k].form = form /\ posts[k].page = "waiting" =>
    /\ submitting /\ created = 0
    /\ attempted = [draft |-> posts[k].draft, end |-> "sent"]
    /\ \A j \in DOMAIN posts : posts[j].form = form => j <= k

\* What is confirmed was stored, and is the last call of the form.
ConfirmsItsLast ==
  created # 0 =>
    /\ posts[created].server = "stored" /\ posts[created].form = form
    /\ posts[created].draft = attempted.draft
    /\ \A k \in DOMAIN posts : posts[k].form = form => k <= created

\* Nobody is told before the server is done, and the form on screen confirms what it was
\* told is stored; a form goes on only after an answer, and stores again only after a
\* lost one.
ToldOnce ==
  /\ \A k \in DOMAIN posts : posts[k].page = "told" => posts[k].server # "thinking"
  /\ \A k \in DOMAIN posts :
       mounted /\ posts[k].form = form /\ posts[k].page = "told" /\ posts[k].server = "stored"
         => created = k
  /\ \A i, j \in DOMAIN posts : i < j /\ posts[i].form = posts[j].form =>
       /\ posts[i].page # "waiting"
       /\ posts[i].server = "stored" => posts[i].page = "lost"

CreateInv ==
  CreateOK /\ WaitsForItsLast /\ ConfirmsItsLast /\ ToldOnce /\ Create!ErrorsAreOfTheLastSubmit
-----------------------------------------------------------------------------
Reads == [what : {"load", "timeline"}, step : {"row", "events", "answer", "over"},
          got : [decided : BOOLEAN, events : 0..2]]

DetailOK ==
  /\ row \in {Detail!Undecided, Detail!Decided}
  /\ calls \in Seq(Reads)
  /\ detail \in [decided : BOOLEAN, events : 0..2]
  /\ {error, refreshing, timelineError, asked} \subseteq BOOLEAN

\* One call at a time: the last one; the first shows nothing before it ends, and every
\* other one is the refresh the page waits for.
OneCallAtATime ==
  \A k \in DOMAIN calls : calls[k].step # "over" =>
    /\ k = Len(calls)
    /\ IF calls[k].what = "load" THEN detail = Detail!Nothing ELSE refreshing

\* What a call has read is true, and no less than what is shown or was there when the
\* refresh was sent.
ReadsAreTrue ==
  \A k \in DOMAIN calls :
    /\ calls[k].step = "row" => ~calls[k].got.decided
    /\ calls[k].step \in {"events", "answer"} =>
         /\ calls[k].got.decided => row = Detail!Decided
         /\ asked => calls[k].got.decided
    /\ calls[k].step = "answer" =>
         /\ calls[k].got.events >= 1 /\ calls[k].got.events >= detail.events
         /\ calls[k].got.events <= row.events
         /\ calls[k].got.decided => calls[k].got.events = 2

\* What is shown is no more than there is, and after a refresh no less than it was sent for.
ShownIsTrue ==
  /\ detail.events <= row.events
  /\ detail.decided => detail.events = 2
  /\ detail.events = 0 => ~detail.decided
  /\ asked => row = Detail!Decided
  /\ asked /\ ~refreshing /\ ~timelineError => detail = Detail!Decided

DetailInv == DetailOK /\ OneCallAtATime /\ ReadsAreTrue /\ ShownIsTrue
-----------------------------------------------------------------------------
\* What a probe came back with has its reason in a state since the round began.
Reasoned(s, result) ==
  /\ result = Status!Up => "ok" \in seen[s]
  /\ result = Status!Out => \E c \in seen[s] : c # "ok"

StatusInv ==
  /\ Status!TypeOK
  /\ \A s \in Services : service[s] \in seen[s] /\ Reasoned(s, reply[s])
  /\ shownRound = round => \A s \in Services : Reasoned(s, probes[s])
  /\ loading <=> shownRound # round
  /\ test = "reading" => ~loading
-----------------------------------------------------------------------------
ListOK ==
  /\ {addr, params, loadedQuery} \subseteq List!Query
  /\ listRows \in List!Result \cup {None}
  /\ listAsked \in Nat /\ listLoading \in BOOLEAN
  /\ text \in Texts \cup {None}
  /\ listLoads \subseteq [n : 1..listAsked, query : List!Query]
  /\ landed \in [n : 0..listAsked, ok : BOOLEAN]

\* The mark comes and goes with the rows; only the newest question is for the query the
\* screen was rendered with; and once it is answered the screen shows what came of it.
ListInv ==
  /\ ListOK
  /\ loadedQuery # List!NoQuery => listRows # None /\ listRows.query = loadedQuery
  /\ \A l \in listLoads : l.n = listAsked => l.query = params
  /\ landed.n = listAsked =>
       /\ ~listLoading
       /\ landed.ok => listRows # None /\ listRows.query = params
       /\ ~landed.ok => listError
-----------------------------------------------------------------------------
\* The requests and pages of the queue, and None apart from them.
LEMMA QueueFacts ==
  /\ Queue!Requests = 1..NRequests /\ Queue!Pages = 1..NRequests
  /\ NRequests \in Nat \ {0} /\ PageSize \in Nat \ {0}
  /\ None \notin Queue!Requests /\ \A S \in SUBSET Queue!Requests : S # None
BY QueueSizes DEF Queue!Requests, Queue!Pages

\* What the API lists is the page of what is pending.
LEMMA PageIsPage == ASSUME NEW p \in Queue!Pages PROVE Queue!PageOf(p) = PageIn(pending, p)
BY DEF Queue!PageOf, PageIn, PlaceIn, Queue!Cardinality, Cardinality

\* The pending requests that come before one can be counted.
LEMMA PlacesAreNumbers ==
  ASSUME NEW waiting \in SUBSET Queue!Requests, NEW r \in Queue!Requests
  PROVE  IsFiniteSet({x \in waiting : x > r}) /\ PlaceIn(waiting, r) \in Nat
<1>1. IsFiniteSet(1..NRequests) BY FS_Interval, QueueFacts
<1>2. {x \in waiting : x > r} \subseteq 1..NRequests BY QueueFacts
<1>3. QED BY <1>1, <1>2, FS_Subset, FS_CardinalityType DEF PlaceIn

\* When a request of a page goes, the others of the page stay on it.
LEMMA PageShifts ==
  ASSUME NEW waiting \in SUBSET Queue!Requests, NEW p \in Queue!Pages,
         NEW r \in PageIn(waiting, p)
  PROVE  PageIn(waiting, p) \ {r} \subseteq PageIn(waiting \ {r}, p)
<1> DEFINE rest == waiting \ {r}
           first == (p - 1) * PageSize
           last == p * PageSize - 1
<1>1. first \in Int /\ last \in Int BY QueueFacts
<1>2. \A w \in SUBSET Queue!Requests : \A x \in w :
        x \in PageIn(w, p) <=> PlaceIn(w, x) \in first..last
  BY DEF PageIn
<1> HIDE DEF first, last
<1>3. r \in waiting /\ PlaceIn(waiting, r) \in first..last BY DEF PageIn, first, last
<1> SUFFICES ASSUME NEW x \in PageIn(waiting, p), x # r PROVE x \in PageIn(rest, p)
  OBVIOUS
<1>4. x \in waiting /\ x \in rest /\ PlaceIn(waiting, x) \in first..last BY DEF PageIn, first, last
<1>5. /\ x \in Nat /\ r \in Nat /\ PlaceIn(waiting, x) \in Nat /\ PlaceIn(waiting, r) \in Nat
  <2>1. x \in Queue!Requests /\ r \in Queue!Requests BY <1>3, <1>4
  <2>2. x \in Nat /\ r \in Nat BY <2>1, QueueFacts
  <2>3. QED BY <2>1, <2>2, PlacesAreNumbers
<1> DEFINE ahead == {y \in waiting : y > x}
<1>6. IsFiniteSet(ahead) /\ PlaceIn(waiting, x) = Cardinality(ahead)
  BY <1>4, PlacesAreNumbers DEF PlaceIn
<1>7. CASE r > x
  <2>1. r \in ahead BY <1>3, <1>7
  <2>2. {y \in rest : y > x} = ahead \ {r} OBVIOUS
  <2>3. IsFiniteSet(ahead \ {r}) /\ Cardinality(ahead \ {r}) = Cardinality(ahead) - 1
    BY <1>6, <2>1, FS_RemoveElement
  <2>4. PlaceIn(rest, x) = PlaceIn(waiting, x) - 1 BY <1>6, <2>2, <2>3 DEF PlaceIn
  <2>5. PlaceIn(waiting, r) <= PlaceIn(rest, x)
    <3>1. {y \in waiting : y > r} \subseteq ahead \ {r}
      <4>1. \A y \in waiting : y \in Nat BY QueueFacts
      <4>2. QED BY <1>5, <1>7, <4>1
    <3>2. QED BY <2>2, <2>3, <3>1, FS_Subset DEF PlaceIn
  <2>6. PlaceIn(rest, x) \in first..last BY <1>1, <1>3, <1>4, <1>5, <2>4, <2>5
  <2>7. QED BY <1>2, <1>4, <2>6
<1>8. CASE ~(r > x)
  <2>1. {y \in rest : y > x} = ahead BY <1>8
  <2>2. PlaceIn(rest, x) = PlaceIn(waiting, x) BY <1>6, <2>1 DEF PlaceIn
  <2>3. QED BY <1>2, <1>4, <2>2
<1>9. QED BY <1>7, <1>8

\* What is on a page is pending.
LEMMA PagesArePending == \A w, p : PageIn(w, p) \subseteq w
BY DEF PageIn

\* While a review is on its way no question is.
LEMMA ReviewIsAlone ==
  ASSUME QueueInv, answer # "none"
  PROVE  /\ queueLoads = {} /\ ~queueLoading /\ dialog = reviewing /\ dialog # None
         /\ reviewing \in Queue!Requests /\ queueRows \subseteq Queue!Requests
         /\ queueRows # None /\ reload = 0
<1>0. QueueOK /\ DialogOverRows /\ QuestionsApart BY DEF QueueInv
<1>1. dialog = reviewing /\ reviewing # None /\ reload = 0 /\ ~queueLoading /\ queueRows # None
  BY <1>0 DEF DialogOverRows
<1>2. \A l \in queueLoads : l.n # 0 BY <1>0 DEF QueueOK
<1>3. queueLoads = {} BY <1>0, <1>1, <1>2 DEF QuestionsApart
<1>4. reviewing \in Queue!Requests /\ queueRows \subseteq Queue!Requests
  BY <1>0, <1>1 DEF QueueOK
<1>5. QED BY <1>1, <1>3, <1>4

\* A question that is asked is told apart from those under way by its number.
LEMMA QuestionIsNew ==
  ASSUME QueueOK, NEW p \in Queue!Pages, NEW silent \in BOOLEAN, Queue!Load(p, silent)
  PROVE  \E q : /\ q \in [n : 1..queueAsked', page : Queue!Pages, silent : BOOLEAN,
                         items : {None} \cup SUBSET Queue!Requests]
                /\ q.n = queueAsked + 1 /\ q.page = p /\ (q.silent <=> silent)
                /\ q.items = None /\ queueLoads' = queueLoads \cup {q}
                /\ queueAsked' = queueAsked + 1 /\ queueAsked' \in Nat
                /\ (queueLoading' <=> queueLoading \/ ~silent) /\ queueLoading' \in BOOLEAN
                /\ \A l \in queueLoads :
                     /\ l.n # q.n
                     /\ l \in [n : 1..queueAsked', page : Queue!Pages, silent : BOOLEAN,
                               items : {None} \cup SUBSET Queue!Requests]
<1> DEFINE q == [n |-> queueAsked + 1, page |-> p, silent |-> silent, items |-> None]
<1>1. /\ queueAsked' = queueAsked + 1 /\ queueLoads' = queueLoads \cup {q}
      /\ queueLoading' = (queueLoading \/ ~silent)
  BY DEF Queue!Load
<1>2. queueAsked \in Nat BY DEF QueueOK
<1>3. queueAsked' \in Nat /\ queueAsked + 1 \in 1..queueAsked' BY <1>1, <1>2
<1>4. q \in [n : 1..queueAsked', page : Queue!Pages, silent : BOOLEAN,
             items : {None} \cup SUBSET Queue!Requests]
  BY <1>3
<1>5. q.n = queueAsked + 1 /\ q.page = p /\ (q.silent <=> silent) /\ q.items = None OBVIOUS
<1> HIDE DEF q
<1>6. ASSUME NEW l \in queueLoads
      PROVE  /\ l.n # q.n
             /\ l \in [n : 1..queueAsked', page : Queue!Pages, silent : BOOLEAN,
                       items : {None} \cup SUBSET Queue!Requests]
  <2>1. l \in [n : 1..queueAsked, page : Queue!Pages, silent : BOOLEAN,
               items : {None} \cup SUBSET Queue!Requests]
    BY DEF QueueOK
  <2>2. QED BY <1>1, <1>2, <1>5, <2>1
<1>7. (queueLoading' <=> queueLoading \/ ~silent) /\ queueLoading' \in BOOLEAN
  BY <1>1, Zenon
<1>8. QED BY <1>1, <1>3, <1>4, <1>5, <1>6, <1>7

\* The queue asks for its first page.
LEMMA QueueInit == Queue!Init => QueueInv
<1> SUFFICES ASSUME Queue!Init PROVE QueueInv OBVIOUS
<1> DEFINE q == [n |-> 1, page |-> 1, silent |-> FALSE, items |-> None]
<1>1. /\ pending = Queue!Requests /\ queuePage = 1 /\ queueRows = None /\ queueLoading = TRUE
      /\ queueLoads = {q} /\ queueAsked = 1
      /\ dialog = None /\ reviewing = None /\ answer = "none" /\ reload = 0
      /\ acked = {} /\ trouble = FALSE /\ mark = None /\ seenGone = {}
  BY DEF Queue!Init
<1>2. 1 \in Queue!Pages BY QueueFacts
<1>3. /\ q \in [n : 1..1, page : Queue!Pages, silent : BOOLEAN,
                items : {None} \cup SUBSET Queue!Requests]
      /\ q.page = 1 /\ ~q.silent /\ q.items = None
  BY <1>2
<1> HIDE DEF q
<1>4. QueueOK BY <1>1, <1>2, <1>3 DEF QueueOK
<1>5. DialogOverRows BY <1>1 DEF DialogOverRows
<1>6. QuestionsApart BY <1>1, <1>3 DEF QuestionsApart
<1>7. ConfirmedIsGone BY <1>1, <1>3 DEF ConfirmedIsGone
<1>8. NothingWrong BY <1>1, <1>3 DEF NothingWrong
<1>9. QED BY <1>4, <1>5, <1>6, <1>7, <1>8 DEF QueueInv

\* Another page is asked for over rows and no dialog.
LEMMA ChangePageKeepsInv ==
  ASSUME QueueInv, NEW p \in Queue!Pages, Queue!ChangePage(p) PROVE QueueInv'
<1>0. QueueOK /\ DialogOverRows /\ QuestionsApart /\ ConfirmedIsGone /\ NothingWrong
  BY DEF QueueInv
<1>1. /\ ~queueLoading /\ queueRows # None /\ dialog = None /\ queuePage' = p
      /\ Queue!Load(p, FALSE) /\ trouble' = (trouble \/ queueLoads # {})
      /\ UNCHANGED <<pending, queueRows, dialog, reviewing, answer, reload, acked, mark, seenGone>>
  BY DEF Queue!ChangePage, Queue!confirming
<1>2. PICK q : /\ q \in [n : 1..queueAsked', page : Queue!Pages, silent : BOOLEAN,
                         items : {None} \cup SUBSET Queue!Requests]
               /\ q.n = queueAsked + 1 /\ q.page = p /\ ~q.silent
               /\ q.items = None /\ queueLoads' = queueLoads \cup {q}
               /\ queueAsked' \in Nat /\ queueLoading' /\ queueLoading' \in BOOLEAN
               /\ \A l \in queueLoads :
                    /\ l.n # q.n
                    /\ l \in [n : 1..queueAsked', page : Queue!Pages, silent : BOOLEAN,
                              items : {None} \cup SUBSET Queue!Requests]
  <2>1. \E q : /\ q \in [n : 1..queueAsked', page : Queue!Pages, silent : BOOLEAN,
                         items : {None} \cup SUBSET Queue!Requests]
                /\ q.n = queueAsked + 1 /\ q.page = p /\ (q.silent <=> FALSE)
                /\ q.items = None /\ queueLoads' = queueLoads \cup {q}
                /\ queueAsked' = queueAsked + 1 /\ queueAsked' \in Nat
                /\ (queueLoading' <=> queueLoading \/ ~FALSE)
                /\ queueLoading' \in BOOLEAN
                /\ \A l \in queueLoads :
                     /\ l.n # q.n
                     /\ l \in [n : 1..queueAsked', page : Queue!Pages, silent : BOOLEAN,
                               items : {None} \cup SUBSET Queue!Requests]
    BY <1>0, <1>1, QuestionIsNew, Zenon
  <2>2. QED BY <2>1
<1>3. answer = "none" BY <1>0, <1>1 DEF DialogOverRows
<1>4. \A l \in queueLoads : l.silent BY <1>0, <1>1 DEF QuestionsApart
<1>5. QueueOK'
  <2>1. trouble' \in BOOLEAN BY <1>1, Zenon
  <2>2. QED BY <1>0, <1>1, <1>2, <2>1 DEF QueueOK, Queue!Requests, Queue!Pages
<1>6. DialogOverRows' BY <1>0, <1>1, <1>3 DEF DialogOverRows
<1>7. QuestionsApart' BY <1>0, <1>1, <1>2, <1>4 DEF QuestionsApart
<1>8. ConfirmedIsGone' BY <1>0, <1>1, <1>2 DEF ConfirmedIsGone
<1>9. NothingWrong'
  <2> SUFFICES ASSUME ~trouble'
               PROVE  /\ \A l \in queueLoads' : l.page = queuePage' /\ l.items = None
                      /\ queueLoading' /\ dialog' = None /\ answer' # "refused"
                      /\ mark' # None => mark' \in acked'
                      /\ seenGone' \subseteq acked'
    BY DEF NothingWrong
  <2>1. ~trouble /\ queueLoads = {} BY <1>1
  <2>2. QED BY <1>0, <1>1, <1>2, <1>3, <2>1 DEF NothingWrong
<1>10. QED BY <1>5, <1>6, <1>7, <1>8, <1>9 DEF QueueInv

\* The API lists what is pending, which nothing confirmed is.
LEMMA ListingKeepsInv ==
  ASSUME QueueInv, NEW l \in queueLoads, Queue!List(l) PROVE QueueInv'
<1>0. QueueOK /\ DialogOverRows /\ QuestionsApart /\ ConfirmedIsGone /\ NothingWrong
  BY DEF QueueInv
<1>1. l \in [n : 1..queueAsked, page : Queue!Pages, silent : BOOLEAN,
            items : {None} \cup SUBSET Queue!Requests]
  BY <1>0 DEF QueueOK
<1> DEFINE m == [l EXCEPT !.items = PageIn(pending, l.page)]
<1>2. /\ queueLoads' = (queueLoads \ {l}) \cup {m}
      /\ UNCHANGED <<pending, queuePage, queueRows, queueLoading, queueAsked, dialog, reviewing,
                     answer, reload, acked, trouble, mark, seenGone>>
  <2>1. Queue!PageOf(l.page) = PageIn(pending, l.page) BY <1>1, PageIsPage
  <2>2. QED BY <2>1 DEF Queue!List, Queue!confirming, Queue!history
<1>3. PageIn(pending, l.page) \subseteq pending /\ PageIn(pending, l.page) \in SUBSET Queue!Requests
  BY <1>0, PagesArePending DEF QueueOK
<1>4. /\ m \in [n : 1..queueAsked, page : Queue!Pages, silent : BOOLEAN,
                items : {None} \cup SUBSET Queue!Requests]
      /\ m.n = l.n /\ (m.silent <=> l.silent) /\ m.page = l.page
      /\ m.items = PageIn(pending, l.page)
  BY <1>1, <1>3
<1> HIDE DEF m
<1>5. QueueOK' BY <1>0, <1>2, <1>4 DEF QueueOK, Queue!Requests, Queue!Pages
<1>6. DialogOverRows' BY <1>0, <1>2 DEF DialogOverRows
<1>7. QuestionsApart'
  <2>1. \A k \in queueLoads' : \E j \in queueLoads :
          /\ k.n = j.n /\ (k.silent <=> j.silent)
          /\ k.silent \in BOOLEAN /\ j.silent \in BOOLEAN
          /\ k = (IF j = l THEN m ELSE j)
    BY <1>0, <1>1, <1>2, <1>4 DEF QueueOK
  <2>2. \A k \in queueLoads' : IF k.silent THEN k.n = reload' ELSE queueLoading'
    BY <1>0, <1>2, <2>1 DEF QuestionsApart
  <2>3. ASSUME NEW k \in queueLoads', NEW i \in queueLoads', k.silent = i.silent \/ k.n = i.n
        PROVE  k = i
    <3>1. PICK a \in queueLoads : /\ k.n = a.n /\ (k.silent <=> a.silent)
                                  /\ k.silent \in BOOLEAN /\ a.silent \in BOOLEAN
                                  /\ k = (IF a = l THEN m ELSE a)
      BY <2>1
    <3>2. PICK b \in queueLoads : /\ i.n = b.n /\ (i.silent <=> b.silent)
                                  /\ i.silent \in BOOLEAN /\ b.silent \in BOOLEAN
                                  /\ i = (IF b = l THEN m ELSE b)
      BY <2>1
    <3>3. a.silent = b.silent \/ a.n = b.n BY <2>3, <3>1, <3>2
    <3>4. a = b BY <1>0, <3>3 DEF QuestionsApart
    <3>5. QED BY <3>1, <3>2, <3>4
  <2>4. QED BY <2>2, <2>3 DEF QuestionsApart
<1>8. ConfirmedIsGone' BY <1>0, <1>2, <1>3, <1>4 DEF ConfirmedIsGone
<1>9. NothingWrong'
  <2>1. OnPage' = OnPage BY <1>2 DEF OnPage, PageIn, PlaceIn
  <2>2. ~trouble => m.page = queuePage /\ m.items = OnPage
    BY <1>0, <1>4 DEF NothingWrong, OnPage
  <2>3. QED BY <1>0, <1>2, <2>1, <2>2 DEF NothingWrong
<1>10. QED BY <1>5, <1>6, <1>7, <1>8, <1>9 DEF QueueInv

\* An answer is shown or a message is, and the wait of the review before it is over.
LEMMA SettleLoadKeepsInv ==
  ASSUME QueueInv, NEW l \in queueLoads, Queue!Settle(l) PROVE QueueInv'
<1>0. QueueOK /\ DialogOverRows /\ QuestionsApart /\ ConfirmedIsGone /\ NothingWrong
  BY DEF QueueInv
<1>1. /\ \/ l.items # None /\ queueRows' = l.items /\ trouble' = trouble
         \/ trouble' = TRUE /\ queueRows' = queueRows
      /\ queueLoading' = (queueLoading /\ l.silent) /\ queueLoads' = queueLoads \ {l}
      /\ IF l.n = reload THEN reload' = 0 /\ reviewing' = None
                         ELSE reload' = reload /\ reviewing' = reviewing
      /\ UNCHANGED <<pending, queuePage, queueAsked, dialog, answer, acked, mark, seenGone>>
  BY DEF Queue!Settle, Queue!Continue
<1>2. l \in [n : 1..queueAsked, page : Queue!Pages, silent : BOOLEAN,
            items : {None} \cup SUBSET Queue!Requests]
  BY <1>0 DEF QueueOK
<1>3. answer = "none" BY ReviewIsAlone
<1>4. queueLoading' \in BOOLEAN /\ (queueLoading' => queueLoading) /\ trouble' \in BOOLEAN
  BY <1>0, <1>1 DEF QueueOK
<1>5. QueueOK'
  <2>1. queueRows' = None \/ queueRows' \subseteq Queue!Requests
    BY <1>0, <1>1, <1>2 DEF QueueOK
  <2>2. reviewing' \in Queue!Requests \cup {None} /\ reload' \in Nat BY <1>0, <1>1 DEF QueueOK
  <2>3. QED BY <1>0, <1>1, <1>4, <2>1, <2>2 DEF QueueOK, Queue!Requests, Queue!Pages
<1>6. DialogOverRows' BY <1>0, <1>1, <1>3, <1>4 DEF DialogOverRows
<1>7. QuestionsApart'
  <2>1. \A k, m \in queueLoads' : k.silent = m.silent \/ k.n = m.n => k = m
    BY <1>0, <1>1 DEF QuestionsApart
  <2>2. ASSUME NEW m \in queueLoads' PROVE IF m.silent THEN m.n = reload' ELSE queueLoading'
    <3>1. m \in queueLoads /\ m # l BY <1>1
    <3>2. m.silent \in BOOLEAN /\ l.silent \in BOOLEAN BY <1>0, <1>2, <3>1 DEF QueueOK
    <3>3. m.n # l.n /\ (m.silent <=> ~l.silent) BY <1>0, <3>1, <3>2 DEF QuestionsApart
    <3>4. CASE m.silent
      <4>1. m.n = reload BY <1>0, <3>1, <3>4 DEF QuestionsApart
      <4>2. QED BY <1>1, <3>3, <3>4, <4>1
    <3>5. CASE ~m.silent
      <4>1. queueLoading BY <1>0, <3>1, <3>5 DEF QuestionsApart
      <4>2. QED BY <1>1, <3>3, <3>5, <4>1
    <3>6. QED BY <3>2, <3>4, <3>5
  <2>3. QED BY <2>1, <2>2 DEF QuestionsApart
<1>8. ConfirmedIsGone' BY <1>0, <1>1, <1>3 DEF ConfirmedIsGone
<1>9. NothingWrong'
  <2> SUFFICES ASSUME ~trouble'
               PROVE  /\ \A m \in queueLoads' : m.page = queuePage /\ m.items \in {None, OnPage}
                      /\ queueRows' \subseteq OnPage
                      /\ dialog # None => dialog \in queueRows'
                      /\ mark # None => mark \in acked
                      /\ seenGone \subseteq acked
    <3>1. OnPage' = OnPage BY <1>1 DEF OnPage, PageIn, PlaceIn
    <3>2. QED BY <1>1, <1>3, <3>1 DEF NothingWrong
  <2>1. ~trouble /\ l.items # None /\ queueRows' = l.items BY <1>1
  <2>2. queueRows' = OnPage BY <1>0, <2>1 DEF NothingWrong
  <2>3. dialog # None => dialog \in OnPage
    BY <1>0, <1>3, <2>1 DEF NothingWrong, DialogOverRows
  <2>4. QED BY <1>0, <1>1, <1>3, <2>1, <2>2, <2>3 DEF NothingWrong
<1>10. QED BY <1>5, <1>6, <1>7, <1>8, <1>9 DEF QueueInv

\* The dialog opens, closes and confirms while no review is under way.
LEMMA DialogKeepsInv ==
  ASSUME QueueInv,
         (\E r \in Queue!Requests : Queue!OpenDialog(r)) \/ Queue!Cancel \/ Queue!Confirm
  PROVE  QueueInv'
<1>0. QueueOK /\ DialogOverRows /\ QuestionsApart /\ ConfirmedIsGone /\ NothingWrong
  BY DEF QueueInv
<1>1. /\ UNCHANGED <<pending, queuePage, queueRows, queueLoading, queueLoads, queueAsked, reload,
                     acked, trouble, seenGone>>
      /\ answer = "none"
      /\ \/ \E r \in Queue!Requests :
              /\ r \in Queue!Rendered /\ dialog' = r
              /\ UNCHANGED <<reviewing, answer, mark>>
         \/ dialog' = None /\ UNCHANGED <<reviewing, answer, mark>>
         \/ /\ dialog # None /\ reviewing = None /\ reviewing' = dialog /\ answer' = "waiting"
            /\ mark' = dialog /\ UNCHANGED dialog
  <2>1. CASE \E r \in Queue!Requests : Queue!OpenDialog(r)
    BY <1>0, <2>1 DEF Queue!OpenDialog, Queue!screen, Queue!history, DialogOverRows
  <2>2. CASE Queue!Cancel
    BY <1>0, <2>2 DEF Queue!Cancel, Queue!screen, Queue!history, DialogOverRows
  <2>3. CASE Queue!Confirm BY <1>0, <2>3 DEF Queue!Confirm, DialogOverRows
  <2>4. QED BY <2>1, <2>2, <2>3
<1>2. OnPage' = OnPage BY <1>1 DEF OnPage, PageIn, PlaceIn
<1>3. QuestionsApart' BY <1>0, <1>1 DEF QuestionsApart
<1>4. ASSUME NEW r \in Queue!Requests, r \in Queue!Rendered, dialog' = r,
             UNCHANGED <<reviewing, answer, mark>>
      PROVE  QueueInv'
  <2>1. ~queueLoading /\ queueRows # None /\ r \in queueRows BY <1>4 DEF Queue!Rendered
  <2>2. QueueOK' BY <1>0, <1>1, <1>4 DEF QueueOK, Queue!Requests, Queue!Pages
  <2>3. DialogOverRows' BY <1>0, <1>1, <1>4, <2>1 DEF DialogOverRows
  <2>4. ConfirmedIsGone' BY <1>0, <1>1, <1>4 DEF ConfirmedIsGone
  <2>5. NothingWrong' BY <1>0, <1>1, <1>2, <1>4, <2>1 DEF NothingWrong
  <2>6. QED BY <1>3, <2>2, <2>3, <2>4, <2>5 DEF QueueInv
<1>5. CASE dialog' = None /\ UNCHANGED <<reviewing, answer, mark>>
  <2>1. QueueOK' BY <1>0, <1>1, <1>5 DEF QueueOK, Queue!Requests, Queue!Pages
  <2>2. DialogOverRows' BY <1>0, <1>1, <1>5 DEF DialogOverRows
  <2>3. ConfirmedIsGone' BY <1>0, <1>1, <1>5 DEF ConfirmedIsGone
  <2>4. NothingWrong' BY <1>0, <1>1, <1>2, <1>5 DEF NothingWrong
  <2>5. QED BY <1>3, <2>1, <2>2, <2>3, <2>4 DEF QueueInv
<1>6. CASE /\ dialog # None /\ reviewing = None /\ reviewing' = dialog /\ answer' = "waiting"
           /\ mark' = dialog /\ UNCHANGED dialog
  <2>1. reload = 0 BY <1>0, <1>6 DEF DialogOverRows
  <2>2. QueueOK' BY <1>0, <1>1, <1>6 DEF QueueOK, Queue!Requests, Queue!Pages
  <2>3. DialogOverRows' BY <1>0, <1>1, <1>6, <2>1 DEF DialogOverRows
  <2>4. ConfirmedIsGone' BY <1>0, <1>1, <1>6 DEF ConfirmedIsGone
  <2>5. NothingWrong' BY <1>0, <1>1, <1>2, <1>6 DEF NothingWrong
  <2>6. QED BY <1>3, <2>2, <2>3, <2>4, <2>5 DEF QueueInv
<1>7. QED BY <1>1, <1>4, <1>5, <1>6

\* The API reviews a pending request, and the others of its page stay on it.
LEMMA ReviewKeepsInv == ASSUME QueueInv, Queue!Review PROVE QueueInv'
<1>0. QueueOK /\ DialogOverRows /\ QuestionsApart /\ ConfirmedIsGone /\ NothingWrong
  BY DEF QueueInv
<1>1. /\ answer = "waiting"
      /\ IF reviewing \in pending
           THEN pending' = pending \ {reviewing} /\ answer' = "ok"
           ELSE answer' = "refused" /\ pending' = pending
      /\ UNCHANGED <<queuePage, queueRows, queueLoading, queueLoads, queueAsked, dialog, reviewing,
                     reload, acked, trouble, mark, seenGone>>
  BY DEF Queue!Review, Queue!screen, Queue!history
<1>2. /\ queueLoads = {} /\ ~queueLoading /\ dialog = reviewing /\ dialog # None
      /\ reviewing \in Queue!Requests /\ queueRows # None
  BY <1>1, ReviewIsAlone
<1>3. pending' \subseteq pending BY <1>1
<1>4. QueueOK'
  <2>1. pending' \subseteq Queue!Requests BY <1>0, <1>3 DEF QueueOK
  <2>2. QED BY <1>0, <1>1, <2>1 DEF QueueOK, Queue!Requests, Queue!Pages
<1>5. DialogOverRows' BY <1>0, <1>1 DEF DialogOverRows
<1>6. QuestionsApart' BY <1>0, <1>1 DEF QuestionsApart
<1>7. ConfirmedIsGone' BY <1>0, <1>1, <1>3 DEF ConfirmedIsGone
<1>8. NothingWrong'
  <2> SUFFICES ASSUME ~trouble PROVE NothingWrong' BY <1>1 DEF NothingWrong
  <2>1. queueRows \subseteq OnPage /\ reviewing \in OnPage
    BY <1>0, <1>1, <1>2 DEF NothingWrong
  <2>2. reviewing \in pending BY <2>1, PagesArePending DEF OnPage
  <2>3. OnPage \ {reviewing} \subseteq OnPage'
    <3>1. PageIn(pending, queuePage) \ {reviewing}
            \subseteq PageIn(pending \ {reviewing}, queuePage)
      <4>1. pending \in SUBSET Queue!Requests /\ queuePage \in Queue!Pages BY <1>0 DEF QueueOK
      <4>2. reviewing \in PageIn(pending, queuePage) BY <2>1 DEF OnPage
      <4>3. QED BY <4>1, <4>2, PageShifts
    <3>2. OnPage' = PageIn(pending \ {reviewing}, queuePage)
      BY <1>1, <2>2 DEF OnPage, PageIn, PlaceIn
    <3>3. QED BY <3>1, <3>2 DEF OnPage
  <2>4. queueRows' \subseteq OnPage' \cup {r \in {reviewing'} : answer' = "ok"}
    BY <1>1, <2>1, <2>2, <2>3
  <2>5. QED BY <1>0, <1>1, <1>2, <2>1, <2>2, <2>4 DEF NothingWrong
<1>9. QED BY <1>4, <1>5, <1>6, <1>7, <1>8 DEF QueueInv

\* Somebody else reviews, or the answer is lost: from here on things may go wrong.
LEMMA TroubleKeepsInv ==
  ASSUME QueueInv,
         Queue!LoseAnswer \/ \E r \in Queue!Requests : Queue!OtherReviews(r)
  PROVE  QueueInv'
<1>0. QueueOK /\ DialogOverRows /\ QuestionsApart /\ ConfirmedIsGone
  BY DEF QueueInv
<1>1. /\ UNCHANGED <<queuePage, queueRows, queueLoading, queueLoads, queueAsked, dialog, reviewing,
                     reload, acked, mark, seenGone>>
      /\ trouble' = TRUE /\ pending' \subseteq pending
      /\ answer' = answer \/ (answer # "none" /\ answer' = "refused")
  <2>1. CASE Queue!LoseAnswer BY <2>1 DEF Queue!LoseAnswer, Queue!screen
  <2>2. CASE \E r \in Queue!Requests : Queue!OtherReviews(r)
    BY <2>2 DEF Queue!OtherReviews, Queue!screen, Queue!confirming
  <2>3. QED BY <2>1, <2>2
<1>2. QueueOK'
  <2>1. pending' \subseteq Queue!Requests BY <1>0, <1>1 DEF QueueOK
  <2>2. answer' \in {"none", "waiting", "ok", "refused"} /\ trouble' \in BOOLEAN
    BY <1>0, <1>1 DEF QueueOK
  <2>3. QED BY <1>0, <1>1, <2>1, <2>2 DEF QueueOK, Queue!Requests, Queue!Pages
<1>3. DialogOverRows' BY <1>0, <1>1 DEF DialogOverRows
<1>4. QuestionsApart' BY <1>0, <1>1 DEF QuestionsApart
<1>5. ConfirmedIsGone' BY <1>0, <1>1 DEF ConfirmedIsGone
<1>6. NothingWrong' BY <1>1 DEF NothingWrong
<1>7. QED BY <1>2, <1>3, <1>4, <1>5, <1>6 DEF QueueInv

\* The review is confirmed: its row goes, and nothing that was listed before is on its way.
LEMMA ReviewedKeepsInv == ASSUME QueueInv, Queue!Reviewed PROVE QueueInv'
<1>0. QueueOK /\ DialogOverRows /\ QuestionsApart /\ ConfirmedIsGone /\ NothingWrong
  BY DEF QueueInv
<1>1. /\ answer = "ok" /\ answer' = "none" /\ dialog' = None /\ queueRows' = queueRows \ {reviewing}
      /\ Queue!Load(queuePage, TRUE) /\ reload' = queueAsked + 1
      /\ acked' = acked \cup {reviewing}
      /\ UNCHANGED <<pending, queuePage, reviewing, trouble, mark, seenGone>>
  BY DEF Queue!Reviewed
<1>2. /\ queueLoads = {} /\ ~queueLoading /\ dialog = reviewing /\ dialog # None
      /\ reviewing \in Queue!Requests /\ queueRows \subseteq Queue!Requests
      /\ queueRows # None
  BY <1>1, ReviewIsAlone
<1>3. queuePage \in Queue!Pages /\ queueAsked \in Nat BY <1>0 DEF QueueOK
<1>4. PICK q : /\ q \in [n : 1..queueAsked', page : Queue!Pages, silent : BOOLEAN,
                         items : {None} \cup SUBSET Queue!Requests]
               /\ q.n = queueAsked + 1 /\ q.page = queuePage /\ q.silent /\ q.items = None
               /\ queueLoads' = queueLoads \cup {q} /\ queueAsked' \in Nat
               /\ (queueLoading' <=> queueLoading) /\ queueLoading' \in BOOLEAN
  BY <1>0, <1>1, <1>3, QuestionIsNew
<1>5. QueueOK'
  <2>1. queueRows' \subseteq Queue!Requests /\ acked' \subseteq Queue!Requests /\ reload' \in Nat
    BY <1>0, <1>1, <1>2, <1>3 DEF QueueOK
  <2>2. QED BY <1>0, <1>1, <1>2, <1>4, <2>1 DEF QueueOK, Queue!Requests, Queue!Pages
<1>6. DialogOverRows' BY <1>1, <1>2 DEF DialogOverRows
<1>7. QuestionsApart' BY <1>1, <1>2, <1>4 DEF QuestionsApart
<1>8. ConfirmedIsGone'
  <2>1. reviewing \notin pending /\ acked \cap queueRows = {} /\ acked \cap pending = {}
    BY <1>0, <1>1, <1>2 DEF ConfirmedIsGone
  <2>2. QED BY <1>1, <1>2, <1>4, <2>1 DEF ConfirmedIsGone
<1>9. NothingWrong'
  <2> SUFFICES ASSUME ~trouble PROVE NothingWrong' BY <1>1 DEF NothingWrong
  <2>1. OnPage' = OnPage BY <1>1 DEF OnPage, PageIn, PlaceIn
  <2>2. queueRows' \subseteq OnPage BY <1>0, <1>1, <1>2 DEF NothingWrong
  <2>3. mark # None => mark \in acked' BY <1>0, <1>1, <1>2 DEF NothingWrong
  <2>4. seenGone \subseteq acked' BY <1>0, <1>1 DEF NothingWrong
  <2>5. QED BY <1>1, <1>2, <1>4, <2>1, <2>2, <2>3, <2>4 DEF NothingWrong
<1>10. QED BY <1>5, <1>6, <1>7, <1>8, <1>9 DEF QueueInv

\* The review is refused: the dialog closes over a load that hides the rows.
LEMMA RefusedKeepsInv == ASSUME QueueInv, Queue!Refused PROVE QueueInv'
<1>0. QueueOK /\ DialogOverRows /\ QuestionsApart /\ ConfirmedIsGone /\ NothingWrong
  BY DEF QueueInv
<1>1. /\ answer = "refused" /\ answer' = "none" /\ dialog' = None
      /\ Queue!Load(queuePage, FALSE) /\ reload' = queueAsked + 1
      /\ UNCHANGED <<pending, queuePage, queueRows, reviewing, acked, trouble, mark, seenGone>>
  BY DEF Queue!Refused, Queue!history
<1>2. /\ queueLoads = {} /\ dialog = reviewing /\ dialog # None
      /\ reviewing \in Queue!Requests
  BY <1>1, ReviewIsAlone
<1>3. queuePage \in Queue!Pages /\ queueAsked \in Nat BY <1>0 DEF QueueOK
<1>4. PICK q : /\ q \in [n : 1..queueAsked', page : Queue!Pages, silent : BOOLEAN,
                         items : {None} \cup SUBSET Queue!Requests]
               /\ q.n = queueAsked + 1 /\ ~q.silent /\ q.items = None
               /\ queueLoads' = queueLoads \cup {q} /\ queueAsked' \in Nat
               /\ queueLoading' /\ queueLoading' \in BOOLEAN
  BY <1>0, <1>1, <1>3, QuestionIsNew
<1>5. QueueOK'
  <2>1. reload' \in Nat BY <1>1, <1>3
  <2>2. QED BY <1>0, <1>1, <1>2, <1>4, <2>1 DEF QueueOK, Queue!Requests, Queue!Pages
<1>6. DialogOverRows' BY <1>1, <1>2 DEF DialogOverRows
<1>7. QuestionsApart' BY <1>1, <1>2, <1>4 DEF QuestionsApart
<1>8. ConfirmedIsGone' BY <1>0, <1>1, <1>2, <1>4 DEF ConfirmedIsGone
<1>9. trouble BY <1>0, <1>1 DEF NothingWrong
<1>10. NothingWrong' BY <1>1, <1>9 DEF NothingWrong
<1>11. QED BY <1>5, <1>6, <1>7, <1>8, <1>10 DEF QueueInv

\* The row that the automation waits for is there until its review is confirmed.
LEMMA SeeRowGoneKeepsInv == ASSUME QueueInv, Queue!SeeRowGone PROVE QueueInv'
<1>0. QueueOK /\ DialogOverRows /\ QuestionsApart /\ ConfirmedIsGone /\ NothingWrong
  BY DEF QueueInv
<1>1. /\ mark # None /\ mark \notin Queue!Rendered
      /\ seenGone' = seenGone \cup {mark} /\ mark' = None
      /\ UNCHANGED <<pending, queuePage, queueRows, queueLoading, queueLoads, queueAsked, dialog,
                     reviewing, answer, reload, acked, trouble>>
  BY DEF Queue!SeeRowGone, Queue!screen, Queue!confirming
<1>2. QueueOK' BY <1>0, <1>1 DEF QueueOK, Queue!Requests, Queue!Pages
<1>3. DialogOverRows' BY <1>0, <1>1 DEF DialogOverRows
<1>4. QuestionsApart' BY <1>0, <1>1 DEF QuestionsApart
<1>5. ConfirmedIsGone' BY <1>0, <1>1 DEF ConfirmedIsGone
<1>6. NothingWrong'
  <2> SUFFICES ASSUME ~trouble PROVE NothingWrong' BY <1>1 DEF NothingWrong
  <2>1. OnPage' = OnPage BY <1>1 DEF OnPage, PageIn, PlaceIn
  <2>2. ~(answer \in {"waiting", "ok"} /\ mark = dialog)
    BY <1>0, <1>1, ReviewIsAlone DEF NothingWrong, Queue!Rendered
  <2>3. mark \in acked BY <1>0, <1>1, <2>2 DEF NothingWrong
  <2>4. QED BY <1>0, <1>1, <2>1, <2>3 DEF NothingWrong
<1>7. QED BY <1>2, <1>3, <1>4, <1>5, <1>6 DEF QueueInv

\* Every step of the queue keeps its invariant.
LEMMA QueueStep == QueueInv /\ [Queue!Next]_(Queue!vars) => QueueInv'
<1> SUFFICES ASSUME QueueInv, [Queue!Next]_(Queue!vars) PROVE QueueInv' OBVIOUS
<1>1. CASE UNCHANGED Queue!vars
  BY <1>1 DEF Queue!vars, Queue!screen, Queue!confirming, Queue!history, QueueInv, QueueOK,
    DialogOverRows, QuestionsApart, ConfirmedIsGone, NothingWrong, OnPage, PageIn, PlaceIn,
    Queue!Requests, Queue!Pages
<1>2. CASE Queue!Arrive
  BY <1>2, ListingKeepsInv, SettleLoadKeepsInv, ReviewKeepsInv, TroubleKeepsInv,
     ReviewedKeepsInv, RefusedKeepsInv
  DEF Queue!Arrive
<1>3. QED
  BY <1>1, <1>2, ChangePageKeepsInv, DialogKeepsInv, TroubleKeepsInv, SeeRowGoneKeepsInv
  DEF Queue!Next
-----------------------------------------------------------------------------
\* A call that is served, answered or lost stays in its place, and the others as they are.
LEMMA PostMoves ==
  ASSUME CreateOK, NEW k \in DOMAIN posts, NEW c \in Create!Calls,
         posts' = [posts EXCEPT ![k] = c]
  PROVE  /\ posts' \in Seq(Create!Calls) /\ DOMAIN posts' = DOMAIN posts
         /\ posts'[k] = c /\ \A j \in DOMAIN posts : j # k => posts'[j] = posts[j]
BY DEF CreateOK

\* What the API says of a draft is about fields of the form.
LEMMA RefusalNamesItsField ==
  ASSUME NEW d \in Drafts
  PROVE  Create!toFieldErrors(Create!FastifyDetails(d)) = RouteIssues[d]
<1>1. RouteIssues[d] \subseteq Fields BY DraftIssues
<1> DEFINE I == {[context |-> "body", path |-> f] : f \in RouteIssues[d]}
           P == {i.path : i \in I}
<1>2. \A f \in RouteIssues[d] : f \in P
  <2>1. \A f \in RouteIssues[d] : [context |-> "body", path |-> f] \in I OBVIOUS
  <2>2. \A f \in RouteIssues[d] : [context |-> "body", path |-> f].path = f OBVIOUS
  <2>3. \A i \in I : i.path \in P OBVIOUS
  <2>4. QED BY <2>1, <2>2, <2>3
<1>3. \A f \in P : f \in RouteIssues[d] OBVIOUS
<1>4. P \cap Fields = RouteIssues[d] BY <1>1, <1>2, <1>3
<1>5. QED BY <1>4 DEF Create!toFieldErrors, Create!FastifyDetails

\* The form is blank and nothing is sent.
LEMMA CreateInit == Create!Init => CreateInv
<1> SUFFICES ASSUME Create!Init PROVE CreateInv OBVIOUS
<1>1. /\ form = 1 /\ mounted = TRUE /\ draft = Blank /\ fieldErrors = {} /\ created = 0
      /\ submitting = FALSE /\ posts = <<>> /\ attempted = [draft |-> Blank, end |-> "none"]
  BY DEF Create!Init, Create!NoCall, Create!Nothing
<1>2. DOMAIN posts = {} /\ posts \in Seq(Create!Calls) BY <1>1
<1>3. CreateOK
  <2>1. attempted \in [draft : Drafts,
                       end : {"none", "local", "sent", "lost"} \cup Create!ServerSide]
    BY <1>1, DraftIssues
  <2>2. form \in 1..MaxForms BY <1>1, VisitSizes
  <2>3. QED BY <1>1, <1>2, <2>1, <2>2, DraftIssues DEF CreateOK
<1>4. WaitsForItsLast /\ ConfirmsItsLast /\ ToldOnce
  BY <1>1, <1>2 DEF WaitsForItsLast, ConfirmsItsLast, ToldOnce
<1>5. Create!ErrorsAreOfTheLastSubmit BY <1>1 DEF Create!ErrorsAreOfTheLastSubmit
<1>6. QED BY <1>3, <1>4, <1>5 DEF CreateInv

\* No call of an earlier form has anything to do with a fresh one.
LEMMA FreshFormKeepsInv ==
  ASSUME CreateInv, Create!FreshForm, form < MaxForms, posts' = posts, mounted' \in BOOLEAN
  PROVE  CreateInv'
<1>0. CreateOK /\ ToldOnce BY DEF CreateInv
<1>1. /\ form' = form + 1 /\ draft' = Blank /\ fieldErrors' = {} /\ created' = 0
      /\ submitting' = FALSE /\ attempted' = [draft |-> Blank, end |-> "none"]
  BY DEF Create!FreshForm, Create!NoCall, Create!Nothing
<1>2. form' \in 1..MaxForms /\ \A k \in DOMAIN posts : posts[k].form < form'
  <2>1. form \in 1..MaxForms /\ MaxForms \in Nat BY <1>0, VisitSizes DEF CreateOK
  <2>2. \A k \in DOMAIN posts : posts[k] \in Create!Calls /\ posts[k].form <= form
    BY <1>0 DEF CreateOK
  <2>3. \A k \in DOMAIN posts : posts[k].form \in 1..MaxForms BY <2>2 DEF Create!Calls
  <2>4. QED BY <1>1, <2>1, <2>2, <2>3
<1>3. \A k \in DOMAIN posts : posts[k].form <= form' /\ posts[k].form # form'
  <2>1. \A k \in DOMAIN posts : posts[k] \in Create!Calls BY <1>0 DEF CreateOK
  <2>2. \A k \in DOMAIN posts : posts[k].form \in 1..MaxForms BY <2>1 DEF Create!Calls
  <2>3. QED BY <1>2, <2>2, VisitSizes
<1>4. CreateOK'
  <2>1. attempted' \in [draft : Drafts,
                        end : {"none", "local", "sent", "lost"} \cup Create!ServerSide]
    BY <1>1, DraftIssues
  <2>2. draft' \in Drafts /\ submitting' \in BOOLEAN BY <1>1, DraftIssues
  <2>3. QED
    BY <1>0, <1>1, <1>2, <1>3, <2>1, <2>2 DEF CreateOK, Create!ServerSide, Create!Calls,
                                              Create!PageSide
<1>5. WaitsForItsLast' BY <1>3 DEF WaitsForItsLast
<1>6. ConfirmsItsLast' BY <1>1 DEF ConfirmsItsLast
<1>7. ToldOnce' BY <1>0, <1>3 DEF ToldOnce
<1>8. Create!ErrorsAreOfTheLastSubmit' BY <1>1 DEF Create!ErrorsAreOfTheLastSubmit
<1>9. QED BY <1>4, <1>5, <1>6, <1>7, <1>8 DEF CreateInv

\* The form submits what its fields hold, when nothing it sent is still waited for.
LEMMA SubmitKeepsInv == ASSUME CreateInv, Create!HandleSubmit PROVE CreateInv'
<1>0. /\ CreateOK /\ WaitsForItsLast /\ ToldOnce /\ ConfirmsItsLast
      /\ Create!ErrorsAreOfTheLastSubmit
  BY DEF CreateInv
<1>1. /\ mounted /\ created = 0 /\ ~submitting /\ created' = 0
      /\ fieldErrors' = LocalIssues[draft] /\ UNCHANGED <<form, mounted, draft>>
  BY DEF Create!HandleSubmit, Create!FormShown, Create!NoCall
<1>2. \A k \in DOMAIN posts : posts[k].form = form =>
        posts[k].page # "waiting" /\ (posts[k].server = "stored" => posts[k].page # "told")
  <2>1. \A k \in DOMAIN posts : k # 0 BY <1>0 DEF CreateOK
  <2>2. QED BY <1>0, <1>1, <2>1 DEF WaitsForItsLast, ToldOnce
<1>3. CASE /\ LocalIssues[draft] # {} /\ attempted' = [draft |-> draft, end |-> "local"]
           /\ UNCHANGED <<submitting, posts>>
  <2>1. attempted' \in [draft : Drafts,
                        end : {"none", "local", "sent", "lost"} \cup Create!ServerSide]
    BY <1>0, <1>3 DEF CreateOK
  <2>2. CreateOK'
    BY <1>0, <1>1, <1>3, <2>1 DEF CreateOK, Create!ServerSide, Create!Calls, Create!PageSide
  <2>3. WaitsForItsLast' BY <1>1, <1>2, <1>3 DEF WaitsForItsLast
  <2>4. ConfirmsItsLast' BY <1>1 DEF ConfirmsItsLast
  <2>5. ToldOnce' BY <1>0, <1>1, <1>3 DEF ToldOnce
  <2>6. Create!ErrorsAreOfTheLastSubmit' BY <1>1, <1>3 DEF Create!ErrorsAreOfTheLastSubmit
  <2>7. QED BY <2>2, <2>3, <2>4, <2>5, <2>6 DEF CreateInv
<1> DEFINE c == [draft |-> draft, form |-> form, server |-> "thinking", page |-> "waiting"]
           n == Len(posts) + 1
<1>4. CASE /\ LocalIssues[draft] = {} /\ submitting' = TRUE /\ posts' = Append(posts, c)
           /\ attempted' = [draft |-> draft, end |-> "sent"]
  <2>1. /\ c \in Create!Calls /\ c.draft = draft /\ c.form = form /\ c.server = "thinking"
        /\ c.page = "waiting"
    BY <1>0 DEF CreateOK, Create!Calls, Create!ServerSide, Create!PageSide
  <2> HIDE DEF c
  <2>2. /\ posts' \in Seq(Create!Calls) /\ DOMAIN posts' = DOMAIN posts \cup {n}
        /\ posts'[n] = c /\ \A k \in DOMAIN posts : posts'[k] = posts[k]
        /\ \A k \in DOMAIN posts : k < n /\ k \in Nat
        /\ n \in Nat
    BY <1>0, <1>4, <2>1 DEF CreateOK
  <2> HIDE DEF n
  <2>3. attempted' \in [draft : Drafts,
                        end : {"none", "local", "sent", "lost"} \cup Create!ServerSide]
    BY <1>0, <1>4 DEF CreateOK
  <2>4. CreateOK'
    <3>1. \A k \in DOMAIN posts' : posts'[k].form <= form'
      BY <1>0, <1>1, <2>1, <2>2 DEF CreateOK
    <3>2. QED
      BY <1>0, <1>1, <1>4, <2>2, <2>3, <3>1
      DEF CreateOK, Create!ServerSide, Create!Calls, Create!PageSide
  <2>5. WaitsForItsLast'
    <3> SUFFICES ASSUME NEW k \in DOMAIN posts', posts'[k].form = form', posts'[k].page = "waiting"
                 PROVE  /\ submitting' /\ created' = 0
                        /\ attempted' = [draft |-> posts'[k].draft, end |-> "sent"]
                        /\ \A j \in DOMAIN posts' : posts'[j].form = form' => j <= k
      BY DEF WaitsForItsLast
    <3>1. k = n BY <1>1, <1>2, <2>2
    <3>2. QED BY <1>1, <1>4, <2>1, <2>2, <3>1
  <2>6. ConfirmsItsLast' BY <1>1 DEF ConfirmsItsLast
  <2>7. ToldOnce'
    <3>1. \A k \in DOMAIN posts' : posts'[k].page = "told" => posts'[k].server # "thinking"
      BY <1>0, <2>1, <2>2 DEF ToldOnce
    <3>2. \A k \in DOMAIN posts' :
            posts'[k].form = form' /\ posts'[k].page = "told" => posts'[k].server # "stored"
      BY <1>1, <1>2, <2>1, <2>2
    <3>3. ASSUME NEW i \in DOMAIN posts', NEW j \in DOMAIN posts', i < j,
                 posts'[i].form = posts'[j].form
          PROVE  /\ posts'[i].page # "waiting"
                 /\ posts'[i].server = "stored" => posts'[i].page = "lost"
      <4>1. i \in DOMAIN posts BY <2>2, <3>3
      <4>2. CASE j \in DOMAIN posts BY <1>0, <2>2, <3>3, <4>1, <4>2 DEF ToldOnce
      <4>3. CASE j = n
        <5>1. posts[i].form = form BY <2>1, <2>2, <3>3, <4>1, <4>3
        <5>2. posts[i].page \in {"waiting", "told", "lost"}
          <6>1. posts[i] \in Create!Calls BY <1>0, <4>1 DEF CreateOK
          <6>2. QED BY <6>1 DEF Create!Calls, Create!PageSide
        <5>3. QED BY <1>2, <2>2, <4>1, <5>1, <5>2
      <4>4. QED BY <2>2, <4>2, <4>3
    <3>4. QED BY <3>1, <3>2, <3>3 DEF ToldOnce
  <2>8. Create!ErrorsAreOfTheLastSubmit' BY <1>1, <1>4 DEF Create!ErrorsAreOfTheLastSubmit
  <2>9. QED BY <2>4, <2>5, <2>6, <2>7, <2>8 DEF CreateInv
<1>5. QED BY <1>3, <1>4 DEF Create!HandleSubmit

\* The server is done with a call, whoever waits for it.
LEMMA ServeKeepsInv ==
  ASSUME CreateInv, NEW k \in DOMAIN posts, Create!Serve(k) PROVE CreateInv'
<1>0. /\ CreateOK /\ WaitsForItsLast /\ ToldOnce /\ ConfirmsItsLast
      /\ Create!ErrorsAreOfTheLastSubmit
  BY DEF CreateInv
<1>1. /\ posts[k].server = "thinking"
      /\ UNCHANGED <<form, mounted, draft, fieldErrors, formError, created, submitting, attempted>>
  BY DEF Create!Serve, Create!screen
<1>2. PICK s \in {"refused", "stored", "failed"} : posts' = [posts EXCEPT ![k].server = s]
  BY DEF Create!Serve
<1> DEFINE c == [posts[k] EXCEPT !.server = s]
<1>3. posts[k] \in Create!Calls BY <1>0 DEF CreateOK
<1>4. /\ c \in Create!Calls /\ c.draft = posts[k].draft /\ c.form = posts[k].form
      /\ c.server # "thinking" /\ c.page = posts[k].page
  BY <1>2, <1>3 DEF Create!Calls, Create!ServerSide
<1>5. /\ posts' \in Seq(Create!Calls) /\ DOMAIN posts' = DOMAIN posts
      /\ posts'[k] = c /\ \A j \in DOMAIN posts : j # k => posts'[j] = posts[j]
  BY <1>0, <1>2, <1>4, PostMoves
<1> HIDE DEF c
<1>6. \A j \in DOMAIN posts :
        /\ posts'[j].draft = posts[j].draft /\ posts'[j].form = posts[j].form
        /\ posts'[j].page = posts[j].page
  BY <1>4, <1>5
<1>7. CreateOK'
  BY <1>0, <1>1, <1>5, <1>6 DEF CreateOK, Create!ServerSide, Create!Calls, Create!PageSide
<1>8. WaitsForItsLast' BY <1>0, <1>1, <1>5, <1>6 DEF WaitsForItsLast
<1>9. ConfirmsItsLast'
  <2>1. created # k BY <1>0, <1>1 DEF ConfirmsItsLast, CreateOK
  <2>2. created # 0 => created \in DOMAIN posts BY <1>0 DEF CreateOK
  <2>3. QED BY <1>0, <1>1, <1>5, <1>6, <2>1, <2>2 DEF ConfirmsItsLast
<1>10. ToldOnce'
  <2>1. posts[k].page # "told" BY <1>0, <1>1 DEF ToldOnce
  <2>2. posts[k].page \in {"waiting", "told", "lost"} BY <1>3 DEF Create!Calls, Create!PageSide
  <2>3. \A j \in DOMAIN posts : posts'[j].page = "told" => j # k BY <1>6, <2>1
  <2>4. ASSUME NEW i \in DOMAIN posts', NEW j \in DOMAIN posts', i < j,
               posts'[i].form = posts'[j].form
        PROVE  /\ posts'[i].page # "waiting"
               /\ posts'[i].server = "stored" => posts'[i].page = "lost"
    <3>1. posts[i].page # "waiting" BY <1>0, <1>5, <1>6, <2>4 DEF ToldOnce
    <3>2. CASE i = k BY <1>5, <1>6, <2>1, <2>2, <3>1, <3>2
    <3>3. CASE i # k BY <1>0, <1>5, <1>6, <2>4, <3>3 DEF ToldOnce
    <3>4. QED BY <3>2, <3>3
  <2>5. \A j \in DOMAIN posts' : posts'[j].page = "told" => posts'[j].server # "thinking"
    BY <1>0, <1>5, <1>6, <2>3 DEF ToldOnce
  <2>6. \A j \in DOMAIN posts' :
          mounted' /\ posts'[j].form = form' /\ posts'[j].page = "told"
            /\ posts'[j].server = "stored" => created' = j
    BY <1>0, <1>1, <1>5, <1>6, <2>3 DEF ToldOnce
  <2>7. QED BY <2>4, <2>5, <2>6 DEF ToldOnce
<1>11. Create!ErrorsAreOfTheLastSubmit' BY <1>0, <1>1 DEF Create!ErrorsAreOfTheLastSubmit
<1>12. QED BY <1>7, <1>8, <1>9, <1>10, <1>11 DEF CreateInv

\* A call is answered or lost: the form it belongs to is told, and no other.
LEMMA SettlePostKeepsInv ==
  ASSUME CreateInv, NEW k \in DOMAIN posts, Create!Answer(k) \/ Create!Lose(k)
  PROVE  CreateInv'
<1>0. /\ CreateOK /\ WaitsForItsLast /\ ToldOnce /\ ConfirmsItsLast
      /\ Create!ErrorsAreOfTheLastSubmit
  BY DEF CreateInv
<1>1. PICK p \in {"told", "lost"} :
        /\ posts[k].page = "waiting" /\ posts' = [posts EXCEPT ![k].page = p]
        /\ p = "told" => posts[k].server # "thinking"
        /\ p = "told" <=> Create!Answer(k)
        /\ p = "lost" <=> ~Create!Answer(k)
        /\ UNCHANGED <<form, mounted>>
  BY DEF Create!Answer, Create!Lose
<1> DEFINE c == [posts[k] EXCEPT !.page = p]
<1>2. posts[k] \in Create!Calls BY <1>0 DEF CreateOK
<1>3. /\ c \in Create!Calls /\ c.draft = posts[k].draft /\ c.form = posts[k].form
      /\ c.server = posts[k].server /\ c.page = p
  BY <1>1, <1>2 DEF Create!Calls, Create!PageSide
<1>4. /\ posts' \in Seq(Create!Calls) /\ DOMAIN posts' = DOMAIN posts
      /\ posts'[k] = c /\ \A j \in DOMAIN posts : j # k => posts'[j] = posts[j]
  BY <1>0, <1>1, <1>3, PostMoves
<1> HIDE DEF c
<1>5. \A j \in DOMAIN posts :
        /\ posts'[j].draft = posts[j].draft /\ posts'[j].form = posts[j].form
        /\ posts'[j].server = posts[j].server
        /\ posts'[j].page = "waiting" => posts[j].page = "waiting" /\ j # k
  BY <1>1, <1>3, <1>4
\* No call of the same form came later.
<1>6. \A j \in DOMAIN posts : k < j => posts[j].form # posts[k].form
  BY <1>0, <1>1 DEF ToldOnce
<1>7. \A i, j \in DOMAIN posts' : i < j /\ posts'[i].form = posts'[j].form =>
        /\ posts'[i].page # "waiting"
        /\ posts'[i].server = "stored" => posts'[i].page = "lost"
  <2> SUFFICES ASSUME NEW i \in DOMAIN posts, NEW j \in DOMAIN posts, i < j,
                      posts[i].form = posts[j].form
               PROVE  /\ posts'[i].page # "waiting"
                      /\ posts'[i].server = "stored" => posts'[i].page = "lost"
    BY <1>4, <1>5
  <2>1. i # k BY <1>6
  <2>2. QED BY <1>0, <1>4, <2>1 DEF ToldOnce
<1>8. \A j \in DOMAIN posts' : posts'[j].page = "told" => posts'[j].server # "thinking"
  BY <1>0, <1>1, <1>3, <1>4 DEF ToldOnce
<1>9. \A j \in DOMAIN posts' : posts'[j].form <= form' BY <1>0, <1>1, <1>4, <1>5 DEF CreateOK
<1>10. CASE ~Create!Listening(k)
  <2>1. /\ ~(mounted /\ posts[k].form = form)
        /\ UNCHANGED <<draft, fieldErrors, formError, created, submitting, attempted>>
    BY <1>10 DEF Create!Listening, Create!Answer, Create!Lose, Create!screen
  <2>2. CreateOK'
    BY <1>0, <1>1, <1>4, <1>9, <2>1
    DEF CreateOK, Create!ServerSide, Create!Calls, Create!PageSide
  <2>3. WaitsForItsLast' BY <1>0, <1>1, <1>4, <1>5, <2>1 DEF WaitsForItsLast
  <2>4. ConfirmsItsLast'
    <3>1. created # 0 => created \in DOMAIN posts BY <1>0 DEF CreateOK
    <3>2. QED BY <1>0, <1>1, <1>4, <1>5, <2>1, <3>1 DEF ConfirmsItsLast
  <2>5. ToldOnce'
    <3>1. \A j \in DOMAIN posts' :
            mounted' /\ posts'[j].form = form' /\ posts'[j].page = "told"
              /\ posts'[j].server = "stored" => created' = j
      BY <1>0, <1>1, <1>4, <1>5, <2>1 DEF ToldOnce
    <3>2. QED BY <1>7, <1>8, <3>1 DEF ToldOnce
  <2>6. Create!ErrorsAreOfTheLastSubmit' BY <1>0, <2>1 DEF Create!ErrorsAreOfTheLastSubmit
  <2>7. QED BY <2>2, <2>3, <2>4, <2>5, <2>6 DEF CreateInv
<1>11. CASE Create!Listening(k)
  <2>1. /\ mounted /\ posts[k].form = form /\ created = 0
        /\ attempted = [draft |-> posts[k].draft, end |-> "sent"]
        /\ \A j \in DOMAIN posts : posts[j].form = form => j <= k
    BY <1>0, <1>1, <1>11 DEF WaitsForItsLast, Create!Listening
  <2>2. fieldErrors = {} BY <1>0, <2>1 DEF Create!ErrorsAreOfTheLastSubmit
  <2>3. posts[k].draft \in Drafts /\ posts[k].server \in Create!ServerSide
    BY <1>2 DEF Create!Calls
  <2>4. /\ submitting' = FALSE /\ draft' = draft
        /\ created' = (IF p = "told" /\ posts[k].server = "stored" THEN k ELSE 0)
        /\ attempted' = [draft |-> posts[k].draft,
                         end |-> IF p = "told" THEN posts[k].server ELSE "lost"]
        /\ fieldErrors' = IF p = "told" /\ posts[k].server = "refused"
                          THEN RouteIssues[posts[k].draft] ELSE {}
    <3>1. CASE Create!Answer(k)
      BY <1>1, <1>11, <2>1, <2>2, <2>3, <3>1, RefusalNamesItsField
      DEF Create!Answer, Create!FailureShown
    <3>2. CASE Create!Lose(k) /\ ~Create!Answer(k)
      BY <1>1, <1>11, <2>1, <3>2 DEF Create!Lose
    <3>3. QED BY <3>1, <3>2
  <2>5. k \in Nat \ {0} BY <1>0 DEF CreateOK
  <2>6. CreateOK'
    <3>1. attempted' \in [draft : Drafts,
                          end : {"none", "local", "sent", "lost"} \cup Create!ServerSide]
      BY <2>3, <2>4
    <3>2. created' \in {0} \cup DOMAIN posts' /\ submitting' \in BOOLEAN BY <1>4, <2>4
    <3>3. QED
      BY <1>0, <1>1, <1>4, <1>9, <2>4, <3>1, <3>2
      DEF CreateOK, Create!ServerSide, Create!Calls, Create!PageSide
  <2>7. WaitsForItsLast'
    <3> SUFFICES ASSUME NEW m \in DOMAIN posts', posts'[m].form = form', posts'[m].page = "waiting"
                 PROVE  FALSE
      BY DEF WaitsForItsLast
    <3>1. m \in DOMAIN posts /\ posts[m].form = form /\ posts[m].page = "waiting" /\ m # k
      BY <1>1, <1>4, <1>5
    <3>2. k <= m BY <1>0, <2>1, <3>1 DEF WaitsForItsLast
    <3>3. m <= k BY <2>1, <3>1
    <3>4. m \in Nat BY <1>0, <3>1 DEF CreateOK
    <3>5. QED BY <2>5, <3>1, <3>2, <3>3, <3>4
  <2>8. ConfirmsItsLast'
    <3> SUFFICES ASSUME created' # 0
                 PROVE  /\ posts'[created'].server = "stored" /\ posts'[created'].form = form'
                        /\ posts'[created'].draft = attempted'.draft
                        /\ \A j \in DOMAIN posts' : posts'[j].form = form' => j <= created'
      BY DEF ConfirmsItsLast
    <3>1. created' = k /\ posts[k].server = "stored" BY <2>4
    <3>2. QED BY <1>1, <1>4, <1>5, <2>1, <2>4, <3>1
  <2>9. ToldOnce'
    <3>1. ASSUME NEW j \in DOMAIN posts', mounted', posts'[j].form = form',
                 posts'[j].page = "told", posts'[j].server = "stored"
          PROVE  created' = j
      <4>1. CASE j = k BY <1>3, <1>4, <1>5, <2>4, <3>1, <4>1
      <4>2. CASE j # k
        <5>1. created = j BY <1>0, <1>1, <1>4, <3>1, <4>2 DEF ToldOnce
        <5>2. j # 0 BY <1>0, <1>4 DEF CreateOK
        <5>3. QED BY <2>1, <5>1, <5>2
      <4>3. QED BY <4>1, <4>2
    <3>2. QED BY <1>7, <1>8, <3>1 DEF ToldOnce
  <2>10. Create!ErrorsAreOfTheLastSubmit'
    <3>1. attempted'.draft = posts[k].draft
          /\ attempted'.end = IF p = "told" THEN posts[k].server ELSE "lost"
      BY <2>4
    <3>2. attempted'.end # "local" /\ (attempted'.end = "refused" <=>
            p = "told" /\ posts[k].server = "refused")
      BY <2>3, <3>1 DEF Create!ServerSide
    <3>3. QED BY <2>4, <3>1, <3>2 DEF Create!ErrorsAreOfTheLastSubmit
  <2>11. QED BY <2>6, <2>7, <2>8, <2>9, <2>10 DEF CreateInv
<1>12. QED BY <1>10, <1>11

\* Every step of the creation keeps its invariant.
LEMMA CreateStep == CreateInv /\ [Create!Next]_(Create!vars) => CreateInv'
<1> SUFFICES ASSUME CreateInv, [Create!Next]_(Create!vars) PROVE CreateInv' OBVIOUS
<1>0. /\ CreateOK /\ WaitsForItsLast /\ ToldOnce /\ ConfirmsItsLast
      /\ Create!ErrorsAreOfTheLastSubmit
  BY DEF CreateInv
<1>1. ASSUME UNCHANGED <<form, fieldErrors, created, submitting, posts, attempted>>,
             draft' \in Drafts, mounted' \in BOOLEAN, mounted' => mounted
      PROVE  CreateInv'
  <2>1. CreateOK'
    BY <1>0, <1>1 DEF CreateOK, Create!ServerSide, Create!Calls, Create!PageSide
  <2>2. WaitsForItsLast' /\ ConfirmsItsLast' /\ ToldOnce'
    BY <1>0, <1>1 DEF WaitsForItsLast, ConfirmsItsLast, ToldOnce
  <2>3. Create!ErrorsAreOfTheLastSubmit' BY <1>0, <1>1 DEF Create!ErrorsAreOfTheLastSubmit
  <2>4. QED BY <2>1, <2>2, <2>3 DEF CreateInv
<1>2. draft \in Drafts /\ mounted \in BOOLEAN BY <1>0 DEF CreateOK
<1>3. CASE \E d \in Drafts : Create!Type(d) BY <1>1, <1>2, <1>3 DEF Create!Type
<1>4. CASE Create!Reset
  BY <1>2, <1>4, FreshFormKeepsInv DEF Create!Reset
<1>5. CASE Create!Enter BY <1>5, FreshFormKeepsInv DEF Create!Enter
<1>6. CASE Create!Leave BY <1>1, <1>2, <1>6 DEF Create!Leave, Create!screen
<1>7. CASE UNCHANGED Create!vars BY <1>1, <1>2, <1>7 DEF Create!vars, Create!screen
<1>8. QED
  BY <1>3, <1>4, <1>5, <1>6, <1>7, SubmitKeepsInv, ServeKeepsInv, SettlePostKeepsInv
  DEF Create!Next
-----------------------------------------------------------------------------
\* The two states of the tables.
LEMMA RowIsEither ==
  ASSUME DetailOK
  PROVE  /\ row.decided \in BOOLEAN /\ row.events \in 1..2
         /\ row.decided <=> row.events = 2
         /\ row.decided <=> row = Detail!Decided
<1>1. CASE row = Detail!Decided BY <1>1 DEF Detail!Decided
<1>2. CASE row = Detail!Undecided BY <1>2 DEF Detail!Decided, Detail!Undecided
<1>3. QED BY <1>1, <1>2 DEF DetailOK

\* A call that is read, answered or lost stays in its place, and the others as they are.
LEMMA CallMoves ==
  ASSUME DetailOK, NEW k \in DOMAIN calls, NEW c \in Reads, calls' = [calls EXCEPT ![k] = c]
  PROVE  /\ calls' \in Seq(Reads) /\ Len(calls') = Len(calls) /\ DOMAIN calls' = DOMAIN calls
         /\ calls'[k] = c /\ \A j \in DOMAIN calls : j # k => calls'[j] = calls[j]
BY DEF DetailOK

\* The first load is under way and nothing is shown.
LEMMA DetailInit == Detail!Init => DetailInv
<1> SUFFICES ASSUME Detail!Init PROVE DetailInv OBVIOUS
<1>1. /\ row \in {Detail!Undecided, Detail!Decided} /\ calls = <<Detail!Call("load")>>
      /\ detail = Detail!Nothing /\ error = FALSE /\ refreshing = FALSE
      /\ timelineError = FALSE /\ asked = FALSE
  BY DEF Detail!Init
<1>2. Detail!Nothing \in [decided : BOOLEAN, events : 0..2] /\ Detail!Call("load") \in Reads
  BY DEF Detail!Nothing, Detail!Call, Reads
<1>3. DetailOK
  <2>1. calls \in Seq(Reads) BY <1>1, <1>2
  <2>2. {error, refreshing, timelineError, asked} \subseteq BOOLEAN BY <1>1
  <2>3. QED BY <1>1, <1>2, <2>1, <2>2, Zenon DEF DetailOK
<1>4. /\ Len(calls) = 1 /\ DOMAIN calls = {1} /\ calls[1].step = "row"
      /\ calls[1].what = "load" /\ ~calls[1].got.decided
  BY <1>1 DEF Detail!Call, Detail!Nothing
<1>5. OneCallAtATime BY <1>1, <1>4 DEF OneCallAtATime
<1>6. ReadsAreTrue BY <1>4 DEF ReadsAreTrue
<1>7. ShownIsTrue BY <1>1, <1>3, RowIsEither DEF ShownIsTrue, Detail!Nothing
<1>8. QED BY <1>3, <1>5, <1>6, <1>7 DEF DetailInv

\* A refresh is sent when no call is under way any more.
LEMMA RefreshKeepsInv == ASSUME DetailInv, Detail!RefreshTimeline PROVE DetailInv'
<1>0. DetailOK BY DEF DetailInv
<1> DEFINE c == Detail!Call("timeline")
<1>1. /\ detail # Detail!Nothing /\ ~refreshing /\ refreshing' = TRUE /\ timelineError' = FALSE
      /\ calls' = Append(calls, c) /\ asked' = row.decided
      /\ UNCHANGED <<row, detail, error>>
  BY DEF Detail!RefreshTimeline, Detail!DetailShown
<1>2. c \in Reads /\ c.step = "row" /\ c.what = "timeline" /\ ~c.got.decided
  BY DEF Detail!Call, Detail!Nothing, Reads
<1> HIDE DEF c
<1>3. \A k \in DOMAIN calls : calls[k].step = "over"
  BY <1>1 DEF DetailInv, OneCallAtATime
<1>4. /\ calls' \in Seq(Reads) /\ Len(calls') = Len(calls) + 1
      /\ DOMAIN calls' = DOMAIN calls \cup {Len(calls')} /\ calls'[Len(calls')] = c
      /\ \A k \in DOMAIN calls : calls'[k] = calls[k]
  BY <1>0, <1>1, <1>2 DEF DetailOK
<1>5. DetailOK' BY <1>0, <1>1, <1>4, RowIsEither DEF DetailOK, Detail!Decided, Detail!Undecided
<1>6. OneCallAtATime' BY <1>1, <1>2, <1>3, <1>4 DEF OneCallAtATime
<1>7. ReadsAreTrue' BY <1>2, <1>3, <1>4 DEF ReadsAreTrue
<1>8. ShownIsTrue'
  BY <1>0, <1>1, RowIsEither DEF ShownIsTrue, DetailInv, Detail!Decided
<1>9. QED BY <1>5, <1>6, <1>7, <1>8 DEF DetailInv

\* Somebody decides: what was read or shown before is still no more than there is.
LEMMA DecisionKeepsInv == ASSUME DetailInv, Detail!Review PROVE DetailInv'
<1>0. DetailOK /\ OneCallAtATime /\ ReadsAreTrue /\ ShownIsTrue BY DEF DetailInv
<1>1. /\ row = Detail!Undecided /\ row' = Detail!Decided
      /\ UNCHANGED <<calls, detail, error, refreshing, timelineError, asked>>
  BY DEF Detail!Review, Detail!page
<1>2. /\ Detail!Undecided # Detail!Decided /\ row.events = 1 /\ row'.events = 2
      /\ row' = Detail!Decided
  BY <1>1 DEF Detail!Undecided, Detail!Decided
<1>3. DetailOK' BY <1>0, <1>1 DEF DetailOK, Detail!Undecided, Detail!Decided
<1>4. OneCallAtATime' BY <1>0, <1>1 DEF OneCallAtATime, Detail!Nothing
<1>5. ReadsAreTrue'
  <2> SUFFICES ASSUME NEW k \in DOMAIN calls, calls[k].step = "answer"
               PROVE  calls[k].got.events <= 2
    BY <1>0, <1>1, <1>2 DEF ReadsAreTrue, Detail!Decided
  <2>1. calls[k] \in Reads BY <1>0 DEF DetailOK
  <2>2. QED BY <2>1 DEF Reads
<1>6. ShownIsTrue' BY <1>0, <1>1, <1>2 DEF ShownIsTrue, DetailOK, Detail!Decided
<1>7. QED BY <1>3, <1>4, <1>5, <1>6 DEF DetailInv

\* The first statement of a call reads the row.
LEMMA FindByIdKeepsInv ==
  ASSUME DetailInv, NEW k \in DOMAIN calls, Detail!FindById(k) PROVE DetailInv'
<1>0. DetailOK /\ OneCallAtATime /\ ReadsAreTrue /\ ShownIsTrue BY DEF DetailInv
<1> DEFINE c == [calls[k] EXCEPT !.step = "events", !.got.decided = row.decided]
<1>1. /\ calls[k].step = "row" /\ UNCHANGED <<row, detail, error, refreshing, timelineError, asked>>
  BY DEF Detail!FindById, Detail!page
<1>2. calls[k] \in Reads BY <1>0 DEF DetailOK
<1>3. c \in Reads BY <1>0, <1>2, RowIsEither DEF Reads
<1>4. calls' = [calls EXCEPT ![k] = c]
  BY DEF Detail!FindById
<1>5. /\ calls' \in Seq(Reads) /\ Len(calls') = Len(calls) /\ DOMAIN calls' = DOMAIN calls
      /\ calls'[k] = c /\ \A j \in DOMAIN calls : j # k => calls'[j] = calls[j]
  BY <1>0, <1>3, <1>4, CallMoves
<1>6. c.what = calls[k].what /\ c.step = "events" /\ c.got.decided = row.decided
  BY <1>2 DEF Reads
<1> HIDE DEF c
<1>7. DetailOK' BY <1>0, <1>1, <1>5 DEF DetailOK, Detail!Undecided, Detail!Decided
<1>8. OneCallAtATime' BY <1>0, <1>1, <1>5, <1>6 DEF OneCallAtATime, Detail!Nothing
<1>9. ReadsAreTrue'
  <2>1. ~\E j \in DOMAIN calls : j # k /\ calls[j].step # "over"
    BY <1>0, <1>1 DEF OneCallAtATime
  <2>2. asked => row.decided BY <1>0, RowIsEither DEF ShownIsTrue
  <2>3. QED BY <1>0, <1>1, <1>5, <1>6, <2>1, <2>2, RowIsEither DEF ReadsAreTrue, Detail!Decided
<1>10. ShownIsTrue' BY <1>0, <1>1 DEF ShownIsTrue, Detail!Decided
<1>11. QED BY <1>7, <1>8, <1>9, <1>10 DEF DetailInv

\* The second one reads the events: they are those of the row at least.
LEMMA FindEventsKeepsInv ==
  ASSUME DetailInv, NEW k \in DOMAIN calls, Detail!FindEvents(k) PROVE DetailInv'
<1>0. DetailOK /\ OneCallAtATime /\ ReadsAreTrue /\ ShownIsTrue BY DEF DetailInv
<1> DEFINE c == [calls[k] EXCEPT !.step = "answer", !.got.events = row.events]
<1>1. /\ calls[k].step = "events"
      /\ UNCHANGED <<row, detail, error, refreshing, timelineError, asked>>
  BY DEF Detail!FindEvents, Detail!page
<1>2. calls[k] \in Reads BY <1>0 DEF DetailOK
<1>3. c \in Reads
  <2>1. row.events \in 0..2 BY <1>0, RowIsEither
  <2>2. QED BY <1>2, <2>1 DEF Reads
<1>4. calls' = [calls EXCEPT ![k] = c]
  BY DEF Detail!FindEvents
<1>5. /\ calls' \in Seq(Reads) /\ Len(calls') = Len(calls) /\ DOMAIN calls' = DOMAIN calls
      /\ calls'[k] = c /\ \A j \in DOMAIN calls : j # k => calls'[j] = calls[j]
  BY <1>0, <1>3, <1>4, CallMoves
<1>6. /\ c.what = calls[k].what /\ c.step = "answer" /\ c.got.decided = calls[k].got.decided
      /\ c.got.events = row.events
  BY <1>2 DEF Reads
<1> HIDE DEF c
<1>7. DetailOK' BY <1>0, <1>1, <1>5 DEF DetailOK, Detail!Undecided, Detail!Decided
<1>8. OneCallAtATime' BY <1>0, <1>1, <1>5, <1>6 DEF OneCallAtATime, Detail!Nothing
<1>9. ReadsAreTrue'
  <2>1. ~\E j \in DOMAIN calls : j # k /\ calls[j].step # "over"
    BY <1>0, <1>1 DEF OneCallAtATime
  <2>2. /\ calls[k].got.decided => row = Detail!Decided
        /\ asked => calls[k].got.decided
    BY <1>0, <1>1 DEF ReadsAreTrue
  <2>3. detail.events <= row.events /\ row.events \in 1..2 BY <1>0, RowIsEither DEF ShownIsTrue
  <2>4. calls[k].got.decided => row.events = 2 BY <2>2 DEF Detail!Decided
  <2>5. detail.events \in 0..2 BY <1>0 DEF DetailOK
  <2>6. QED
    BY <1>1, <1>5, <1>6, <2>1, <2>2, <2>3, <2>4, <2>5 DEF ReadsAreTrue, Detail!Decided
<1>10. ShownIsTrue' BY <1>0, <1>1 DEF ShownIsTrue, Detail!Decided
<1>11. QED BY <1>7, <1>8, <1>9, <1>10 DEF DetailInv

\* A call that is over is the last one to have been under way.
LEMMA OverIsOver ==
  ASSUME DetailInv, NEW k \in DOMAIN calls, calls[k].step # "over", Detail!Over(k)
  PROVE  /\ calls' \in Seq(Reads) /\ DOMAIN calls' = DOMAIN calls
         /\ \A j \in DOMAIN calls : calls'[j].step = "over"
<1>0. DetailOK /\ OneCallAtATime BY DEF DetailInv
<1> DEFINE c == [calls[k] EXCEPT !.step = "over"]
<1>1. calls[k] \in Reads BY <1>0 DEF DetailOK
<1>2. c \in Reads /\ c.step = "over" BY <1>1 DEF Reads
<1>3. calls' = [calls EXCEPT ![k] = c] BY DEF Detail!Over
<1> HIDE DEF c
<1>4. \A j \in DOMAIN calls : j # k => calls[j].step = "over" BY <1>0 DEF OneCallAtATime
<1>5. QED BY <1>0, <1>2, <1>3, <1>4, CallMoves

\* An answer is shown, and is no less than what it takes the place of.
LEMMA AnswerKeepsInv ==
  ASSUME DetailInv, NEW k \in DOMAIN calls, Detail!Answer(k)
  PROVE  DetailInv' /\ detail'.events >= detail.events /\ detail'.events >= 1 /\ error' = error
<1>0. DetailOK /\ OneCallAtATime /\ ReadsAreTrue /\ ShownIsTrue BY DEF DetailInv
<1>1. /\ calls[k].step = "answer" /\ Detail!Over(k) /\ detail' = calls[k].got
      /\ refreshing' = (refreshing /\ calls[k].what # "timeline")
      /\ UNCHANGED <<row, error, timelineError, asked>>
  BY DEF Detail!Answer
<1>2. /\ calls' \in Seq(Reads) /\ DOMAIN calls' = DOMAIN calls
      /\ \A j \in DOMAIN calls : calls'[j].step = "over"
  BY <1>1, OverIsOver
<1>3. calls[k] \in Reads BY <1>0 DEF DetailOK
<1>4. detail' \in [decided : BOOLEAN, events : 0..2] BY <1>1, <1>3 DEF Reads
<1>5. /\ detail'.decided => row = Detail!Decided
      /\ asked => detail'.decided
      /\ detail'.events >= 1 /\ detail'.events >= detail.events /\ detail'.events <= row.events
      /\ detail'.decided => detail'.events = 2
  BY <1>0, <1>1 DEF ReadsAreTrue
<1>6. DetailOK'
  <2>1. refreshing' \in BOOLEAN BY <1>1
  <2>2. QED BY <1>0, <1>1, <1>2, <1>4, <2>1 DEF DetailOK, Detail!Undecided, Detail!Decided
<1>7. OneCallAtATime' /\ ReadsAreTrue' BY <1>2 DEF OneCallAtATime, ReadsAreTrue
<1>8. ShownIsTrue'
  <2>1. detail'.decided /\ detail'.events = 2 => detail' = Detail!Decided
    BY <1>4 DEF Detail!Decided
  <2>2. asked => detail' = Detail!Decided BY <1>5, <2>1
  <2>3. detail'.events # 0 BY <1>4, <1>5
  <2>4. QED BY <1>0, <1>1, <1>5, <2>2, <2>3 DEF ShownIsTrue, Detail!Decided
<1>9. QED BY <1>1, <1>5, <1>6, <1>7, <1>8 DEF DetailInv

\* A call that fails leaves the detail as it is, and the page only when it was the first.
LEMMA FailureKeepsInv ==
  ASSUME DetailInv, NEW k \in DOMAIN calls, Detail!Failure(k)
  PROVE  DetailInv' /\ detail' = detail /\ (detail # Detail!Nothing => error' = error)
<1>0. DetailOK /\ OneCallAtATime /\ ReadsAreTrue /\ ShownIsTrue BY DEF DetailInv
<1>1. /\ calls[k].step # "over" /\ Detail!Over(k) /\ UNCHANGED <<row, detail, asked>>
      /\ IF calls[k].what = "load" THEN error' = TRUE /\ UNCHANGED <<refreshing, timelineError>>
         ELSE timelineError' = TRUE /\ refreshing' = FALSE /\ UNCHANGED error
  BY DEF Detail!Failure
<1>2. /\ calls' \in Seq(Reads) /\ DOMAIN calls' = DOMAIN calls
      /\ \A j \in DOMAIN calls : calls'[j].step = "over"
  BY <1>1, OverIsOver
<1>3. {error', refreshing', timelineError'} \subseteq BOOLEAN BY <1>0, <1>1 DEF DetailOK
<1>4. DetailOK' BY <1>0, <1>1, <1>2, <1>3 DEF DetailOK, Detail!Undecided, Detail!Decided
<1>5. OneCallAtATime' /\ ReadsAreTrue' BY <1>2 DEF OneCallAtATime, ReadsAreTrue
<1>6. ShownIsTrue' BY <1>0, <1>1 DEF ShownIsTrue, Detail!Decided
<1>7. calls[k].what = "load" => detail = Detail!Nothing BY <1>0, <1>1 DEF OneCallAtATime
<1>8. QED BY <1>1, <1>4, <1>5, <1>6, <1>7 DEF DetailInv

\* Every step of the detail keeps its invariant, loses no event and leaves a detail shown.
LEMMA DetailStep ==
  ASSUME DetailInv, [Detail!Next]_(Detail!vars)
  PROVE  /\ DetailInv' /\ detail'.events >= detail.events
         /\ Detail!DetailShown => Detail!DetailShown'
<1>0. DetailOK BY DEF DetailInv
<1>1. detail.events \in 0..2 BY <1>0 DEF DetailOK
<1>2. ASSUME DetailInv', UNCHANGED <<detail, error>>
      PROVE  /\ DetailInv' /\ detail'.events >= detail.events
             /\ Detail!DetailShown => Detail!DetailShown'
  BY <1>1, <1>2 DEF Detail!DetailShown, Detail!Nothing
<1>3. CASE Detail!RefreshTimeline
  BY <1>2, <1>3, RefreshKeepsInv DEF Detail!RefreshTimeline
<1>4. CASE Detail!Review
  BY <1>2, <1>4, DecisionKeepsInv DEF Detail!Review, Detail!page
<1>5. ASSUME NEW k \in DOMAIN calls, Detail!Settle(k)
      PROVE  /\ DetailInv' /\ detail'.events >= detail.events
             /\ Detail!DetailShown => Detail!DetailShown'
  <2>1. CASE Detail!FindById(k)
    <3>1. DetailInv' BY <2>1, FindByIdKeepsInv
    <3>2. UNCHANGED <<detail, error>> BY <2>1 DEF Detail!FindById, Detail!page
    <3>3. QED BY <1>2, <3>1, <3>2
  <2>2. CASE Detail!FindEvents(k)
    <3>1. DetailInv' BY <2>2, FindEventsKeepsInv
    <3>2. UNCHANGED <<detail, error>> BY <2>2 DEF Detail!FindEvents, Detail!page
    <3>3. QED BY <1>2, <3>1, <3>2
  <2>3. CASE Detail!Answer(k)
    <3>1. DetailInv' /\ detail'.events >= detail.events /\ detail'.events >= 1 /\ error' = error
      BY <2>3, AnswerKeepsInv
    <3>2. detail' # Detail!Nothing BY <3>1 DEF Detail!Nothing
    <3>3. QED BY <3>1, <3>2 DEF Detail!DetailShown, Detail!Nothing
  <2>4. CASE Detail!Failure(k)
    <3>1. DetailInv' /\ detail' = detail /\ (detail # Detail!Nothing => error' = error)
      BY <2>4, FailureKeepsInv
    <3>2. QED BY <1>1, <3>1 DEF Detail!DetailShown, Detail!Nothing
  <2>5. QED BY <1>5, <2>1, <2>2, <2>3, <2>4 DEF Detail!Settle
<1>6. CASE UNCHANGED Detail!vars
  <2>1. DetailInv'
    BY <1>6 DEF Detail!vars, DetailInv, DetailOK, OneCallAtATime, ReadsAreTrue, ShownIsTrue,
                Detail!Undecided, Detail!Decided, Detail!Nothing
  <2>2. QED BY <1>2, <1>6, <2>1 DEF Detail!vars
<1>7. QED BY <1>3, <1>4, <1>5, <1>6 DEF Detail!Next, Detail!Sent
-----------------------------------------------------------------------------
\* The kinds of result are told apart.
LEMMA ResultsApart ==
  Status!Up # Status!Out /\ Status!Up # Status!NoReply /\ Status!Out # Status!NoReply
BY DEF Status!Up, Status!Out, Status!NoReply, Status!Pending

\* The first round begins with the screen.
LEMMA StatusInit == Status!Init => StatusInv
<1> SUFFICES ASSUME Status!Init PROVE StatusInv OBVIOUS
<1>1. /\ service \in [Services -> Status!Conditions] /\ statusAccess = "good"
      /\ round = 1 /\ loading = TRUE /\ reply = Status!NoRows /\ me = Status!Pending
      /\ probes = Status!NoRows /\ identity = Status!Pending /\ shownRound = 0
      /\ seen = [s \in Services |-> {service[s]}] /\ test = "waiting"
  BY DEF Status!Init
<1>2. /\ Status!NoRows \in [Services -> {Status!NoReply, Status!Up, Status!Out}]
      /\ \A s \in Services : Status!NoRows[s] = Status!NoReply
  BY DEF Status!NoRows
<1>3. seen \in [Services -> SUBSET Status!Conditions] BY <1>1
<1>4. Status!TypeOK BY <1>1, <1>2, <1>3, VisitSizes DEF Status!TypeOK
<1>5. \A s \in Services : service[s] \in seen[s] BY <1>1
<1>6. \A s \in Services : Reasoned(s, reply[s]) BY <1>1, <1>2, ResultsApart DEF Reasoned
<1>7. shownRound # round BY <1>1
<1>8. QED BY <1>1, <1>4, <1>5, <1>6, <1>7 DEF StatusInv

\* A round begins with what is there, and nothing has come back yet.
LEMMA RecheckKeepsInv == ASSUME StatusInv, Status!Recheck PROVE StatusInv'
<1>0. Status!TypeOK BY DEF StatusInv
<1>1. /\ ~loading /\ round < MaxRounds /\ round' = round + 1 /\ loading' = TRUE
      /\ reply' = Status!NoRows /\ me' = Status!Pending
      /\ seen' = [s \in Services |-> {service[s]}] /\ test' = "waiting"
      /\ UNCHANGED <<service, statusAccess, probes, identity, shownRound>>
  BY DEF Status!Recheck, Status!Ask
<1>2. /\ Status!NoRows \in [Services -> {Status!NoReply, Status!Up, Status!Out}]
      /\ \A s \in Services : Status!NoRows[s] = Status!NoReply
  BY DEF Status!NoRows
<1>3. service \in [Services -> Status!Conditions] BY <1>0 DEF Status!TypeOK
<1>4. seen' \in [Services -> SUBSET Status!Conditions] BY <1>1, <1>3
<1>5. round' \in 1..MaxRounds /\ shownRound' \in 0..round' /\ shownRound' # round'
  BY <1>0, <1>1, VisitSizes DEF Status!TypeOK
<1>6. reply' \in [Services -> {Status!NoReply, Status!Up, Status!Out}] BY <1>1, <1>2
<1>7. Status!TypeOK' BY <1>0, <1>1, <1>4, <1>5, <1>6 DEF Status!TypeOK, Status!Pending,
        Status!NoReply, Status!Up, Status!Out, Status!Conditions
<1>8. \A s \in Services : service'[s] \in seen'[s] BY <1>1
<1>9. \A s \in Services : Reasoned(s, reply[s])'
  BY <1>1, <1>2, ResultsApart DEF Reasoned, Status!NoReply, Status!Up, Status!Out, Status!Pending
<1>10. QED BY <1>1, <1>5, <1>7, <1>8, <1>9 DEF StatusInv

\* A probe comes back with the state its service is in.
LEMMA ProbeKeepsInv ==
  ASSUME StatusInv, NEW s \in Services, Status!Probe(s) PROVE StatusInv'
<1>0. Status!TypeOK BY DEF StatusInv
<1> DEFINE r == IF service[s] = "ok" THEN Status!Up ELSE Status!Out
<1>1. /\ reply' = [reply EXCEPT ![s] = r]
      /\ UNCHANGED <<service, statusAccess, round, me, probes, identity, loading, shownRound,
                     seen, test>>
  BY DEF Status!Probe, Status!page
<1>2. r \in {Status!Up, Status!Out} OBVIOUS
<1>3. Reasoned(s, r)
  BY ResultsApart DEF StatusInv, Reasoned
<1> HIDE DEF r
<1>4. reply \in [Services -> {Status!NoReply, Status!Up, Status!Out}] BY <1>0 DEF Status!TypeOK
<1>5. \A t \in Services : Reasoned(t, reply'[t]) BY <1>1, <1>3, <1>4 DEF StatusInv
<1>6. reply' \in [Services -> {Status!NoReply, Status!Up, Status!Out}] BY <1>1, <1>2, <1>4
<1>7. \A t \in Services : Reasoned(t, reply[t])' /\ service'[t] \in seen'[t]
  BY <1>1, <1>5 DEF StatusInv, Reasoned, Status!Up, Status!Out
<1>8. shownRound' = round' => \A t \in Services : Reasoned(t, probes[t])'
  BY <1>1 DEF StatusInv, Reasoned, Status!Up, Status!Out
<1>9. Status!TypeOK'
  BY <1>0, <1>1, <1>6 DEF Status!TypeOK, Status!NoReply, Status!Up, Status!Out, Status!Pending,
                         Status!Conditions
<1>10. QED BY <1>1, <1>7, <1>8, <1>9 DEF StatusInv

\* The rows are those of the round once they are shown.
LEMMA ShowKeepsInv == ASSUME StatusInv, Status!Show PROVE StatusInv'
<1>0. Status!TypeOK BY DEF StatusInv
<1>1. /\ probes' = reply /\ identity' = me /\ loading' = FALSE /\ shownRound' = round
      /\ UNCHANGED <<service, statusAccess, round, reply, me, seen, test>>
  BY DEF Status!Show
<1>2. \A t \in Services : Reasoned(t, reply[t]) /\ service[t] \in seen[t] BY DEF StatusInv
<1>3. \A t \in Services :
        Reasoned(t, reply[t])' /\ Reasoned(t, probes[t])' /\ service'[t] \in seen'[t]
  BY <1>1, <1>2 DEF Reasoned, Status!Up, Status!Out
<1>4. Status!TypeOK'
  <2>1. round \in 1..MaxRounds /\ shownRound' \in 0..round' /\ loading' \in BOOLEAN
    <3>1. round \in 1..MaxRounds BY <1>0, Zenon DEF Status!TypeOK
    <3>2. loading' \in BOOLEAN BY <1>1, Zenon
    <3>3. round' = round /\ shownRound' = round BY <1>1, Zenon
    <3>4. MaxRounds \in Nat BY VisitSizes
    <3>5. round \in 0..round BY <3>1, <3>4
    <3>6. QED BY <3>1, <3>2, <3>3, <3>5
  <2>2. /\ probes' \in [Services -> {Status!NoReply, Status!Up, Status!Out}]
        /\ identity' \in {Status!Pending, "user", "error"}
    BY <1>0, <1>1, Zenon DEF Status!TypeOK
  <2>3. QED
    BY <1>0, <1>1, <2>1, <2>2
    DEF Status!TypeOK, Status!NoReply, Status!Up, Status!Out, Status!Pending, Status!Conditions
<1>5. QED BY <1>1, <1>3, <1>4 DEF StatusInv

\* What happened since the round began only grows.
LEMMA ServiceKeepsInv ==
  ASSUME StatusInv, NEW s \in Services, Status!ServiceChanges(s) PROVE StatusInv'
<1>0. Status!TypeOK BY DEF StatusInv
<1>1. PICK c \in Status!Conditions : service' = [service EXCEPT ![s] = c]
  BY DEF Status!ServiceChanges
<1>2. /\ seen' = [seen EXCEPT ![s] = @ \cup {service'[s]}]
      /\ UNCHANGED <<statusAccess, round, reply, me, probes, identity, loading, shownRound,
                     test>>
  BY DEF Status!ServiceChanges, Status!page
<1>3. /\ service \in [Services -> Status!Conditions]
      /\ seen \in [Services -> SUBSET Status!Conditions]
  BY <1>0 DEF Status!TypeOK
<1>4. /\ service' \in [Services -> Status!Conditions]
      /\ seen' \in [Services -> SUBSET Status!Conditions]
      /\ \A t \in Services : seen[t] \subseteq seen'[t] /\ service'[t] \in seen'[t]
  <2>1. service'[s] = c /\ \A t \in Services : t # s => service'[t] = service[t]
    BY <1>1, <1>3
  <2>2. \A t \in Services : service[t] \in seen[t] BY DEF StatusInv
  <2>3. seen' = [seen EXCEPT ![s] = @ \cup {c}] BY <1>2, <2>1
  <2>4. \A t \in Services : seen'[t] = IF t = s THEN seen[s] \cup {c} ELSE seen[t]
    BY <1>3, <2>3
  <2>5. QED BY <1>1, <1>3, <2>1, <2>2, <2>3, <2>4
<1>5. \A t \in Services : \A x : Reasoned(t, x) => Reasoned(t, x)'
  BY <1>4 DEF Reasoned, Status!Up, Status!Out
<1>6. \A t \in Services : Reasoned(t, reply[t])'
  BY <1>2, <1>5 DEF StatusInv, Reasoned, Status!Up, Status!Out
<1>7. shownRound' = round' => \A t \in Services : Reasoned(t, probes[t])'
  BY <1>2, <1>5 DEF StatusInv, Reasoned, Status!Up, Status!Out
<1>8. Status!TypeOK'
  BY <1>0, <1>2, <1>4 DEF Status!TypeOK, Status!NoReply, Status!Up, Status!Out, Status!Pending,
                         Status!Conditions
<1>9. QED BY <1>2, <1>4, <1>6, <1>7, <1>8 DEF StatusInv

\* Every step of the status screen keeps its invariant.
LEMMA StatusStep == StatusInv /\ [Status!Next]_(Status!vars) => StatusInv'
<1> SUFFICES ASSUME StatusInv, [Status!Next]_(Status!vars) PROVE StatusInv' OBVIOUS
<1>0. Status!TypeOK BY DEF StatusInv
<1>1. ASSUME UNCHANGED <<service, round, reply, probes, identity, loading, shownRound, seen>>,
             statusAccess' \in {"good", "expired", "none"},
             me' \in {Status!Pending, "user", "error"},
             test' \in {"waiting", "reading"}, test' = "reading" => ~loading
      PROVE  StatusInv'
  <2>1. \A t \in Services : Reasoned(t, reply[t])' /\ service'[t] \in seen'[t]
    BY <1>1 DEF StatusInv, Reasoned, Status!Up, Status!Out
  <2>2. shownRound' = round' => \A t \in Services : Reasoned(t, probes[t])'
    BY <1>1 DEF StatusInv, Reasoned, Status!Up, Status!Out
  <2>3. Status!TypeOK'
    BY <1>0, <1>1 DEF Status!TypeOK, Status!NoReply, Status!Up, Status!Out, Status!Pending,
                      Status!Conditions
  <2>4. QED BY <1>1, <2>1, <2>2, <2>3 DEF StatusInv
<1>2. /\ statusAccess \in {"good", "expired", "none"} /\ me \in {Status!Pending, "user", "error"}
      /\ test \in {"waiting", "reading"} /\ (test = "reading" => ~loading)
  BY <1>0 DEF Status!TypeOK, StatusInv
<1>3. CASE Status!Me BY <1>1, <1>2, <1>3 DEF Status!Me, Status!page
<1>4. CASE Status!TestReads BY <1>1, <1>2, <1>4 DEF Status!TestReads, Status!page
<1>5. CASE Status!AccessExpires BY <1>1, <1>2, <1>5 DEF Status!AccessExpires, Status!page
<1>6. CASE UNCHANGED Status!vars BY <1>1, <1>2, <1>6 DEF Status!vars, Status!page
<1>7. QED
  BY <1>3, <1>4, <1>5, <1>6, RecheckKeepsInv, ProbeKeepsInv, ShowKeepsInv, ServiceKeepsInv
  DEF Status!Next
-----------------------------------------------------------------------------
\* An answer with rows is not the empty screen.
LEMMA RowsAreNotNone ==
  ASSUME NEW q \in List!Query, NEW k \in 0..MaxPage
  PROVE  /\ [query |-> q, pages |-> k] \in List!Result
         /\ [query |-> q, pages |-> k] # None
BY ListSizes DEF List!Result

\* The control that was used leaves a query in the address.
LEMMA UseKeepsQueries ==
  ASSUME ListOK, List!Use
  PROVE  addr' \in List!Query /\ text' \in Texts \cup {None}
<1>1. /\ params \in List!Query /\ addr \in List!Query /\ text \in Texts \cup {None}
      /\ 1 \in 1..MaxPage /\ DefaultSize \in Sizes
  BY ListSizes DEF ListOK
<1>2. ASSUME NEW s \in Statuses \cup {None}, List!Filter("status", s) PROVE addr' \in List!Query
  <2>1. addr' = [params EXCEPT !.status = s, !.page = 1] BY <1>2, Zenon DEF List!Filter
  <2>2. QED BY <1>1, <2>1 DEF List!Query
<1>3. ASSUME NEW t \in Texts \cup {None}, List!Filter("createdBy", t)
      PROVE  addr' \in List!Query
  <2>1. addr' = [params EXCEPT !.createdBy = t, !.page = 1] BY <1>3, Zenon DEF List!Filter
  <2>2. QED BY <1>1, <2>1 DEF List!Query
<1>4. ASSUME NEW p \in 1..MaxPage PROVE [params EXCEPT !.page = p] \in List!Query
  BY <1>1 DEF List!Query
<1>5. ASSUME NEW s \in Sizes PROVE [params EXCEPT !.size = s, !.page = 1] \in List!Query
  BY <1>1 DEF List!Query
<1>6. List!NoQuery \in List!Query BY <1>1 DEF List!NoQuery, List!Query
<1>7. CASE List!Press
  <2>1. text' = text BY <1>7 DEF List!Press
  <2>2. addr' \in List!Query
    <3>1. List!GoTo => addr' \in List!Query BY <1>4 DEF List!GoTo, List!PageTargets
    <3>2. ASSUME NEW s \in Sizes, List!ChangeSize(s) PROVE addr' \in List!Query
      BY <1>5, <3>2, Zenon DEF List!ChangeSize
    <3>3. QED BY <1>2, <1>6, <1>7, <3>1, <3>2 DEF List!Press
  <2>3. QED BY <1>1, <2>1, <2>2
<1>8. CASE \E t \in Texts \cup {None} : List!Type(t) BY <1>1, <1>8 DEF List!Type
<1>9. CASE List!Blur BY <1>1, <1>3, <1>9 DEF List!Blur
<1>10. QED BY <1>7, <1>8, <1>9 DEF List!Use

\* The screen asks for the address it was opened with.
LEMMA ListInit == List!Init => ListInv
<1> SUFFICES ASSUME List!Init PROVE ListInv OBVIOUS
<1>1. /\ addr \in List!Query /\ params = addr /\ text = addr.createdBy /\ listRows = None
      /\ loadedQuery = List!NoQuery /\ listLoading = TRUE
      /\ listLoads = {[n |-> 1, query |-> addr]} /\ listAsked = 1
      /\ landed = [n |-> 0, ok |-> FALSE]
  BY DEF List!Init
<1>2. List!NoQuery \in List!Query BY ListSizes DEF List!NoQuery, List!Query
<1>3. text \in Texts \cup {None} BY <1>1 DEF List!Query
<1>4. ListOK BY <1>1, <1>2, <1>3 DEF ListOK
<1>5. QED BY <1>1, <1>4 DEF ListInv

\* Rendering the address asks the newest question.
LEMMA RenderKeepsInv == ASSUME ListInv, List!Rerender PROVE ListInv'
<1>0. ListOK BY DEF ListInv
<1>1. /\ params' = addr /\ listAsked' = listAsked + 1 /\ listLoading' = TRUE
      /\ listLoads' = listLoads \cup {[n |-> listAsked + 1, query |-> addr]}
      /\ UNCHANGED <<addr, text, listRows, loadedQuery, landed>>
  BY DEF List!Rerender
<1>2. listAsked \in Nat /\ landed.n \in 0..listAsked BY <1>0 DEF ListOK
<1>3. \A l \in listLoads : l.n \in 1..listAsked BY <1>0 DEF ListOK
<1>4. ListOK'
  <2>1. addr \in List!Query BY <1>0 DEF ListOK
  <2>2. listLoads' \subseteq [n : 1..(listAsked + 1), query : List!Query]
    <3>1. listLoads \subseteq [n : 1..(listAsked + 1), query : List!Query]
      BY <1>0, <1>2 DEF ListOK
    <3>2. [n |-> listAsked + 1, query |-> addr] \in [n : 1..(listAsked + 1), query : List!Query]
      BY <1>2, <2>1
    <3>3. QED BY <1>1, <3>1, <3>2
  <2>3. landed \in [n : 0..(listAsked + 1), ok : BOOLEAN] BY <1>0, <1>2 DEF ListOK
  <2>4. QED BY <1>0, <1>1, <1>2, <2>2, <2>3 DEF ListOK
<1>5. \A l \in listLoads' : l.n = listAsked' => l.query = params'
  <2>1. \A l \in listLoads : l.n # listAsked + 1 BY <1>2, <1>3
  <2>2. QED BY <1>1, <2>1
<1>6. landed'.n # listAsked' BY <1>1, <1>2
<1>7. QED BY <1>1, <1>4, <1>5, <1>6 DEF ListInv

\* A question is settled: its rows, its mark and the end of the wait, or the failure.
LEMMA SettleKeepsInv ==
  ASSUME ListInv, NEW l \in listLoads, List!Answer(l) \/ List!Failure(l)
  PROVE  ListInv'
<1>0. ListOK BY DEF ListInv
<1>1. /\ listLoads' = listLoads \ {l} /\ listLoading' = FALSE
      /\ UNCHANGED <<addr, params, text, listAsked>>
  BY DEF List!Answer, List!Failure
<1>2. l.n \in 1..listAsked /\ l.query \in List!Query BY <1>0 DEF ListOK
<1>3. l.n = listAsked => l.query = params BY DEF ListInv
<1>4. CASE List!Answer(l)
  <2>1. /\ loadedQuery' = l.query /\ landed' = [n |-> l.n, ok |-> TRUE]
        /\ \E k \in 0..MaxPage : listRows' = [query |-> l.query, pages |-> k]
    BY <1>4 DEF List!Answer
  <2>2. listRows' \in List!Result /\ listRows' # None /\ listRows'.query = l.query
    BY <1>2, <2>1, RowsAreNotNone
  <2>3. landed' \in [n : 0..listAsked, ok : BOOLEAN] BY <1>2, <2>1
  <2>4. ListOK' BY <1>0, <1>1, <1>2, <2>1, <2>2, <2>3 DEF ListOK
  <2>5. QED BY <1>1, <1>3, <2>1, <2>2, <2>4 DEF ListInv
<1>5. CASE List!Failure(l)
  <2>1. /\ landed' = [n |-> l.n, ok |-> FALSE] /\ listError' = TRUE
        /\ UNCHANGED <<listRows, loadedQuery>>
    BY <1>5 DEF List!Failure
  <2>2. landed' \in [n : 0..listAsked, ok : BOOLEAN] BY <1>2, <2>1
  <2>3. ListOK' BY <1>0, <1>1, <2>1, <2>2 DEF ListOK
  <2>4. QED BY <1>1, <2>1, <2>3 DEF ListInv
<1>6. QED BY <1>4, <1>5

\* Every step of the list keeps its invariant.
LEMMA ListStep == ListInv /\ [List!Next]_(List!vars) => ListInv'
<1> SUFFICES ASSUME ListInv, [List!Next]_(List!vars) PROVE ListInv' OBVIOUS
<1>0. ListOK BY DEF ListInv
<1>1. ASSUME UNCHANGED <<params, listRows, loadedQuery, listLoading, listError, listLoads,
                         listAsked, landed>>,
             addr' \in List!Query, text' \in Texts \cup {None}
      PROVE  ListInv'
  <2>1. ListOK' BY <1>0, <1>1 DEF ListOK
  <2>2. QED BY <1>1, <2>1 DEF ListInv
<1>2. CASE List!PersonUses \/ List!TestActs
  BY <1>0, <1>1, <1>2, UseKeepsQueries DEF List!PersonUses, List!TestActs, List!screen
<1>3. CASE List!TestWaits \/ UNCHANGED List!vars
  <2>1. addr \in List!Query /\ text \in Texts \cup {None} BY <1>0 DEF ListOK
  <2>2. QED
    BY <1>1, <1>3, <2>1
    DEF List!TestWaits, List!TestSeesAddress, List!TestSeesQuery, List!TestGivesUp, List!vars,
        List!screen
<1>4. QED BY <1>2, <1>3, RenderKeepsInv, SettleKeepsInv DEF List!Next, List!Settle

\* A wait of the automation ends on the rows of its query.
LEMMA WaitFindsItsRows ==
  ASSUME ListInv, [List!Next]_(List!vars), listTest = "query", listTest' = "reading",
         addr # List!NoQuery
  PROVE  listRows # None /\ listRows.query = addr
<1>1. List!TestSeesQuery
  BY DEF List!Next, List!PersonUses, List!TestActs, List!TestWaits, List!TestSeesAddress,
         List!TestGivesUp, List!Rerender, List!Settle, List!Answer, List!Failure, List!vars
<1>2. List!Announced = addr BY <1>1 DEF List!TestSeesQuery
<1>3. QED BY <1>2 DEF List!Announced, ListInv
-----------------------------------------------------------------------------
\* Every screen begins as it does alone.
LEMMA ScreensBegin ==
  Init => List!Init /\ Queue!Init /\ Create!Init /\ Detail!Init /\ Status!Init
BY DEF Init

\* A step of the backoffice is one of each screen, or leaves it as it is.
LEMMA ListSteps == [Next]_vars => [List!Next]_(List!vars)
BY DEF Next, vars, listVars, List!vars, List!screen

LEMMA QueueSteps == [Next]_vars => [Queue!Next]_(Queue!vars)
BY DEF Next, vars, queueVars, Queue!vars, Queue!screen, Queue!confirming, Queue!history

LEMMA CreateSteps == [Next]_vars => [Create!Next]_(Create!vars)
BY DEF Next, vars, createVars, Create!vars, Create!screen

LEMMA DetailSteps == [Next]_vars => [Detail!Next]_(Detail!vars)
BY DEF Next, vars, detailVars, Detail!vars

LEMMA StatusSteps == [Next]_vars => [Status!Next]_(Status!vars)
BY DEF Next, vars, statusVars, Status!vars, Status!page
-----------------------------------------------------------------------------
\* The invariants of the screens hold in every state of the backoffice.
THEOREM ScreensInvariant ==
  Spec => [](QueueInv /\ CreateInv /\ DetailInv /\ StatusInv /\ ListInv)
<1>1. Init => QueueInv /\ CreateInv /\ DetailInv /\ StatusInv /\ ListInv
  BY ScreensBegin, QueueInit, CreateInit, DetailInit, StatusInit, ListInit
<1>2. QueueInv /\ [Next]_vars => QueueInv' BY QueueSteps, QueueStep
<1>3. CreateInv /\ [Next]_vars => CreateInv' BY CreateSteps, CreateStep
<1>4. DetailInv /\ [Next]_vars => DetailInv' BY DetailSteps, DetailStep
<1>5. StatusInv /\ [Next]_vars => StatusInv' BY StatusSteps, StatusStep
<1>6. ListInv /\ [Next]_vars => ListInv' BY ListSteps, ListStep
<1>7. QED BY <1>1, <1>2, <1>3, <1>4, <1>5, <1>6, PTL DEF Spec

\* The dialog names what is written, a confirmed row does not come back, and what the
\* automation takes for a review is one (ConferenciaContent.confirm, ConferenciaPage.mark).
THEOREM QueueShows == Spec => []QueueShowsItsReviews
<1>1. QueueInv => QueueShowsItsReviews
  BY DEF QueueInv, DialogOverRows, ConfirmedIsGone, NothingWrong, QueueShowsItsReviews,
         Queue!QueueShowsItsReviews, Queue!DialogStaysLocked, Queue!ConfirmedRowsStayGone,
         Queue!GoneMeansConfirmed
<1>2. QED BY <1>1, ScreensInvariant, PTL

\* A confirmation is of a stored request, errors are those of the last submission, and a
\* form that stored two requests was told that the first was lost (handleSubmit).
THEOREM FormTells == Spec => []FormTellsItsOutcome
<1>1. CreateInv => FormTellsItsOutcome
  BY DEF CreateInv, ConfirmsItsLast, ToldOnce, FormTellsItsOutcome, Create!FormTellsItsOutcome,
         Create!ConfirmedIsStored, Create!DuplicateMeansLostAnswer, Create!SuccessShown,
         Create!NoCall
<1>2. QED BY <1>1, ScreensInvariant, PTL

\* What the test of the status screen reads is of the round it waited for (waitForCheck).
THEOREM TestReadsRound == Spec => []TestReadsItsRound
<1>1. StatusInv => TestReadsItsRound
  <2> SUFFICES ASSUME StatusInv, test = "reading" PROVE TestReadsItsRound
    BY DEF TestReadsItsRound, Status!TestReadsItsRound, Status!RowsAreOfTheRound,
           Status!TestWaitsForTheRound
  <2>1. ~loading /\ shownRound = round BY DEF StatusInv
  <2>2. \A s \in Services : /\ probes[s] = Status!Up => "ok" \in seen[s]
                            /\ probes[s] = Status!Out => seen[s] # {"ok"}
    <3>1. \A s \in Services : Reasoned(s, probes[s]) BY <2>1 DEF StatusInv
    <3>2. QED BY <3>1 DEF Reasoned
  <2>3. QED
    BY <2>1, <2>2 DEF TestReadsItsRound, Status!TestReadsItsRound, Status!RowsAreOfTheRound,
                      Status!TestWaitsForTheRound
<1>2. QED BY <1>1, ScreensInvariant, PTL

\* A refresh brings the review with its event, and nothing that was shown is lost
\* (refreshTimeline, loadDetail).
THEOREM RefreshAdds == Spec => RefreshOnlyAdds
<1> DEFINE Grows == detail'.events >= detail.events
           Stays == Detail!DetailShown => Detail!DetailShown'
<1>1. DetailInv => Detail!DecisionHasItsEvent /\ Detail!RefreshBringsTheReview
  BY DEF DetailInv, ShownIsTrue, Detail!DecisionHasItsEvent, Detail!RefreshBringsTheReview
<1>2. DetailInv /\ [Next]_vars => [Grows]_(Detail!vars) /\ [Stays]_(Detail!vars)
  BY DetailSteps, DetailStep
<1>3. Spec => [][Grows]_(Detail!vars) /\ [][Stays]_(Detail!vars)
  BY <1>2, ScreensInvariant, PTL DEF Spec
<1>4. Spec => []Detail!DecisionHasItsEvent /\ []Detail!RefreshBringsTheReview
  BY <1>1, ScreensInvariant, PTL
<1>5. QED
  BY <1>3, <1>4 DEF RefreshOnlyAdds, Detail!RefreshOnlyAdds, Detail!TrailNeverShrinks,
                    Detail!DetailStays

\* The list says of which question its rows are, the last answer stays, and a wait of the
\* automation ends on its rows (RequestsContent, ListagemPage.waitForQuery).
THEOREM ListShows == Spec => ListShowsItsAnswers
<1> DEFINE Ends == listTest = "query" /\ listTest' = "reading" /\ addr # List!NoQuery
                     => listRows # None /\ listRows.query = addr
<1>1. ListInv => List!MarkNamesRows /\ List!LastAnswerStays
  BY DEF ListInv, List!MarkNamesRows, List!LastAnswerStays, List!Settled, List!Announced
<1>2. ListInv /\ [Next]_vars => [Ends]_(List!vars) BY ListSteps, WaitFindsItsRows
<1>3. Spec => [][Ends]_(List!vars) BY <1>2, ScreensInvariant, PTL DEF Spec
<1>4. Spec => []List!MarkNamesRows /\ []List!LastAnswerStays BY <1>1, ScreensInvariant, PTL
<1>5. QED
  BY <1>3, <1>4 DEF ListShowsItsAnswers, List!ListShowsItsAnswers, List!WaitEndsOnItsRows
=============================================================================
