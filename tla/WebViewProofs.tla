--------------------------- MODULE WebViewProofs ---------------------------
(***************************************************************************)
(* That the view listens to the right worker, and that a worker waits for  *)
(* no answer that cannot come: for any number of pages, entries, requests  *)
(* and fetch tasks, whatever the user does.                                *)
(***************************************************************************)
EXTENDS WebView, SequenceTheorems, FunctionTheorems, FiniteSetTheorems, TLAPS

Entry == [url : Url, document : Url \cup {NoUrl}]
Worker == [pc : Places, url : Url \cup {NoUrl}, kind : Kinds, to : Url \cup {NoUrl},
           todo : Nat, missing : Int]

(* What the proof needs of the types.                                      *)
ViewType ==
    /\ entries \in Seq(Entry) /\ pos \in 0 .. Len(entries)
    /\ document \in Url \cup {NoUrl}
    /\ requestId \in Nat /\ cancelChannel \in Nat
    /\ redirectCount \in Nat
    /\ cancels \subseteq Request
    /\ worker \in [Request -> Worker]
    /\ \A w \in Request : Loading(w) => worker[w].url \in Url
    /\ \A w \in Request : worker[w].kind = "redirect" => worker[w].to \in Url

(* Requests have numbers in the order they are made.                       *)
Numbered ==
    /\ \A w \in Request : requestId < w => worker[w] = NoWorker
    /\ \A w \in cancels : w <= requestId
    /\ cancelChannel <= requestId

(* The numbers suffice: only a request of the user is followed by          *)
(* redirects, and those are counted.                                       *)
Enough ==
    /\ requestId <= LastRequest + MAX_REDIRECTS + 2
    /\ \A w \in Request : w = requestId /\ Loading(w) =>
        requestId <= LastRequest + 1 + redirectCount /\ redirectCount <= MAX_REDIRECTS

(* The inductive invariant.                                                *)
ViewInv == ViewType /\ Numbered /\ Enough /\ LoadsTheCurrentEntry /\ CancelsTheRightWorker

Ended == [NoWorker EXCEPT !.pc = "ended"]

(* The two values a worker has before and after its life.                  *)
LEMMA NoWorkerType == NoWorker \in Worker /\ Ended \in Worker
BY DEF NoWorker, Ended, Worker, Places, Kinds

(* The numbers of the requests.                                            *)
LEMMA Numbers ==
    /\ LastRequest \in Nat /\ LastRequest > 0 /\ MAX_REDIRECTS \in Nat
    /\ \A w \in Request : w \in Nat /\ w > 0
    /\ \A n \in Nat : n > 0 /\ n <= LastRequest + MAX_REDIRECTS + 2 => n \in Request
BY WebViewAssumption DEF Request

(* The invariant at the start.                                             *)
LEMMA ViewInit == Init => ViewInv
<1> SUFFICES ASSUME Init PROVE ViewInv OBVIOUS
<1>1. entries = <<>> /\ entries \in Seq(Entry) /\ Len(entries) = 0 BY DEF Init
<1>2. \A w \in Request : worker[w] = NoWorker /\ ~Loading(w)
  BY DEF Init, Loading, NoWorker
<1>3. ViewType BY <1>1, <1>2, NoWorkerType DEF Init, ViewType, NoRequest, NoWorker
<1>4. Numbered BY <1>2 DEF Init, Numbered, NoRequest
<1>5. Enough BY <1>2, WebViewAssumption DEF Init, Enough, NoRequest
<1> QED BY <1>2, <1>3, <1>4, <1>5 DEF Init, ViewInv, LoadsTheCurrentEntry, CancelsTheRightWorker

-----------------------------------------------------------------------------
(* The history                                                             *)

(* A history with an entry replaced.                                       *)
LEMMA EntryReplaced ==
    ASSUME NEW s \in Seq(Entry), NEW p \in 1 .. Len(s), NEW e \in Entry
    PROVE  /\ [s EXCEPT ![p] = e] \in Seq(Entry) /\ Len([s EXCEPT ![p] = e]) = Len(s)
           /\ [s EXCEPT ![p] = e][p] = e
           /\ \A q \in 1 .. Len(s) : q # p => [s EXCEPT ![p] = e][q] = s[q]
BY ExceptSeq

(* A history with the document of an entry replaced.                       *)
LEMMA DocumentReplaced ==
    ASSUME NEW s \in Seq(Entry), NEW p \in 1 .. Len(s), NEW d \in Url \cup {NoUrl}
    PROVE  /\ [s EXCEPT ![p].document = d] \in Seq(Entry)
           /\ Len([s EXCEPT ![p].document = d]) = Len(s)
           /\ \A q \in 1 .. Len(s) : [s EXCEPT ![p].document = d][q].url = s[q].url
<1> DEFINE e == [s[p] EXCEPT !.document = d]
<1>1. s[p] \in Entry BY ElementOfSeq
<1>2. e \in Entry /\ e.url = s[p].url BY <1>1 DEF Entry
<1>3. [s EXCEPT ![p].document = d] = [s EXCEPT ![p] = e] OBVIOUS
<1> HIDE DEF e
<1> QED BY <1>2, <1>3, EntryReplaced

(* History.update: the same entries, with what the view shows in the       *)
(* current one.                                                            *)
LEMMA HistoryUpdated ==
    ASSUME ViewType
    PROVE  /\ Updated \in Seq(Entry) /\ Len(Updated) = Len(entries)
           /\ \A p \in 1 .. Len(entries) : Updated[p].url = entries[p].url
<1>1. CASE pos = 0 BY <1>1 DEF ViewType, Updated
<1>2. CASE pos # 0
  <2>1. pos \in 1 .. Len(entries) BY <1>2, LenProperties DEF ViewType
  <2>2. Updated = [entries EXCEPT ![pos].document = document] BY <1>2 DEF Updated
  <2> QED BY <2>1, <2>2, DocumentReplaced DEF ViewType
<1> QED BY <1>1, <1>2

(* History.add: the new entry comes after the current one, and is the      *)
(* last.                                                                   *)
LEMMA HistoryGrows ==
    ASSUME ViewType, NEW u \in Url, NEW shown \in Url \cup {NoUrl}
    PROVE  /\ Added(u, shown) \in Seq(Entry) /\ Len(Added(u, shown)) = pos + 1
           /\ Added(u, shown)[pos + 1].url = u
<1>0. pos \in Nat /\ pos <= Len(entries) BY LenProperties DEF ViewType
<1>1. /\ SubSeq(Updated, 1, pos) \in Seq(Entry) /\ Len(SubSeq(Updated, 1, pos)) = pos
  <2>1. pos \in 0 .. Len(Updated) BY HistoryUpdated DEF ViewType
  <2> QED BY <2>1, <1>0, HistoryUpdated, SubSeqProperties
<1>2. [url |-> u, document |-> shown] \in Entry BY DEF Entry
<1> QED BY <1>0, <1>1, <1>2, AppendProperties DEF Added

(* A history without its last entry.                                       *)
LEMMA HistoryShrinks ==
    ASSUME NEW s \in Seq(Entry), Len(s) > 0
    PROVE  Front(s) \in Seq(Entry) /\ Len(Front(s)) = Len(s) - 1
<1>1. Len(s) \in Nat BY LenProperties
<1> DEFINE n == Len(s) - 1
<1>2. n \in Nat /\ n <= Len(s) BY <1>1
<1>3. Front(s) = SubSeq(s, 1, n) BY DEF Front
<1> HIDE DEF n
<1>4. n \in 0 .. 1 + Len(s) BY <1>1, <1>2
<1>5. SubSeq(s, 1, n) \in Seq(Entry) /\ Len(SubSeq(s, 1, n)) = n
  BY <1>1, <1>2, <1>4, SubSeqProperties
<1> QED BY <1>3, <1>5 DEF n

-----------------------------------------------------------------------------
(* What the view can do to the request it listens to                       *)

(* Other workers than the one at hand stay, or have reported and end.      *)
LEMMA LoadKeeps ==
    ASSUME ViewInv, NEW ws \in [Request -> Worker], NEW n \in Request, NEW u \in Url,
           requestId < n, Load(ws, n, u),
           \A w \in Request : ws[w] = worker[w] \/ (w <= requestId /\ ws[w] = Ended),
           entries' \in Seq(Entry), pos' \in 1 .. Len(entries'), entries'[pos'].url = u,
           document' \in Url \cup {NoUrl}, redirectCount' \in 0 .. MAX_REDIRECTS,
           n <= LastRequest + 1 + redirectCount'
    PROVE  ViewInv'
<1> DEFINE new == [NoWorker EXCEPT !.pc = "connect", !.url = u]
<1>1. new \in Worker /\ new.pc = "connect" /\ new.url = u /\ new.kind = "none"
  <2>1. new \in Worker BY NoWorkerType DEF Worker, Places
  <2>2. new.pc = "connect" /\ new.url = u /\ new.kind = "none" BY DEF NoWorker
  <2> QED BY <2>1, <2>2
<1> HIDE DEF new
<1>2. /\ worker' \in [Request -> Worker] /\ worker'[n] = new
      /\ \A w \in Request \ {n} : worker'[w] = ws[w]
      /\ requestId' = n /\ cancelChannel' = n
  <2>1. worker' = [ws EXCEPT ![n] = new] BY DEF Load, new
  <2> QED BY <1>1, <2>1 DEF Load
<1>n. n \in Nat \ {0} /\ requestId \in Nat /\ \A w \in Request : w \in Nat
  BY SMTT(40), Numbers DEF ViewInv, ViewType
<1>3. cancels' \subseteq Request /\ \A w \in cancels' : w < n
  <2>1. \A w \in cancels : w \in Request /\ w <= requestId BY DEF ViewInv, ViewType, Numbered
  <2>2. cancelChannel \in Nat /\ cancelChannel <= requestId BY DEF ViewInv, ViewType, Numbered
  <2>3. \A w \in cancels' : w \in cancels \/ (w = cancelChannel /\ w \in Request)
    BY DEF Load, SendCancel
  <2>4. ASSUME NEW w \in cancels' PROVE w \in Request /\ w <= requestId
    BY <2>1, <2>2, <2>3
  <2> QED BY <2>4, <1>n
<1>4. \A w \in Request \ {n} : worker'[w] = worker[w] \/ (w <= requestId /\ worker'[w] = Ended)
  BY <1>2
<1>5. ASSUME NEW w \in Request
      PROVE  /\ Loading(w)' => worker'[w].url \in Url
             /\ worker'[w].kind = "redirect" => worker'[w].to \in Url
  <2>1. CASE w = n BY <2>1, <1>1, <1>2
  <2>2. CASE w # n /\ worker'[w] = worker[w] BY <2>2 DEF ViewInv, ViewType, Loading
  <2>3. CASE worker'[w] = Ended BY <2>3 DEF Ended, NoWorker, Loading
  <2> QED BY <2>1, <2>2, <2>3, <1>4
<1>6. ViewType'
  <2>1. pos' \in 0 .. Len(entries)' /\ redirectCount' \in Nat BY LenProperties, Numbers
  <2> QED BY <2>1, <1>2, <1>3, <1>5, <1>n DEF ViewType
<1>7. Numbered'
  <2>1. ASSUME NEW w \in Request, n < w PROVE worker'[w] = NoWorker
    <3>1. w # n /\ requestId < w /\ ~(w <= requestId) BY <2>1, <1>n
    <3> QED BY <3>1, <1>4 DEF ViewInv, Numbered
  <2> QED BY <1>2, <1>3, <1>n, <2>1 DEF Numbered
<1>8. Enough'
  <2>1. n <= LastRequest + MAX_REDIRECTS + 2 BY WebViewAssumption DEF Request
  <2>2. redirectCount' \in Nat /\ redirectCount' <= MAX_REDIRECTS BY Numbers
  <2> QED BY <2>1, <2>2, <1>2, <1>n DEF Enough
<1>9. LoadsTheCurrentEntry'
  <2>1. DOMAIN entries' = 1 .. Len(entries') BY LenProperties
  <2> QED BY <1>1, <1>2, <2>1 DEF LoadsTheCurrentEntry
<1>10. CancelsTheRightWorker'
  <2>1. n \notin cancels' BY <1>3, <1>n
  <2> QED BY <1>1, <1>2, <2>1 DEF CancelsTheRightWorker
<1> QED BY <1>6, <1>7, <1>8, <1>9, <1>10 DEF ViewInv

(* A number of its own for what is no request: nothing is listened to.     *)
LEMMA NothingCurrent ==
    ASSUME ViewInv, requestId' = requestId + 1,
           requestId < LastRequest + MAX_REDIRECTS + 2,
           worker' \in [Request -> Worker],
           \A w \in Request : worker'[w] = worker[w] \/ (w <= requestId /\ worker'[w] = Ended),
           cancels' \subseteq Request, \A w \in cancels' : w <= requestId,
           cancelChannel' \in Nat, cancelChannel' <= requestId, cancelChannel' \notin cancels',
           entries' \in Seq(Entry), pos' \in 0 .. Len(entries'),
           document' \in Url \cup {NoUrl}, redirectCount' \in Nat
    PROVE  ViewInv'
<1>n. requestId \in Nat /\ \A w \in Request : w \in Nat BY Numbers DEF ViewInv, ViewType
<1>1. ASSUME NEW w \in Request
      PROVE  /\ Loading(w)' => worker'[w].url \in Url
             /\ worker'[w].kind = "redirect" => worker'[w].to \in Url
  <2>1. CASE worker'[w] = worker[w] BY <2>1 DEF ViewInv, ViewType, Loading
  <2>2. CASE worker'[w] = Ended BY <2>2 DEF Ended, NoWorker, Loading
  <2> QED BY <2>1, <2>2
<1>2. ASSUME NEW w \in Request, requestId < w
      PROVE  worker'[w] = NoWorker /\ ~Loading(w)'
  <2>1. ~(w <= requestId) BY <1>2, <1>n
  <2>2. worker'[w] = NoWorker BY <2>1, <1>2 DEF ViewInv, Numbered
  <2> QED BY <2>2 DEF Loading, NoWorker
<1>3. ViewType' BY <1>1, <1>n DEF ViewType
<1>4. Numbered' BY <1>2, <1>n DEF Numbered
<1>5. \A w \in Request : w = requestId' => ~Loading(w)' BY <1>2, <1>n
<1>6. Enough'
  <2>1. requestId' <= LastRequest + MAX_REDIRECTS + 2 BY <1>n, Numbers
  <2> QED BY <2>1, <1>5 DEF Enough
<1>7. LoadsTheCurrentEntry' BY <1>5 DEF LoadsTheCurrentEntry
<1>8. CancelsTheRightWorker' BY <1>5 DEF CancelsTheRightWorker
<1> QED BY <1>3, <1>4, <1>6, <1>7, <1>8 DEF ViewInv

(* A cancel takes a number, so that the request it cancels has an older    *)
(* one; nothing more is to be cancelled then.                              *)
LEMMA CancelTakesANumber ==
    ASSUME ViewInv, Cancel
    PROVE  /\ requestId' = requestId + 1
           /\ cancels' \subseteq Request /\ \A w \in cancels' : w <= requestId
           /\ cancelChannel' = 0 /\ cancelChannel' <= requestId /\ cancelChannel' \notin cancels'
<1>1. requestId' = requestId + 1 /\ cancelChannel' = 0 BY DEF Cancel, NoRequest
<1>2. \A w \in cancels' : w \in cancels \/ (w = cancelChannel /\ w \in Request)
  BY DEF Cancel, SendCancel
<1>3. cancels' \subseteq Request /\ \A w \in cancels' : w <= requestId
  BY <1>2 DEF ViewInv, ViewType, Numbered
<1>4. 0 \notin cancels' /\ 0 <= requestId BY <1>3, Numbers DEF ViewInv, ViewType
<1> QED BY <1>1, <1>3, <1>4

-----------------------------------------------------------------------------
(* The user                                                                *)

LEMMA OpenUrlKeeps == ASSUME ViewInv, NEW u \in Url, OpenUrl(u) PROVE ViewInv'
<1> DEFINE n == requestId + 1
<1>1. ViewType /\ requestId \in Nat /\ requestId < LastRequest
  BY Numbers DEF OpenUrl, Busy, ViewInv, ViewType
<1>2. n \in Request /\ requestId < n /\ n <= LastRequest + 1 + 0 BY <1>1, Numbers
<1>3. PICK h : h = Added(u, NoUrl) OBVIOUS
<1>4. h \in Seq(Entry) /\ Len(h) = pos + 1 /\ h[pos + 1].url = u BY <1>1, <1>3, HistoryGrows
<1>5. entries' = h /\ pos' = pos + 1 /\ redirectCount' = 0 /\ document' = document
  BY <1>3 DEF OpenUrl
<1>6. pos \in Nat BY <1>1, LenProperties DEF ViewType
<1>7. pos' \in 1 .. Len(entries') /\ entries'[pos'].url = u /\ redirectCount' \in 0 .. MAX_REDIRECTS
  BY <1>4, <1>5, <1>6, Numbers
<1>8. worker \in [Request -> Worker] /\ document' \in Url \cup {NoUrl}
  BY <1>1, <1>5 DEF ViewType
<1>9. Load(worker, n, u) BY DEF OpenUrl
<1> HIDE DEF n
<1> QED BY <1>2, <1>4, <1>5, <1>7, <1>8, <1>9, LoadKeeps

LEMMA OpenImageKeeps == ASSUME ViewInv, NEW u \in Url, OpenImage(u) PROVE ViewInv'
<1>1. ViewType /\ requestId \in Nat /\ requestId < LastRequest
  BY Numbers DEF OpenImage, Busy, ViewInv, ViewType
<1>2. requestId' = requestId + 1 /\ requestId < LastRequest + MAX_REDIRECTS + 2
  BY <1>1, Numbers DEF OpenImage
<1>3. PICK h : h = Added(u, u) OBVIOUS
<1>4. h \in Seq(Entry) /\ Len(h) = pos + 1 BY <1>1, <1>3, HistoryGrows
<1>5. entries' = h /\ pos' = pos + 1 /\ document' = u BY <1>3 DEF OpenImage
<1>6. pos \in Nat BY <1>1, LenProperties DEF ViewType
<1>7. entries' \in Seq(Entry) /\ pos' \in 0 .. Len(entries') BY <1>4, <1>5, <1>6
<1>8. /\ worker' = worker /\ cancels' = cancels /\ cancelChannel' = cancelChannel
      /\ redirectCount' = redirectCount
  BY DEF OpenImage
<1>9. /\ worker \in [Request -> Worker] /\ cancels \subseteq Request
      /\ \A w \in cancels : w <= requestId
      /\ cancelChannel \in Nat /\ cancelChannel <= requestId /\ cancelChannel \notin cancels
      /\ redirectCount \in Nat
  BY DEF ViewInv, ViewType, Numbered, CancelsTheRightWorker
<1> QED BY <1>2, <1>5, <1>7, <1>8, <1>9, NothingCurrent

LEMMA GoToKeeps == ASSUME ViewInv, NEW p \in Int, GoTo(p) PROVE ViewInv'
<1>1. ViewType /\ requestId \in Nat
  BY DEF ViewInv, ViewType
<1>2. PICK h : h = Updated OBVIOUS
<1>3. /\ h \in Seq(Entry) /\ Len(h) = Len(entries)
      /\ \A q \in 1 .. Len(entries) : h[q].url = entries[q].url
  BY <1>1, <1>2, HistoryUpdated
<1>4. p \in 1 .. Len(entries) /\ entries \in Seq(Entry) BY <1>1, LenProperties DEF GoTo, ViewType
<1>5. entries' = h /\ pos' = p BY <1>2 DEF GoTo
<1>6. entries[p] \in Entry BY <1>4, ElementOfSeq
<1>7. CASE entries[p].document # NoUrl
  <2>1. /\ Cancel /\ document' = entries[p].document
        /\ redirectCount' = redirectCount /\ worker' = worker
    BY <1>7 DEF GoTo
  <2>2. entries' \in Seq(Entry) /\ pos' \in 0 .. Len(entries') BY <1>3, <1>4, <1>5
  <2>3. /\ worker \in [Request -> Worker] /\ redirectCount \in Nat
        /\ entries[p].document \in Url \cup {NoUrl}
    BY <1>1, <1>6 DEF ViewType, Entry
  <2>4. requestId < LastRequest + MAX_REDIRECTS + 2 BY <1>1, <1>7, Numbers DEF GoTo
  <2> QED BY <2>1, <2>2, <2>3, <2>4, CancelTakesANumber, NothingCurrent
<1>8. CASE entries[p].document = NoUrl
  <2> DEFINE n == requestId + 2
  <2>1. /\ Load(worker, n, entries[p].url) /\ document' = document /\ redirectCount' = 0
    BY <1>8 DEF GoTo
  <2>2. n \in Request /\ requestId < n /\ n <= LastRequest + 1 + 0
    BY <1>1, <1>8, Numbers DEF GoTo, Busy
  <2>3. /\ worker \in [Request -> Worker] /\ document \in Url \cup {NoUrl}
        /\ entries[p].url \in Url
    BY <1>1, <1>6 DEF ViewType, Entry
  <2>4. /\ entries' \in Seq(Entry) /\ pos' \in 1 .. Len(entries')
        /\ entries'[pos'].url = entries[p].url /\ redirectCount' \in 0 .. MAX_REDIRECTS
    BY <1>3, <1>4, <1>5, <2>1, Numbers
  <2> HIDE DEF n
  <2> QED BY <2>1, <2>2, <2>3, <2>4, LoadKeeps
<1> QED BY <1>7, <1>8

LEMMA ReloadKeeps == ASSUME ViewInv, Reload PROVE ViewInv'
<1> DEFINE n == requestId + 1
           u == entries[pos].url
<1>1. ViewType /\ requestId \in Nat /\ requestId < LastRequest
  BY Numbers DEF Reload, Busy, ViewInv, ViewType
<1>2. n \in Request /\ requestId < n /\ n <= LastRequest + 1 + 0 BY <1>1, Numbers
<1>3. pos \in 1 .. Len(entries) /\ entries \in Seq(Entry)
  BY <1>1, LenProperties DEF Reload, ViewType
<1>4. entries[pos] \in Entry BY <1>3, ElementOfSeq
<1>5. u \in Url BY <1>4 DEF Entry
<1>6. /\ Load(worker, n, u) /\ entries' = entries /\ pos' = pos /\ document' = document
      /\ redirectCount' = 0
  BY DEF Reload
<1>7. /\ entries' \in Seq(Entry) /\ pos' \in 1 .. Len(entries') /\ entries'[pos'].url = u
      /\ redirectCount' \in 0 .. MAX_REDIRECTS
  BY <1>3, <1>6, Numbers
<1>8. worker \in [Request -> Worker] /\ document \in Url \cup {NoUrl} BY <1>1 DEF ViewType
<1> HIDE DEF n, u
<1> QED BY <1>2, <1>5, <1>6, <1>7, <1>8, LoadKeeps

(* Stopping, by the user or after an error of the request w.               *)
LEMMA StopLoadingKeeps ==
    ASSUME ViewInv, StopLoading, UNCHANGED <<document, redirectCount>>,
           requestId < LastRequest + MAX_REDIRECTS + 2,
           worker' \in [Request -> Worker],
           \A w \in Request : worker'[w] = worker[w] \/ (w <= requestId /\ worker'[w] = Ended)
    PROVE  ViewInv'
<1>1. Cancel BY DEF StopLoading
<1>2. /\ entries \in Seq(Entry) /\ pos \in 0 .. Len(entries) /\ Len(entries) \in Nat
      /\ document \in Url \cup {NoUrl} /\ redirectCount \in Nat
  BY LenProperties DEF ViewInv, ViewType
<1>3. entries' \in Seq(Entry) /\ pos' \in 0 .. Len(entries')
  <2>1. CASE UNCHANGED <<entries, pos>> BY <2>1, <1>2
  <2>2. CASE pos > 0 /\ pos = Len(entries) /\ entries' = Front(entries) /\ pos' = pos - 1
    <3>1. PICK f : f = Front(entries) OBVIOUS
    <3>2. f \in Seq(Entry) /\ Len(f) = pos - 1 BY <3>1, <2>2, <1>2, HistoryShrinks
    <3> QED BY <3>1, <3>2, <2>2, <1>2
  <2> QED BY <2>1, <2>2 DEF StopLoading
<1> QED BY <1>1, <1>2, <1>3, CancelTakesANumber, NothingCurrent

LEMMA UserKeeps == ASSUME ViewInv, User PROVE ViewInv'
<1>1. CASE \E u \in Url : OpenUrl(u) \/ OpenImage(u) BY <1>1, OpenUrlKeeps, OpenImageKeeps
<1>2. CASE Back \/ Forward
  <2>1. pos - 1 \in Int /\ pos + 1 \in Int BY LenProperties DEF ViewInv, ViewType
  <2> QED BY <1>2, <2>1, GoToKeeps DEF Back, Forward
<1>3. CASE Reload BY <1>3, ReloadKeeps
<1>4. CASE Stop
  <2>1. requestId < LastRequest + MAX_REDIRECTS + 2
    BY <1>4, Numbers DEF Stop, Busy, ViewInv, ViewType
  <2>2. worker' = worker /\ worker \in [Request -> Worker]
    BY <1>4 DEF Stop, ViewInv, ViewType
  <2> QED BY <1>4, <2>1, <2>2, StopLoadingKeeps DEF Stop
<1> QED BY <1>1, <1>2, <1>3, <1>4 DEF User

-----------------------------------------------------------------------------
(* The reports of the workers                                              *)

(* What is known of a worker that has reported, and of the others when it  *)
(* ends.                                                                   *)
LEMMA WorkerEnds ==
    ASSUME ViewInv, NEW w \in Request, worker[w].pc = "reported"
    PROVE  /\ Done(w) \in [Request -> Worker] /\ Done(w)[w] = Ended
           /\ \A v \in Request : v # w => Done(w)[v] = worker[v]
           /\ w <= requestId /\ w \in Nat /\ requestId \in Nat
           /\ Loading(w) /\ worker[w].url \in Url
           /\ worker[w].kind = "redirect" => worker[w].to \in Url
<1>1. worker \in [Request -> Worker] BY DEF ViewInv, ViewType
<1>2. Done(w) = [worker EXCEPT ![w] = Ended] BY DEF Done, Ended
<1>3. Done(w) \in [Request -> Worker] /\ Done(w)[w] = Ended
      /\ \A v \in Request : v # w => Done(w)[v] = worker[v]
  BY <1>1, <1>2, NoWorkerType
<1>4. Loading(w) BY DEF Loading
<1>5. w <= requestId /\ w \in Nat /\ requestId \in Nat
  <2>1. worker[w] # NoWorker BY DEF NoWorker
  <2> QED BY <2>1, Numbers DEF ViewInv, ViewType, Numbered
<1> QED BY <1>3, <1>4, <1>5 DEF ViewInv, ViewType

(* A report that is dropped, or ends the request it is of.                 *)
LEMMA ReportTaken ==
    ASSUME ViewInv, NEW w \in Request, worker[w].pc = "reported", worker' = Done(w),
           UNCHANGED <<requestId, cancelChannel, cancels, pos>>,
           entries' \in Seq(Entry), Len(entries') = Len(entries),
           document' \in Url \cup {NoUrl}, redirectCount' \in Nat,
           w # requestId => UNCHANGED <<entries, redirectCount>>
    PROVE  ViewInv'
<1>1. /\ worker' \in [Request -> Worker] /\ worker'[w] = Ended /\ ~Loading(w)'
      /\ \A v \in Request : v # w => worker'[v] = worker[v]
      /\ w <= requestId /\ w \in Nat /\ requestId \in Nat
  <2>1. ~Loading(w)' BY WorkerEnds DEF Loading, Ended, NoWorker
  <2> QED BY <2>1, WorkerEnds
<1>2. ASSUME NEW v \in Request
      PROVE  /\ Loading(v)' => worker'[v].url \in Url
             /\ worker'[v].kind = "redirect" => worker'[v].to \in Url
  <2>1. CASE v = w BY <2>1, <1>1 DEF Ended, NoWorker
  <2>2. CASE v # w BY <2>2, <1>1 DEF ViewInv, ViewType, Loading
  <2> QED BY <2>1, <2>2
<1>3. ViewType' BY <1>1, <1>2 DEF ViewInv, ViewType
<1>4. Numbered'
  <2>1. ASSUME NEW v \in Request, requestId < v PROVE worker'[v] = NoWorker
    <3>1. v # w BY <2>1, <1>1
    <3> QED BY <3>1, <2>1, <1>1 DEF ViewInv, Numbered
  <2> QED BY <2>1 DEF ViewInv, Numbered
<1>5. CASE w = requestId
  <2>1. \A v \in Request : v = requestId' => ~Loading(v)' BY <1>5, <1>1
  <2> QED BY <2>1, <1>3, <1>4
       DEF ViewInv, Enough, LoadsTheCurrentEntry, CancelsTheRightWorker
<1>6. CASE w # requestId
  <2>1. \A v \in Request : v = requestId' => worker'[v] = worker[v] /\ (Loading(v)' <=> Loading(v))
    BY <1>6, <1>1 DEF Loading
  <2>2. Enough' BY <2>1, <1>6 DEF ViewInv, Enough
  <2>3. LoadsTheCurrentEntry' BY <2>1, <1>6 DEF ViewInv, LoadsTheCurrentEntry
  <2>4. CancelsTheRightWorker' BY <2>1, <1>6 DEF ViewInv, CancelsTheRightWorker
  <2> QED BY <1>3, <1>4, <2>2, <2>3, <2>4 DEF ViewInv
<1> QED BY <1>5, <1>6

(* The view stands on an entry while it listens to a worker.               *)
LEMMA StandsOnAnEntry ==
    ASSUME ViewInv, requestId \in Request, Loading(requestId)
    PROVE  pos \in 1 .. Len(entries) /\ entries \in Seq(Entry)
<1>1. entries \in Seq(Entry) BY DEF ViewInv, ViewType
<1>2. DOMAIN entries = 1 .. Len(entries) BY <1>1, LenProperties
<1> QED BY <1>1, <1>2 DEF ViewInv, LoadsTheCurrentEntry

LEMMA ShowKeeps ==
    ASSUME ViewInv, requestId \in Request, worker[requestId].pc = "reported", Show(requestId)
    PROVE  ViewInv'
<1> DEFINE u == worker[requestId].url
<1>1. Loading(requestId) /\ u \in Url BY WorkerEnds
<1>2. pos \in 1 .. Len(entries) /\ entries \in Seq(Entry) BY <1>1, StandsOnAnEntry
<1>3. entries' = [entries EXCEPT ![pos].document = u] /\ document' = u BY DEF Show
<1>4. entries' \in Seq(Entry) /\ Len(entries') = Len(entries)
  BY <1>1, <1>2, <1>3, DocumentReplaced
<1>5. /\ worker' = Done(requestId) /\ UNCHANGED <<requestId, cancelChannel, cancels, pos>>
      /\ redirectCount' = redirectCount
  BY DEF Show
<1>6. redirectCount \in Nat BY DEF ViewInv, ViewType
<1> QED BY <1>1, <1>3, <1>4, <1>5, <1>6, ReportTaken

LEMMA RedirectKeeps ==
    ASSUME ViewInv, requestId \in Request, worker[requestId].pc = "reported",
           Redirect(requestId)
    PROVE  ViewInv'
<1> DEFINE u == worker[requestId].to
           e == [url |-> u, document |-> NoUrl]
           n == requestId + 1
<1>1. Loading(requestId) /\ u \in Url /\ requestId \in Nat BY WorkerEnds DEF Redirect
<1>2. pos \in 1 .. Len(entries) /\ entries \in Seq(Entry) BY <1>1, StandsOnAnEntry
<1>3. e \in Entry /\ e.url = u BY <1>1 DEF Entry
<1>4. /\ entries' = [entries EXCEPT ![pos] = e] /\ pos' = pos /\ document' = document
      /\ redirectCount' = redirectCount + 1
  BY DEF Redirect
<1>5. /\ redirectCount \in Nat /\ document \in Url \cup {NoUrl}
      /\ requestId <= LastRequest + 1 + redirectCount
  BY <1>1 DEF ViewInv, ViewType, Enough
<1> HIDE DEF e
<1>6. entries' \in Seq(Entry) /\ Len(entries') = Len(entries) /\ entries'[pos] = e
  BY <1>2, <1>3, <1>4, EntryReplaced
<1>7. CASE redirectCount < MAX_REDIRECTS /\ Load(Done(requestId), n, u)
  <2>1. n \in Request /\ requestId < n /\ n <= LastRequest + 1 + redirectCount'
    BY <1>1, <1>4, <1>5, <1>7, Numbers
  <2>2. redirectCount' \in 0 .. MAX_REDIRECTS BY <1>4, <1>5, <1>7, Numbers
  <2>3. /\ Done(requestId) \in [Request -> Worker]
        /\ \A v \in Request : Done(requestId)[v] = worker[v]
                              \/ (v <= requestId /\ Done(requestId)[v] = Ended)
    BY WorkerEnds
  <2>4. /\ pos' \in 1 .. Len(entries') /\ entries'[pos'].url = u
        /\ document' \in Url \cup {NoUrl}
    BY <1>2, <1>3, <1>4, <1>5, <1>6
  <2> HIDE DEF n, u
  <2> QED BY <1>1, <1>6, <1>7, <2>1, <2>2, <2>3, <2>4, LoadKeeps
<1>8. CASE worker' = Done(requestId) /\ UNCHANGED <<requestId, cancelChannel, cancels>>
  <2>1. redirectCount' \in Nat /\ document' \in Url \cup {NoUrl} BY <1>4, <1>5
  <2> QED BY <1>4, <1>6, <1>8, <2>1, ReportTaken
<1> QED BY <1>7, <1>8 DEF Redirect

LEMMA HandleKeeps == ASSUME ViewInv, NEW w \in Request, Handle(w) PROVE ViewInv'
<1>1. worker[w].pc = "reported" BY DEF Handle
<1>2. CASE Drop(w)
  <2>1. /\ entries \in Seq(Entry) /\ document \in Url \cup {NoUrl} /\ redirectCount \in Nat
    BY DEF ViewInv, ViewType
  <2>2. /\ worker' = Done(w) /\ UNCHANGED <<requestId, cancelChannel, cancels, pos>>
        /\ UNCHANGED <<entries, document, redirectCount>>
    BY <1>2 DEF Drop, viewVars
  <2> QED BY <1>1, <2>1, <2>2, ReportTaken
<1>3. CASE w = requestId /\ Show(w) BY <1>1, <1>3, ShowKeeps
<1>4. CASE w = requestId /\ Redirect(w) BY <1>1, <1>4, RedirectKeeps
<1>5. CASE w = requestId /\ Fail(w)
  <2>1. requestId < LastRequest + MAX_REDIRECTS + 2
    BY <1>1, <1>5, WorkerEnds, Numbers DEF ViewInv, ViewType, Enough
  <2>2. /\ worker' \in [Request -> Worker]
        /\ \A v \in Request : worker'[v] = worker[v] \/ (v <= requestId /\ worker'[v] = Ended)
    BY <1>1, <1>5, WorkerEnds DEF Fail
  <2> QED BY <1>5, <2>1, <2>2, StopLoadingKeeps DEF Fail
<1> QED BY <1>2, <1>3, <1>4, <1>5 DEF Handle

-----------------------------------------------------------------------------
(* The workers                                                             *)

(* What a worker makes of itself: only a worker with the message of the    *)
(* view reports that it was cancelled.                                     *)
Continues(w, c) ==
    /\ c \in Worker /\ c.url = worker[w].url
    /\ c.kind = "redirect" => c.to \in Url
    /\ c.kind = "cancelled" => w \in cancels \/ worker[w].kind = "cancelled"

(* A worker that goes on, with nothing changed in the view, keeps the      *)
(* invariant.                                                              *)
LEMMA WorkerGoesOn ==
    ASSUME ViewInv, NEW w \in Request, Loading(w), UNCHANGED viewVars, cancels' \subseteq cancels,
           NEW c, Continues(w, c), worker' = [worker EXCEPT ![w] = c]
    PROVE  ViewInv'
<1>1. /\ worker' \in [Request -> Worker] /\ worker'[w] = c
      /\ \A v \in Request : v # w => worker'[v] = worker[v]
  BY DEF ViewInv, ViewType, Continues
<1>2. worker[w] # NoWorker BY DEF Loading, NoWorker
<1>3. UNCHANGED <<entries, pos, reloading, document, requestId, cancelChannel, redirectCount>>
  BY DEF viewVars
<1>4. c.url \in Url BY DEF Continues, ViewInv, ViewType
<1>5. ASSUME NEW v \in Request
      PROVE  /\ Loading(v)' => worker'[v].url \in Url
             /\ worker'[v].kind = "redirect" => worker'[v].to \in Url
  <2>1. CASE v = w BY <2>1, <1>1, <1>4 DEF Continues
  <2>2. CASE v # w BY <2>2, <1>1 DEF ViewInv, ViewType, Loading
  <2> QED BY <2>1, <2>2
<1>6. ViewType' BY <1>1, <1>3, <1>5 DEF ViewInv, ViewType
<1>7. Numbered'
  <2>1. ASSUME NEW v \in Request, requestId < v PROVE worker'[v] = NoWorker
    <3>1. v # w BY <2>1, <1>2 DEF ViewInv, Numbered
    <3> QED BY <3>1, <2>1, <1>1 DEF ViewInv, Numbered
  <2> QED BY <2>1, <1>3 DEF ViewInv, Numbered
<1>8. ASSUME NEW v \in Request, v = requestId, Loading(v)'
      PROVE  Loading(v) /\ worker'[v].url = worker[v].url
  <2>1. CASE v = w BY <2>1, <1>1 DEF Continues
  <2>2. CASE v # w BY <2>2, <1>1, <1>8 DEF Loading
  <2> QED BY <2>1, <2>2
<1>9. Enough' BY <1>3, <1>8 DEF ViewInv, Enough
<1>10. LoadsTheCurrentEntry' BY <1>3, <1>8 DEF ViewInv, LoadsTheCurrentEntry
<1>11. CancelsTheRightWorker'
  <2>1. ASSUME NEW v \in Request, v = requestId, Loading(v)'
        PROVE  cancelChannel = v /\ worker'[v].kind # "cancelled"
    <3>1. cancelChannel = v /\ worker[v].kind # "cancelled" /\ v \notin cancels
      BY <2>1, <1>8 DEF ViewInv, CancelsTheRightWorker
    <3>2. CASE v = w BY <3>1, <3>2, <1>1 DEF Continues
    <3>3. CASE v # w BY <3>1, <3>3, <1>1
    <3> QED BY <3>1, <3>2, <3>3
  <2> QED BY <2>1, <1>3 DEF ViewInv, CancelsTheRightWorker
<1> QED BY <1>6, <1>7, <1>9, <1>10, <1>11 DEF ViewInv

(* The two ways a worker ends what it does.                                *)
LEMMA ReportContinues ==
    ASSUME ViewInv, NEW w \in Request, NEW kind \in Kinds, NEW u \in Url \cup {NoUrl},
           kind = "redirect" => u \in Url, kind = "cancelled" => w \in cancels, Report(w, kind, u)
    PROVE  \E c : Continues(w, c) /\ worker' = [worker EXCEPT ![w] = c]
<1> DEFINE c == [worker[w] EXCEPT !.pc = "reported", !.kind = kind, !.to = u, !.todo = 0, !.missing = 0]
<1>1. worker[w] \in Worker BY DEF ViewInv, ViewType
<1>2. c \in Worker /\ c.url = worker[w].url /\ c.kind = kind /\ c.to = u
  <2>1. PICK c1 \in Worker : c1 = [worker[w] EXCEPT !.pc = "reported", !.kind = kind]
    BY <1>1 DEF Worker, Places
  <2>2. c1.url = worker[w].url /\ c1.kind = kind BY <1>1, <2>1 DEF Worker
  <2>3. PICK c2 \in Worker : c2 = [c1 EXCEPT !.to = u, !.todo = 0] BY DEF Worker
  <2>4. c2.url = c1.url /\ c2.kind = c1.kind /\ c2.to = u BY <2>3 DEF Worker
  <2>5. PICK c3 \in Worker : c3 = [c2 EXCEPT !.missing = 0]
    <3>1. ASSUME NEW m \in Int PROVE \E d \in Worker : d = [c2 EXCEPT !.missing = m]
      BY DEF Worker
    <3>2. 0 \in Int OBVIOUS
    <3> QED BY <3>1, <3>2, Zenon
  <2>6. c3.url = c2.url /\ c3.kind = c2.kind /\ c3.to = c2.to BY <2>5 DEF Worker
  <2>7. c = c3 BY <2>1, <2>3, <2>5
  <2> QED BY <2>2, <2>4, <2>6, <2>7
<1>3. worker' = [worker EXCEPT ![w] = c] BY <1>1 DEF Report, ViewInv, ViewType
<1> HIDE DEF c
<1> QED BY <1>2, <1>3 DEF Continues

(* A worker that looks for a cancel goes on or reports that it was         *)
(* cancelled.                                                              *)
LEMMA UnlessCancelledContinues ==
    ASSUME ViewInv, NEW w \in Request, NEW c, Continues(w, c), UnlessCancelled(w, c)
    PROVE  /\ cancels' \subseteq cancels
           /\ \E d : Continues(w, d) /\ worker' = [worker EXCEPT ![w] = d]
<1>1. CASE w \in cancels
  <2>1. Report(w, "cancelled", NoUrl) /\ cancels' \subseteq cancels
    BY <1>1 DEF UnlessCancelled
  <2>2. "cancelled" \in Kinds /\ NoUrl \in Url \cup {NoUrl} BY DEF Kinds
  <2> QED BY <1>1, <2>1, <2>2, ReportContinues
<1>2. CASE w \notin cancels BY <1>2 DEF UnlessCancelled
<1> QED BY <1>1, <1>2

(* One that reports an error or a redirect goes on.                        *)
LEMMA TroubleContinues ==
    ASSUME ViewInv, NEW w \in Request, ReportTrouble(w)
    PROVE  \E c : Continues(w, c) /\ worker' = [worker EXCEPT ![w] = c]
<1>1. {"error", "redirect"} \subseteq Kinds BY DEF Kinds
<1> QED BY <1>1, ReportContinues DEF ReportTrouble

(* The steps of a worker that change nothing but its place and its sheets. *)
LEMMA Changes ==
    ASSUME ViewInv, NEW w \in Request, Loading(w)
    PROVE  /\ Continues(w, worker[w])
           /\ Continues(w, WithSheets(w))
           /\ \A p \in Places : Continues(w, [worker[w] EXCEPT !.pc = p])
           /\ worker[w].todo > 0 =>
                Continues(w, [worker[w] EXCEPT !.pc = "offer", !.todo = @ - 1, !.missing = @ + 1])
           /\ \A c \in Worker :
                Continues(w, c) => Continues(w, [c EXCEPT !.missing = @ - 1])
<1>1. /\ worker[w] \in Worker /\ worker[w].url \in Url
      /\ worker[w].kind = "redirect" => worker[w].to \in Url
  BY DEF ViewInv, ViewType
<1>2. SheetsOf[worker[w].url] \in Nat BY <1>1, WebViewAssumption
<1>3. Continues(w, worker[w]) BY <1>1 DEF Continues
<1>4. Continues(w, WithSheets(w)) BY <1>1, <1>2 DEF Continues, WithSheets, Worker, Places
<1>5. \A p \in Places : Continues(w, [worker[w] EXCEPT !.pc = p]) BY <1>1 DEF Continues, Worker
<1>6. ASSUME worker[w].todo > 0
      PROVE  Continues(w, [worker[w] EXCEPT !.pc = "offer", !.todo = @ - 1, !.missing = @ + 1])
  <2>1. worker[w].todo - 1 \in Nat /\ worker[w].missing + 1 \in Int BY <1>1, <1>6 DEF Worker
  <2>2. PICK c1 \in Worker : c1 = [worker[w] EXCEPT !.pc = "offer"] BY <1>1 DEF Worker, Places
  <2>3. PICK c2 \in Worker : c2 = [c1 EXCEPT !.todo = worker[w].todo - 1] BY <2>1 DEF Worker
  <2>4. PICK c3 \in Worker : c3 = [c2 EXCEPT !.missing = worker[w].missing + 1] BY <2>1 DEF Worker
  <2>5. Continues(w, c1) BY <2>2, <1>1 DEF Continues, Worker
  <2>6. Continues(w, c2) BY <2>3, <2>5 DEF Continues, Worker
  <2>7. Continues(w, c3) BY <2>4, <2>6 DEF Continues, Worker
  <2>8. c3 = [worker[w] EXCEPT !.pc = "offer", !.todo = @ - 1, !.missing = @ + 1]
    BY <2>2, <2>3, <2>4
  <2> QED BY <2>7, <2>8
<1>7. ASSUME NEW c \in Worker, Continues(w, c) PROVE Continues(w, [c EXCEPT !.missing = @ - 1])
  BY <1>7 DEF Continues, Worker
<1> QED BY <1>3, <1>4, <1>5, <1>6, <1>7

(* A worker that handles the answer of a fetch task keeps the invariant.   *)
LEMMA HandleFetchContinues ==
    ASSUME ViewInv, NEW w \in Request, Loading(w), NEW c, Continues(w, c), HandleFetch(w, c)
    PROVE  ViewInv'
<1>1. UNCHANGED viewVars BY DEF HandleFetch
<1>2. CASE UnlessCancelled(w, [c EXCEPT !.missing = @ - 1])
  <2>1. Continues(w, [c EXCEPT !.missing = @ - 1]) BY Changes DEF Continues
  <2> QED BY SMTT(40), <1>1, <1>2, <2>1, UnlessCancelledContinues, WorkerGoesOn
<1>3. CASE UnlessCancelled(w, c) BY <1>1, <1>3, UnlessCancelledContinues, WorkerGoesOn
<1> QED BY <1>2, <1>3 DEF HandleFetch

LEMMA WorkerKeeps == ASSUME ViewInv, NEW w \in Request, WorkerStep(w) PROVE ViewInv'
<1>1. Loading(w)
  BY DEF WorkerStep, Connect, Respond, RewriteFails, NextSheet, Offer, OfferAgain, WaitForSheets,
         Apply, At, Loading
<1>2. ASSUME UNCHANGED viewVars, cancels' \subseteq cancels,
             NEW c, Continues(w, c), worker' = [worker EXCEPT ![w] = c]
      PROVE  ViewInv'
  BY <1>1, <1>2, WorkerGoesOn
<1>3. CASE Connect(w)
  <2>1. UNCHANGED viewVars BY <1>3 DEF Connect
  <2>2. CASE ReportTrouble(w) /\ UNCHANGED cancels BY <2>1, <2>2, <1>2, TroubleContinues
  <2>3. CASE worker' = [worker EXCEPT ![w] = WithSheets(w)] /\ UNCHANGED cancels
    BY <2>1, <2>3, <1>1, <1>2, Changes
  <2>4. CASE UnlessCancelled(w, [worker[w] EXCEPT !.pc = "respond"])
    <3>1. Continues(w, [worker[w] EXCEPT !.pc = "respond"]) BY <1>1, Changes DEF Places
    <3> QED BY SMTT(40), <2>1, <2>4, <3>1, <1>2, UnlessCancelledContinues
  <2> QED BY <1>3, <2>2, <2>3, <2>4 DEF Connect
<1>4. CASE Respond(w)
  <2>1. UNCHANGED viewVars /\ UNCHANGED cancels BY <1>4 DEF Respond
  <2>2. CASE ReportTrouble(w) BY <2>1, <2>2, <1>2, TroubleContinues
  <2>3. CASE Report(w, "content", NoUrl)
    <3>1. "content" \in Kinds BY DEF Kinds
    <3> QED BY <2>1, <2>3, <3>1, <1>2, ReportContinues
  <2>4. CASE worker' = [worker EXCEPT ![w] = WithSheets(w)] BY <2>1, <2>4, <1>1, <1>2, Changes
  <2> QED BY <1>4, <2>2, <2>3, <2>4 DEF Respond
<1>5. CASE NextSheet(w) BY <1>5, <1>1, Changes, HandleFetchContinues DEF NextSheet
<1>6. CASE Offer(w)
  <2>1. UNCHANGED viewVars /\ UNCHANGED cancels BY <1>6 DEF Offer
  <2>2. worker' = [worker EXCEPT ![w] = [worker[w] EXCEPT !.pc = "sheets"]]
    BY <1>6 DEF Offer, ViewInv, ViewType
  <2>3. Continues(w, [worker[w] EXCEPT !.pc = "sheets"]) BY <1>1, Changes DEF Places
  <2> QED BY <2>1, <2>2, <2>3, <1>2
<1>7. CASE OfferAgain(w) BY <1>7, <1>1, Changes, HandleFetchContinues DEF OfferAgain
<1>8. CASE WaitForSheets(w) BY <1>8, <1>1, Changes, HandleFetchContinues DEF WaitForSheets
<1>9. CASE Apply(w)
  <2>1. UNCHANGED viewVars BY <1>9 DEF Apply
  <2>2. CASE \E kind \in {"content", "error"} : Report(w, kind, NoUrl) /\ UNCHANGED cancels
    <3>1. {"content", "error"} \subseteq Kinds BY DEF Kinds
    <3> QED BY <2>1, <2>2, <3>1, <1>2, ReportContinues
  <2>3. CASE UnlessCancelled(w, worker[w])
    BY <2>1, <2>3, <1>1, <1>2, Changes, UnlessCancelledContinues
  <2> QED BY <1>9, <2>2, <2>3 DEF Apply
<1>10. CASE RewriteFails(w)
  <2>1. UNCHANGED viewVars /\ UNCHANGED cancels BY <1>10 DEF RewriteFails
  <2>2. "error" \in Kinds BY DEF Kinds
  <2> QED BY <1>10, <2>1, <2>2, <1>2, ReportContinues DEF RewriteFails
<1> QED BY <1>3, <1>4, <1>5, <1>6, <1>7, <1>8, <1>9, <1>10 DEF WorkerStep

-----------------------------------------------------------------------------
(* Every step                                                              *)

LEMMA OthersKeep == ASSUME ViewInv, UNCHANGED <<viewVars, cancels, worker>> PROVE ViewInv'
<1>1. UNCHANGED <<entries, pos, reloading, document, requestId, cancelChannel, redirectCount>>
  BY DEF viewVars
<1>2. \A w \in Request : Loading(w)' <=> Loading(w) BY DEF Loading
<1> QED BY <1>1, <1>2
     DEF ViewInv, ViewType, Numbered, Enough, LoadsTheCurrentEntry, CancelsTheRightWorker

(* Every step keeps the invariant of the view.                             *)
LEMMA ViewStep == ViewInv /\ [Next]_vars => ViewInv'
<1> SUFFICES ASSUME ViewInv, [Next]_vars PROVE ViewInv' OBVIOUS
<1>1. CASE User BY <1>1, UserKeeps
<1>2. ASSUME NEW w \in Request, Handle(w) \/ WorkerStep(w) PROVE ViewInv'
  BY <1>2, HandleKeeps, WorkerKeeps
<1>3. ASSUME NEW t \in Task, TaskStep(t) PROVE ViewInv'
  BY <1>3, OthersKeep DEF TaskStep, Serve, Answer, GiveUp
<1>4. CASE UNCHANGED vars BY <1>4, OthersKeep DEF vars
<1> QED BY <1>1, <1>2, <1>3, <1>4 DEF Next

(* The invariant of the view holds always.                                 *)
LEMMA ViewIsSafe == Spec => []ViewInv
BY ViewInit, ViewStep, PTL DEF Spec

(* The request the view listens to is for the address it stands on.        *)
THEOREM ListensForItsEntry == Spec => []LoadsTheCurrentEntry
<1>1. ViewInv => LoadsTheCurrentEntry BY DEF ViewInv
<1> QED BY <1>1, ViewIsSafe, PTL

(* A cancel reaches the worker it is meant for and no other, and finds     *)
(* room in its channel.                                                    *)
THEOREM CancelsItsWorker == Spec => []CancelsTheRightWorker
<1>1. ViewInv => CancelsTheRightWorker BY DEF ViewInv
<1> QED BY <1>1, ViewIsSafe, PTL

-----------------------------------------------------------------------------
(* The answers a worker waits for                                          *)

(* What the proof needs of the types.                                      *)
FetchType ==
    /\ fetchQueue \in Seq(Request)
    /\ task \in [Task -> [pc : {"idle", "answer", "failure"}, for : Request \cup {NoRequest}]]
    /\ \A t \in Task : task[t].for \in Request <=> task[t].pc # "idle"
    /\ replies \in [Request -> Nat] /\ lost \in [Request -> Nat]

(* The requests of a worker, without the one it offers.                    *)
Times(q, w) == Cardinality({i \in DOMAIN q : q[i] = w})
Holders(f, w) == Cardinality({t \in Task : f[t].for = w})
Waiting(w) == Times(fetchQueue, w) + Holders(task, w) + replies[w] + lost[w]

(* A worker that has not come to the style sheets has requested nothing.   *)
Settled(w) ==
    /\ worker[w].pc \in {"none", "connect", "respond"} => worker[w].missing = 0 /\ Waiting(w) = 0
    /\ worker[w].pc = "sheets" => worker[w].missing = Waiting(w)
    /\ worker[w].pc = "offer" => worker[w].missing = Waiting(w) + 1

WaitInv == FetchType /\ \A w \in Request : Settled(w)

(* How often a request is in a queue, and what goes in and out.            *)
LEMMA Counts ==
    ASSUME NEW q \in Seq(Request), NEW w
    PROVE  /\ IsFiniteSet({i \in DOMAIN q : q[i] = w})
           /\ Times(q, w) \in Nat
<1>1. DOMAIN q = 1 .. Len(q) /\ Len(q) \in Int /\ 1 \in Int BY LenProperties
<1>2. IsFiniteSet(DOMAIN q) BY <1>1, FS_Interval
<1>3. {i \in DOMAIN q : q[i] = w} \in SUBSET DOMAIN q OBVIOUS
<1> QED BY <1>2, <1>3, FS_Subset, FS_CardinalityType DEF Times

(* One more of what is appended.                                           *)
LEMMA CountGrows ==
    ASSUME NEW q \in Seq(Request), NEW v \in Request, NEW w
    PROVE  /\ v = w => Times(Append(q, v), w) = Times(q, w) + 1
           /\ v # w => Times(Append(q, v), w) = Times(q, w)
<1> DEFINE S == {i \in DOMAIN q : q[i] = w}
           r == Append(q, v)
           T == {i \in DOMAIN r : r[i] = w}
           n == Len(q) + 1
<1>1. /\ DOMAIN q = 1 .. Len(q) /\ Len(q) \in Nat
      /\ r[n] = v /\ \A i \in 1 .. Len(q) : r[i] = q[i]
      /\ DOMAIN r = 1 .. n
  BY LenProperties, AppendProperties
<1>2. n \notin S BY <1>1
<1>3. IsFiniteSet(S) /\ Cardinality(S) \in Nat BY Counts DEF Times
<1>4. ASSUME v = w PROVE Cardinality(T) = Cardinality(S) + 1
  <2>1. T = S \cup {n} BY <1>1, <1>4
  <2> HIDE DEF S, T, n
  <2> QED BY <2>1, <1>2, <1>3, <1>4, FS_AddElement
<1>5. ASSUME v # w PROVE Cardinality(T) = Cardinality(S)
  <2>1. T = S BY <1>1, <1>5
  <2> HIDE DEF S, T
  <2> QED BY <2>1, <1>3, <1>5
<1>6. Times(q, w) = Cardinality(S) /\ Times(r, w) = Cardinality(T) BY DEF Times
<1> HIDE DEF S, T
<1> QED BY <1>4, <1>5, <1>6

(* One less of what is taken.                                              *)
LEMMA CountShrinks ==
    ASSUME NEW q \in Seq(Request), q # <<>>, NEW r, r = Tail(q), NEW w
    PROVE  /\ r \in Seq(Request) /\ Head(q) \in Request
           /\ Times(q, w) = Times(r, w) + IF Head(q) = w THEN 1 ELSE 0
<1> DEFINE S == {i \in DOMAIN q : q[i] = w}
           Rest == S \ {1}
           T == {i \in DOMAIN r : r[i] = w}
           f == [i \in T |-> i + 1]
<1>1. /\ DOMAIN q = 1 .. Len(q) /\ Len(q) \in Nat /\ Len(q) > 0 /\ Head(q) = q[1]
      /\ r \in Seq(Request) /\ DOMAIN r = 1 .. (Len(q) - 1) /\ Head(q) \in Request
      /\ \A i \in 1 .. (Len(q) - 1) : r[i] = q[i + 1]
  BY LenProperties, HeadTailProperties, EmptySeq
<1>2. /\ IsFiniteSet(S) /\ Cardinality(S) \in Nat /\ IsFiniteSet(T) /\ Cardinality(T) \in Nat
  BY <1>1, Counts DEF Times
<1>3. f \in Bijection(T, Rest)
  <2>1. \A i \in T : i \in Nat /\ i + 1 \in Rest BY <1>1
  <2>2. f \in [T -> Rest] BY <2>1
  <2>3. \A a, b \in T : f[a] = f[b] => a = b BY <2>1
  <2>4. \A k \in Rest : \E i \in T : f[i] = k
    <3> TAKE k \in Rest
    <3>1. k - 1 \in T BY <1>1
    <3>2. f[k - 1] = k BY <3>1, <1>1
    <3> QED BY <3>1, <3>2
  <2> QED BY <2>2, <2>3, <2>4, Fun_IsBij
<1>4. Cardinality(Rest) = Cardinality(T) BY <1>2, <1>3, FS_Bijection DEF ExistsBijection
<1>5. Cardinality(Rest) = IF 1 \in S THEN Cardinality(S) - 1 ELSE Cardinality(S)
  <2> HIDE DEF S
  <2> QED BY <1>2, FS_RemoveElement
<1>6. 1 \in S <=> Head(q) = w BY <1>1
<1> HIDE DEF S, T, Rest, f
<1>7. Cardinality(S) = Cardinality(T) + IF Head(q) = w THEN 1 ELSE 0 BY <1>2, <1>4, <1>5, <1>6
<1> QED BY <1>1, <1>7 DEF S, T, Times

(* A task that turns from one worker to another.                           *)
LEMMA HeldMoves ==
    ASSUME NEW f, NEW g, NEW t \in Task, \A s \in Task : s # t => g[s] = f[s],
           NEW old, old = f[t].for, NEW new, new = g[t].for, old # new, NEW w
    PROVE  /\ new = w => Holders(g, w) = Holders(f, w) + 1
           /\ old = w => Holders(g, w) = Holders(f, w) - 1
           /\ new # w /\ old # w => Holders(g, w) = Holders(f, w)
<1> DEFINE S == {s \in Task : f[s].for = w}
           T == {s \in Task : g[s].for = w}
<1>1. S \in SUBSET Task OBVIOUS
<1>2. IsFiniteSet(S) /\ Cardinality(S) \in Nat
  BY <1>1, WebViewAssumption, FS_Subset, FS_CardinalityType
<1>3. CASE new = w
  <2>1. T = S \cup {t} /\ t \notin S BY <1>3
  <2> HIDE DEF S, T
  <2>2. Cardinality(T) = Cardinality(S) + 1 BY <2>1, <1>2, FS_AddElement
  <2> QED BY <2>2, <1>2, <1>3 DEF S, T, Holders
<1>4. CASE new # w /\ old = w
  <2>1. T = S \ {t} /\ t \in S BY <1>4
  <2> HIDE DEF S, T
  <2>2. Cardinality(T) = Cardinality(S) - 1 BY <2>1, <1>2, FS_RemoveElement
  <2> QED BY <2>2, <1>2, <1>4 DEF S, T, Holders
<1>5. CASE new # w /\ old # w
  <2>1. T = S BY <1>5
  <2> QED BY <2>1, <1>2, <1>5 DEF Holders
<1> QED BY <1>3, <1>4, <1>5

-----------------------------------------------------------------------------

(* What is waited for is a number.                                         *)
LEMMA WaitingType == ASSUME FetchType, NEW w \in Request
    PROVE  Waiting(w) \in Nat /\ Times(fetchQueue, w) \in Nat /\ Holders(task, w) \in Nat
<1>1. Times(fetchQueue, w) \in Nat BY Counts DEF FetchType
<1>2. Holders(task, w) \in Nat
  <2>1. {t \in Task : task[t].for = w} \in SUBSET Task OBVIOUS
  <2> QED BY <2>1, WebViewAssumption, FS_Subset, FS_CardinalityType DEF Holders
<1> QED BY <1>1, <1>2 DEF FetchType, Waiting

(* The view and the workers that report, or stay where they are.           *)
LEMMA NothingAsked ==
    ASSUME WaitInv, UNCHANGED fetchVars,
           \A w \in Request :
               \/ worker'[w] = worker[w]
               \/ worker'[w].pc \in {"reported", "ended"}
               \/ /\ worker[w].pc \in {"none", "connect", "respond"} /\ worker'[w].missing = 0
                  /\ worker'[w].pc \in {"connect", "respond", "sheets"}
    PROVE  WaitInv'
<1>1. FetchType' BY DEF WaitInv, FetchType, fetchVars
<1>2. \A w \in Request : Waiting(w)' = Waiting(w) BY DEF fetchVars, Waiting
<1>3. ASSUME NEW w \in Request PROVE Settled(w)'
  BY <1>2 DEF WaitInv, Settled
<1> QED BY <1>1, <1>3 DEF WaitInv

(* A new load begins with a worker that has asked for nothing.             *)
LEMMA LoadAsksNothing ==
    ASSUME ViewInv, WaitInv, NEW ws \in [Request -> Worker], NEW n \in Request, NEW u,
           requestId < n, Load(ws, n, u), UNCHANGED fetchVars,
           \A w \in Request : ws[w] = worker[w] \/ ws[w] = Ended
    PROVE  WaitInv'
<1>1. worker' = [ws EXCEPT ![n] = [NoWorker EXCEPT !.pc = "connect", !.url = u]] BY DEF Load
<1>2. worker[n].pc = "none" BY DEF ViewInv, Numbered, NoWorker
<1>3. worker'[n].pc = "connect" /\ worker'[n].missing = 0 BY <1>1 DEF NoWorker
<1>4. \A w \in Request : w # n => worker'[w] = ws[w] BY <1>1
<1>5. Ended.pc = "ended" BY DEF Ended, NoWorker
<1> QED BY <1>2, <1>3, <1>4, <1>5, NothingAsked

(* The user sends no requests for sheets.                                  *)
LEMMA UserAsksNothing == ASSUME ViewInv, WaitInv, User PROVE WaitInv'
<1>1. requestId \in Nat /\ worker \in [Request -> Worker] BY DEF ViewInv, ViewType
<1>2. ASSUME ~Busy
      PROVE  /\ requestId + 1 \in Request /\ requestId < requestId + 1
             /\ requestId + 2 \in Request /\ requestId < requestId + 2
  BY <1>1, <1>2, Numbers DEF Busy
<1>3. CASE UNCHANGED <<worker, fetchVars>> BY <1>3, NothingAsked
<1>4. CASE ~Busy /\ UNCHANGED fetchVars
           /\ \E u \in Url \cup {NoUrl} \cup {entries[pos].url} : Load(worker, requestId + 1, u)
  BY <1>1, <1>2, <1>4, LoadAsksNothing
<1>5. ASSUME ~Busy, UNCHANGED fetchVars, NEW u, Load(worker, requestId + 2, u) PROVE WaitInv'
  BY <1>1, <1>2, <1>5, LoadAsksNothing
<1>6. CASE \E u \in Url : OpenUrl(u) \/ OpenImage(u)
  BY <1>3, <1>4, <1>6 DEF OpenUrl, OpenImage, fetchVars
<1>7. CASE Back \/ Forward
  <2>1. PICK p : GoTo(p) BY <1>7 DEF Back, Forward
  <2> QED BY <2>1, <1>3, <1>5 DEF GoTo
<1>8. CASE Reload BY <1>4, <1>8 DEF Reload
<1>9. CASE Stop BY <1>3, <1>9 DEF Stop
<1> QED BY <1>6, <1>7, <1>8, <1>9 DEF User

(* Nor does the view with a report.                                        *)
LEMMA HandleAsksNothing == ASSUME ViewInv, WaitInv, NEW w \in Request, Handle(w) PROVE WaitInv'
<1>1. worker[w].pc = "reported" /\ UNCHANGED fetchVars BY DEF Handle
<1>2. /\ Done(w) \in [Request -> Worker]
      /\ \A v \in Request : Done(w)[v] = worker[v] \/ Done(w)[v] = Ended
  BY <1>1, WorkerEnds
<1>3. Ended.pc = "ended" BY DEF Ended, NoWorker
<1>4. CASE worker' = Done(w) BY <1>1, <1>2, <1>3, <1>4, NothingAsked
<1>5. ASSUME w = requestId, redirectCount < MAX_REDIRECTS, NEW u, Load(Done(w), requestId + 1, u)
      PROVE  WaitInv'
  <2>1. Loading(w) /\ requestId \in Nat BY <1>1 DEF Loading, ViewInv, ViewType
  <2>2. requestId <= LastRequest + 1 + redirectCount /\ redirectCount \in Nat
    BY <2>1, <1>5 DEF ViewInv, ViewType, Enough
  <2>3. requestId + 1 \in Request /\ requestId < requestId + 1 BY <2>1, <2>2, <1>5, Numbers
  <2> QED BY <2>3, <1>1, <1>2, <1>5, LoadAsksNothing
<1> QED BY <1>4, <1>5 DEF Handle, Drop, Show, Redirect, Fail

-----------------------------------------------------------------------------

(* What UnlessCancelled makes of the workers.                              *)
LEMMA UnlessCancelledMoves ==
    ASSUME ViewInv, NEW w \in Request, NEW c, UnlessCancelled(w, c)
    PROVE  /\ \A v \in Request : v # w => worker'[v] = worker[v]
           /\ worker'[w] = c \/ worker'[w].pc = "reported"
<1>1. worker \in [Request -> Worker] BY DEF ViewInv, ViewType
<1>2. worker[w] \in Worker BY <1>1
<1> QED BY <1>1, <1>2 DEF UnlessCancelled, Report, Worker

(* What was asked for is missing until the answer is taken.                *)
LEMMA AnswerTaken ==
    ASSUME ViewInv, WaitInv, NEW w \in Request, NEW c \in Worker, c.pc \in {"sheets", "offer"},
           c.missing = Waiting(w) + (IF c.pc = "offer" THEN 1 ELSE 0),
           HandleFetch(w, c), UNCHANGED fetchQueue
    PROVE  WaitInv'
<1>1. fetchQueue' = fetchQueue OBVIOUS
<1>2. lost' = lost /\ task' = task BY DEF HandleFetch
<1>3. FetchType BY DEF WaitInv
<1>4. ASSUME NEW v \in Request, v # w, worker'[v] = worker[v], replies'[v] = replies[v]
      PROVE  Settled(v)'
  <2>1. Waiting(v)' = Waiting(v) BY <1>1, <1>2, <1>4 DEF Waiting
  <2> QED BY <2>1, <1>4 DEF WaitInv, Settled
<1>5. CASE replies[w] > 0 /\ replies' = [replies EXCEPT ![w] = @ - 1]
           /\ UnlessCancelled(w, [c EXCEPT !.missing = @ - 1])
  <2>1. /\ replies[w] \in Nat /\ lost[w] \in Nat /\ replies'[w] = replies[w] - 1
        /\ replies' \in [Request -> Nat] /\ \A v \in Request : v # w => replies'[v] = replies[v]
    BY <1>3, <1>5 DEF FetchType
  <2>2. FetchType' BY <1>2, <1>3, <2>1 DEF FetchType
  <2>3. Waiting(w)' = Waiting(w) - 1 /\ Waiting(w) \in Nat
    BY <1>1, <1>2, <1>3, <2>1, WaitingType DEF Waiting
  <2>4. PICK d : d = [c EXCEPT !.missing = @ - 1] OBVIOUS
  <2>5. d.pc = c.pc /\ d.missing = c.missing - 1 BY <2>4 DEF Worker
  <2>6. /\ \A v \in Request : v # w => worker'[v] = worker[v]
        /\ worker'[w] = d \/ worker'[w].pc = "reported"
    BY <1>5, <2>4, UnlessCancelledMoves
  <2>7. Settled(w)' BY <2>3, <2>5, <2>6 DEF Settled
  <2> QED BY <1>4, <2>1, <2>2, <2>6, <2>7 DEF WaitInv
<1>6. CASE UNCHANGED replies /\ UnlessCancelled(w, c)
  <2>1. FetchType' BY <1>2, <1>3, <1>6 DEF FetchType
  <2>2. Waiting(w)' = Waiting(w) BY <1>1, <1>2, <1>6 DEF Waiting
  <2>3. /\ \A v \in Request : v # w => worker'[v] = worker[v]
        /\ worker'[w] = c \/ worker'[w].pc = "reported"
    BY <1>6, UnlessCancelledMoves
  <2>4. Waiting(w) \in Nat BY <1>3, WaitingType
  <2>5. Settled(w)' BY <2>2, <2>3, <2>4 DEF Settled
  <2> QED BY <1>4, <1>6, <2>1, <2>3, <2>5 DEF WaitInv
<1> QED BY <1>5, <1>6 DEF HandleFetch

(* The request a worker offers goes to the queue.                          *)
LEMMA OfferWaits == ASSUME ViewInv, WaitInv, NEW w \in Request, Offer(w) PROVE WaitInv'
<1>1. /\ FetchType /\ fetchQueue \in Seq(Request) /\ worker \in [Request -> Worker]
      /\ worker[w].pc = "offer"
  BY DEF ViewInv, ViewType, WaitInv, FetchType, Offer, At
<1>2. worker[w] \in Worker BY <1>1
<1>3. /\ fetchQueue' = Append(fetchQueue, w) /\ UNCHANGED <<task, replies, lost>>
      /\ \A v \in Request : v # w => worker'[v] = worker[v]
      /\ worker'[w].pc = "sheets" /\ worker'[w].missing = worker[w].missing
  BY <1>1, <1>2 DEF Offer, Worker
<1>4. FetchType'
  <2>1. PICK q : q = Append(fetchQueue, w) OBVIOUS
  <2>2. q \in Seq(Request) BY <1>1, <2>1, AppendProperties
  <2> QED BY <1>1, <1>3, <2>1, <2>2 DEF FetchType
<1>5. ASSUME NEW v \in Request PROVE Waiting(v)' = Waiting(v) + IF v = w THEN 1 ELSE 0
  <2>1. PICK q : q = fetchQueue' OBVIOUS
  <2>2. /\ w = v => Times(q, v) = Times(fetchQueue, v) + 1
        /\ w # v => Times(q, v) = Times(fetchQueue, v)
    <3>1. q = Append(fetchQueue, w) BY <1>3, <2>1
    <3>2. /\ w = v => Times(Append(fetchQueue, w), v) = Times(fetchQueue, v) + 1
          /\ w # v => Times(Append(fetchQueue, w), v) = Times(fetchQueue, v)
      BY <1>1, CountGrows, Zenon
    <3> QED BY <3>1, <3>2, Zenon
  <2>3. /\ replies[v] \in Nat /\ lost[v] \in Nat
        /\ Times(fetchQueue, v) \in Nat /\ Holders(task, v) \in Nat
    BY <1>1, WaitingType DEF FetchType
  <2> QED BY <1>3, <2>1, <2>2, <2>3 DEF Waiting
<1>6. ASSUME NEW v \in Request PROVE Settled(v)'
  <2>1. Waiting(v) \in Nat BY <1>1, WaitingType
  <2>2. CASE v = w BY <1>1, <1>3, <1>5, <2>1, <2>2 DEF WaitInv, Settled
  <2>3. CASE v # w BY <1>3, <1>5, <2>1, <2>3 DEF WaitInv, Settled
  <2> QED BY <2>2, <2>3
<1> QED BY <1>4, <1>6 DEF WaitInv

(* All the steps of a worker.                                              *)
LEMMA WorkerWaits == ASSUME ViewInv, WaitInv, NEW w \in Request, WorkerStep(w) PROVE WaitInv'
<1>1. worker \in [Request -> Worker] /\ worker[w] \in Worker /\ Waiting(w) \in Nat
  BY WaitingType DEF ViewInv, ViewType, WaitInv
<1>2. \A c : UnlessCancelled(w, c) =>
        /\ \A v \in Request : v # w => worker'[v] = worker[v]
        /\ worker'[w] = c \/ worker'[w].pc = "reported"
  BY UnlessCancelledMoves
<1>3. ASSUME NEW kind, NEW u, Report(w, kind, u)
      PROVE  /\ \A v \in Request : v # w => worker'[v] = worker[v]
             /\ worker'[w].pc = "reported"
  BY <1>1, <1>3 DEF Report, Worker
<1>4. ASSUME ReportTrouble(w)
      PROVE  /\ \A v \in Request : v # w => worker'[v] = worker[v]
             /\ worker'[w].pc = "reported"
  BY <1>3, <1>4 DEF ReportTrouble
<1>5. /\ WithSheets(w).pc = "sheets" /\ WithSheets(w).missing = worker[w].missing
      /\ [worker[w] EXCEPT !.pc = "respond"].pc = "respond"
      /\ [worker[w] EXCEPT !.pc = "respond"].missing = worker[w].missing
  BY <1>1 DEF WithSheets, Worker
<1>6. ASSUME worker' = [worker EXCEPT ![w] = WithSheets(w)]
      PROVE  /\ \A v \in Request : v # w => worker'[v] = worker[v]
             /\ worker'[w] = WithSheets(w)
  BY <1>1, <1>6
<1>7. worker[w].pc \in {"none", "connect", "respond"} => worker[w].missing = 0
  BY DEF WaitInv, Settled
<1>8. CASE Connect(w)
  <2>1. At(w, "connect") /\ UNCHANGED fetchVars BY <1>8 DEF Connect
  <2> QED BY ZenonT(60), <1>8, <2>1, <1>2, <1>4, <1>5, <1>6, <1>7, NothingAsked DEF Connect, At
<1>9. CASE Respond(w)
  <2>1. At(w, "respond") /\ UNCHANGED fetchVars BY <1>9 DEF Respond
  <2> QED BY <1>9, <2>1, <1>3, <1>4, <1>5, <1>6, <1>7, NothingAsked DEF Respond, At
<1>10. CASE RewriteFails(w) BY <1>10, <1>3, NothingAsked DEF RewriteFails
<1>11. CASE NextSheet(w)
  <2>1. PICK c : c = [worker[w] EXCEPT !.pc = "offer", !.todo = @ - 1, !.missing = @ + 1] OBVIOUS
  <2>2. c.pc = "offer" /\ c.missing = worker[w].missing + 1 BY <1>1, <2>1 DEF Worker
  <2>3. worker[w].pc = "sheets" /\ worker[w].todo > 0 /\ Loading(w)
    BY SMTT(40), <1>11 DEF NextSheet, At, Loading
  <2>4. c \in Worker BY <2>1, <2>3, Changes DEF Continues
  <2>5. worker[w].missing = Waiting(w) BY <2>3 DEF WaitInv, Settled
  <2>6. HandleFetch(w, c) /\ UNCHANGED fetchQueue BY <1>11, <2>1 DEF NextSheet
  <2> QED BY <2>2, <2>4, <2>5, <2>6, AnswerTaken
<1>12. CASE Offer(w) BY <1>12, OfferWaits
<1>13. CASE OfferAgain(w)
  <2>1. worker[w].pc = "offer" BY <1>13 DEF OfferAgain, At
  <2>2. worker[w].missing = Waiting(w) + 1 BY <2>1 DEF WaitInv, Settled
  <2> QED BY <1>1, <1>13, <2>1, <2>2, AnswerTaken DEF OfferAgain
<1>14. CASE WaitForSheets(w)
  <2>1. worker[w].pc = "sheets" BY <1>14 DEF WaitForSheets, At
  <2>2. worker[w].missing = Waiting(w) + 0 BY <2>1, <1>1 DEF WaitInv, Settled
  <2> QED BY <1>1, <1>14, <2>1, <2>2, AnswerTaken DEF WaitForSheets
<1>15. CASE Apply(w)
  <2>1. UNCHANGED fetchVars BY <1>15 DEF Apply
  <2> QED BY <1>15, <2>1, <1>2, <1>3, NothingAsked DEF Apply
<1> QED BY <1>8, <1>9, <1>10, <1>11, <1>12, <1>13, <1>14, <1>15 DEF WorkerStep

-----------------------------------------------------------------------------

(* A request that goes from the queue to a task, and from there to the     *)
(* answers, is waited for all the time.                                    *)
LEMMA TaskWaits == ASSUME WaitInv, NEW t \in Task, TaskStep(t) PROVE WaitInv'
<1>1. /\ FetchType /\ worker' = worker
      /\ fetchQueue \in Seq(Request)
      /\ task[t].for \in Request <=> task[t].pc # "idle"
      /\ task \in [Task -> [pc : {"idle", "answer", "failure"}, for : Request \cup {NoRequest}]]
      /\ replies \in [Request -> Nat] /\ lost \in [Request -> Nat]
  BY DEF WaitInv, FetchType, TaskStep, Serve, Answer, GiveUp
<1>n. NoRequest \notin Request BY Numbers DEF NoRequest
<1>2. ASSUME FetchType', \A w \in Request : Waiting(w)' = Waiting(w) PROVE WaitInv'
  BY <1>1, <1>2 DEF WaitInv, Settled
<1>3. ASSUME NEW r, r.for # task[t].for, task' = [task EXCEPT ![t] = r], NEW w \in Request
      PROVE  Holders(task, w)' = IF r.for = w THEN Holders(task, w) + 1
                                 ELSE IF task[t].for = w THEN Holders(task, w) - 1
                                 ELSE Holders(task, w)
  <2>1. PICK f, g : f = task /\ g = task' OBVIOUS
  <2>2. /\ \A s \in Task : s # t => g[s] = f[s]
        /\ g[t].for = r.for /\ f[t].for # g[t].for
    BY <1>1, <1>3, <2>1
  <2>3. PICK old, new : old = f[t].for /\ new = g[t].for OBVIOUS
  <2>4. /\ new = w => Holders(g, w) = Holders(f, w) + 1
        /\ old = w => Holders(g, w) = Holders(f, w) - 1
        /\ new # w /\ old # w => Holders(g, w) = Holders(f, w)
    BY <2>2, <2>3, HeldMoves
  <2>5. new = r.for /\ old = task[t].for /\ old # new BY <2>1, <2>2, <2>3
  <2> QED BY <2>1, <2>4, <2>5
<1>4. \A w \in Request :
        /\ replies[w] \in Nat /\ lost[w] \in Nat
        /\ Times(fetchQueue, w) \in Nat /\ Holders(task, w) \in Nat
  BY <1>1, WaitingType
<1>5. CASE Serve(t)
  <2>1. /\ task[t].pc = "idle" /\ fetchQueue # <<>> /\ fetchQueue' = Tail(fetchQueue)
        /\ UNCHANGED <<replies, lost>>
    BY <1>5 DEF Serve
  <2>2. PICK q, h : q = Tail(fetchQueue) /\ h = Head(fetchQueue) OBVIOUS
  <2>3. q \in Seq(Request) /\ h \in Request BY <1>1, <2>1, <2>2, CountShrinks, Zenon
  <2>4. PICK r : /\ r \in [pc : {"idle", "answer", "failure"}, for : Request \cup {NoRequest}]
                 /\ r.pc # "idle" /\ r.for = h /\ task' = [task EXCEPT ![t] = r]
    <3>1. PICK result \in {"answer", "failure"} :
            task' = [task EXCEPT ![t] = [pc |-> result, for |-> h]]
      BY <1>5, <2>2 DEF Serve
    <3>2. PICK r : r = [pc |-> result, for |-> h] OBVIOUS
    <3> QED BY <2>3, <3>1, <3>2
  <2>5. FetchType'
    <3>1. \A s \in Task : task'[s].for \in Request <=> task'[s].pc # "idle"
      BY <1>1, <2>3, <2>4 DEF FetchType
    <3> QED BY <1>1, <2>1, <2>2, <2>3, <2>4, <3>1 DEF FetchType
  <2>6. task[t].for \notin Request /\ r.for # task[t].for BY <1>1, <2>1, <2>3, <2>4, Zenon
  <2>7. ASSUME NEW w \in Request PROVE Waiting(w)' = Waiting(w)
    <3>1. Holders(task, w)' = IF h = w THEN Holders(task, w) + 1 ELSE Holders(task, w)
      BY <1>3, <2>4, <2>6
    <3>2. Times(fetchQueue, w) = Times(q, w) + IF h = w THEN 1 ELSE 0
      BY ZenonT(60), <1>1, <2>1, <2>2, CountShrinks
    <3>3. Times(fetchQueue, w)' = Times(q, w) BY <2>1, <2>2
    <3>4. Times(q, w) \in Nat BY <2>3, Counts
    <3> QED BY <1>4, <2>1, <3>1, <3>2, <3>3, <3>4 DEF Waiting
  <2> QED BY <1>2, <2>5, <2>7
<1>6. ASSUME task[t].pc # "idle", task' = [task EXCEPT ![t] = IdleTask], UNCHANGED fetchQueue,
             replies' \in [Request -> Nat], lost' \in [Request -> Nat],
             \A w \in Request : replies'[w] + lost'[w]
                = replies[w] + lost[w] + IF w = task[t].for THEN 1 ELSE 0
      PROVE  WaitInv'
  <2>1. /\ IdleTask \in [pc : {"idle", "answer", "failure"}, for : Request \cup {NoRequest}]
        /\ IdleTask.for = NoRequest /\ IdleTask.pc = "idle" /\ task[t].for \in Request
    BY <1>1, <1>6 DEF IdleTask
  <2>2. FetchType'
    <3>1. \A s \in Task : task'[s].for \in Request <=> task'[s].pc # "idle"
      BY <1>1, <1>6, <1>n, <2>1 DEF FetchType
    <3> QED BY <1>1, <1>6, <2>1, <3>1 DEF FetchType
  <2>3. ASSUME NEW w \in Request PROVE Waiting(w)' = Waiting(w)
    <3>1. Holders(task, w)' = IF task[t].for = w THEN Holders(task, w) - 1 ELSE Holders(task, w)
      BY <1>3, <1>6, <1>n, <2>1
    <3>3. replies'[w] \in Nat /\ lost'[w] \in Nat BY <1>6
    <3> QED BY <1>4, <1>6, <3>1, <3>3 DEF Waiting
  <2> QED BY <1>2, <2>2, <2>3
<1>7. CASE Answer(t)
  <2>1. /\ task[t].pc # "idle" /\ task' = [task EXCEPT ![t] = IdleTask]
        /\ UNCHANGED <<fetchQueue, lost>>
        /\ replies' = [replies EXCEPT ![task[t].for] = @ + 1]
    BY <1>7 DEF Answer
  <2>2. replies' \in [Request -> Nat] /\ lost' \in [Request -> Nat] BY <1>1, <2>1
  <2>3. ASSUME NEW w \in Request
        PROVE  replies'[w] + lost'[w] = replies[w] + lost[w] + IF w = task[t].for THEN 1 ELSE 0
    <3>1. CASE w = task[t].for BY <1>1, <1>4, <2>1, <3>1
    <3>2. CASE w # task[t].for BY <1>1, <1>4, <2>1, <3>2
    <3> QED BY <3>1, <3>2
  <2> QED BY <1>6, <2>1, <2>2, <2>3
<1>8. CASE GiveUp(t)
  <2>1. /\ task[t].pc # "idle" /\ task' = [task EXCEPT ![t] = IdleTask]
        /\ UNCHANGED <<fetchQueue, replies>>
        /\ lost' = [lost EXCEPT ![task[t].for] = @ + 1]
    BY <1>8 DEF GiveUp
  <2>2. replies' \in [Request -> Nat] /\ lost' \in [Request -> Nat] BY <1>1, <2>1
  <2>3. ASSUME NEW w \in Request
        PROVE  replies'[w] + lost'[w] = replies[w] + lost[w] + IF w = task[t].for THEN 1 ELSE 0
    <3>1. CASE w = task[t].for BY <1>1, <1>4, <2>1, <3>1
    <3>2. CASE w # task[t].for BY <1>1, <1>4, <2>1, <3>2
    <3> QED BY <3>1, <3>2
  <2> QED BY <1>6, <2>1, <2>2, <2>3
<1> QED BY <1>5, <1>7, <1>8 DEF TaskStep

(* At the start nothing is asked for.                                      *)
LEMMA WaitInit == Init => WaitInv
<1> SUFFICES ASSUME Init PROVE WaitInv OBVIOUS
<1>1. fetchQueue = <<>> /\ \A w \in Request : Times(fetchQueue, w) = 0
  BY FS_EmptySet DEF Init, Times
<1>2. \A t \in Task : task[t].for \notin Request /\ task[t].pc = "idle"
  BY Numbers DEF Init, IdleTask, NoRequest
<1>3. FetchType BY <1>1, <1>2 DEF Init, FetchType, IdleTask
<1>4. \A w \in Request : Holders(task, w) = 0 BY <1>2, FS_EmptySet DEF Holders
<1>5. \A w \in Request : Waiting(w) = 0 BY <1>1, <1>4 DEF Init, Waiting
<1> QED BY <1>3, <1>5 DEF Init, NoWorker, WaitInv, Settled

(* Every step.                                                             *)
LEMMA WaitStep == ViewInv /\ WaitInv /\ [Next]_vars => WaitInv'
<1> SUFFICES ASSUME ViewInv, WaitInv, [Next]_vars PROVE WaitInv' OBVIOUS
<1>1. CASE User BY <1>1, UserAsksNothing
<1>2. ASSUME NEW w \in Request, Handle(w) \/ WorkerStep(w) PROVE WaitInv'
  BY <1>2, HandleAsksNothing, WorkerWaits
<1>3. ASSUME NEW t \in Task, TaskStep(t) PROVE WaitInv' BY <1>3, TaskWaits
<1>4. CASE UNCHANGED vars BY <1>4, NothingAsked DEF vars
<1> QED BY <1>1, <1>2, <1>3, <1>4 DEF Next

(* What a worker waits for is on its way: a style sheet it has asked for   *)
(* and does not have is in the queue, with a task or answered, or its      *)
(* failure was lost.                                                       *)
THEOREM WaitIsAnswered == Spec => []WaitHasAnAnswer
<1>1. WaitInv => WaitHasAnAnswer
  <2> SUFFICES ASSUME WaitInv, NEW w \in Request, worker[w].pc \in {"sheets", "offer"}
               PROVE  worker[w].missing = Outstanding(w)
    BY DEF WaitHasAnAnswer
  <2>1. Waiting(w) \in Nat BY WaitingType DEF WaitInv
  <2>2. Outstanding(w) = Waiting(w) + IF At(w, "offer") THEN 1 ELSE 0
    BY DEF Outstanding, Waiting, Times, Holders
  <2> QED BY <2>1, <2>2 DEF WaitInv, Settled, At
<1> QED BY <1>1, WaitInit, WaitStep, ViewIsSafe, PTL DEF Spec
=============================================================================
