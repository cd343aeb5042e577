-------------------------- MODULE Ingestion_proofs --------------------------
(***************************************************************************)
(* The properties of Ingestion that do not rest on what the batches are,   *)
(* for any layout, sizes, configurations, answers of the model and bounds; *)
(* Reading_proofs has the others.                                          *)
(***************************************************************************)
EXTENDS Ingestion, TLAPS, SequenceTheorems

Block == [id : Nat \X Nat \X Int, size : Nat]
Page == [mode : {"none", "text", "needs_vision", "vision", "manual"}, blocks : Seq(Block)]

(***************************************************************************)
(* The windows of index_document leave nothing out.                        *)
(***************************************************************************)
LEMMA DivFacts ==
    ASSUME NEW n \in Nat, NEW s \in Nat \ {0}
    PROVE  /\ n \div s \in Nat
           /\ (n \div s) * s <= n
           /\ n < (n \div s) * s + s
BY SMTT(20)

LEMMA DivMonotone ==
    ASSUME NEW m \in Nat, NEW n \in Nat, m <= n, NEW s \in Nat \ {0}
    PROVE  m \div s <= n \div s
<1> DEFINE a == m \div s
           b == n \div s
<1>1. /\ a \in Nat /\ b \in Nat
      /\ a * s <= m /\ n < b * s + s
  BY DivFacts
<1> HIDE DEF a, b
<1>2. \A i, j \in Nat : j + 1 <= i => j * s + s <= i * s
  BY SMTT(20)
<1>3. a * s \in Nat /\ b * s \in Nat
  BY <1>1
<1>4. ~(b + 1 <= a)
  BY <1>1, <1>2, <1>3
<1>5. a <= b
  BY <1>1, <1>4
<1> QED
  BY <1>5 DEF a, b

LEMMA WindowOfPosition ==
    ASSUME NEW b \in Block, NEW n \in 1 .. b.size
    PROVE  \E k \in 0 .. (b.size - 1) \div Stride :
              <<b.id, n>> \in {<<Fragment(b, k * Stride, Window).block, i>> :
                  i \in Fragment(b, k * Stride, Window).from .. Fragment(b, k * Stride, Window).to}
<1> DEFINE k == (n - 1) \div Stride
<1>1. Stride \in Nat \ {0} /\ Window \in Nat /\ Stride <= Window
  BY SizeAssumption
<1>2. b.size \in Nat /\ n \in Nat /\ n - 1 \in Nat /\ b.size - 1 \in Nat /\ n - 1 <= b.size - 1
  BY DEF Block
<1>3. /\ k \in Nat /\ k * Stride <= n - 1 /\ n - 1 < k * Stride + Stride
  BY <1>1, <1>2, DivFacts
<1>4. k <= (b.size - 1) \div Stride /\ (b.size - 1) \div Stride \in Nat
  BY <1>1, <1>2, DivMonotone, DivFacts
<1> HIDE DEF k
<1>5. k \in 0 .. (b.size - 1) \div Stride
  BY <1>3, <1>4
<1>6. k * Stride \in Nat
  BY <1>1, <1>3
<1>7. n \in k * Stride + 1 .. Smaller(k * Stride + Window, b.size)
  <2> DEFINE x == k * Stride
  <2> HIDE DEF x
  <2> SUFFICES n \in x + 1 .. Smaller(x + Window, b.size)
    BY DEF x
  <2>1. x \in Nat /\ x <= n - 1 /\ n - 1 < x + Stride
    BY <1>3, <1>6 DEF x
  <2> QED
    BY <1>1, <1>2, <2>1 DEF Smaller
<1> QED
  BY <1>5, <1>7 DEF Fragment

\* The chunks of a page cover its blocks, position by position, and nothing else.
LEMMA ChunksCover ==
    ASSUME NEW blocks \in Seq(Block)
    PROVE  Positions(Chunks(blocks)) = AllPositions(Range(blocks))
<1> DEFINE Whole == {j \in DOMAIN blocks : blocks[j].size > 0}
           Strides(i) == 0 .. (blocks[i].size - 1) \div Stride
<1>1. \A i \in DOMAIN blocks : blocks[i] \in Block
  BY ElementOfSeq, LenProperties
<1>2. \A i \in Whole : \A k \in Strides(i) :
          Fragment(blocks[i], k * Stride, Window) \in Chunks(blocks)
  BY DEF Chunks
<1>3. \A f \in Chunks(blocks) : \E i \in Whole : \E k \in Strides(i) :
          f = Fragment(blocks[i], k * Stride, Window)
  BY DEF Chunks
<1>4. ASSUME NEW x \in AllPositions(Range(blocks)) PROVE x \in Positions(Chunks(blocks))
  <2>1. PICK i \in DOMAIN blocks : x \in {<<blocks[i].id, n>> : n \in 1 .. blocks[i].size}
    BY <1>4 DEF AllPositions, Range
  <2>2. PICK n \in 1 .. blocks[i].size : x = <<blocks[i].id, n>>
    BY <2>1
  <2>3. i \in Whole
    BY <1>1, <2>2 DEF Block
  <2>4. PICK k \in Strides(i) :
            <<blocks[i].id, n>> \in {<<Fragment(blocks[i], k * Stride, Window).block, m>> :
                m \in Fragment(blocks[i], k * Stride, Window).from
                         .. Fragment(blocks[i], k * Stride, Window).to}
    BY <1>1, WindowOfPosition
  <2> QED
    BY <1>2, <2>2, <2>3, <2>4 DEF Positions
<1>5. ASSUME NEW x \in Positions(Chunks(blocks)) PROVE x \in AllPositions(Range(blocks))
  <2>1. PICK f \in Chunks(blocks) : x \in {<<f.block, n>> : n \in f.from .. f.to}
    BY <1>5 DEF Positions
  <2>2. PICK i \in Whole : \E k \in Strides(i) : f = Fragment(blocks[i], k * Stride, Window)
    BY <1>3
  <2>3. PICK k \in Strides(i) : f = Fragment(blocks[i], k * Stride, Window)
    BY <2>2
  <2>4. blocks[i].size \in Nat /\ k * Stride \in Nat
    BY <1>1, <2>2, SizeAssumption DEF Block
  <2>5. PICK n \in f.from .. f.to : x = <<f.block, n>>
    BY <2>1
  <2>6. f.block = blocks[i].id /\ f.from = k * Stride + 1
        /\ f.to = Smaller(k * Stride + Window, blocks[i].size)
    BY <2>3 DEF Fragment
  <2>7. n \in 1 .. blocks[i].size
    <3> DEFINE y == k * Stride
    <3>1. y \in Nat /\ n \in y + 1 .. Smaller(y + Window, blocks[i].size)
      BY <2>4, <2>5, <2>6
    <3> HIDE DEF y
    <3> QED
      BY <3>1, <2>4, SizeAssumption DEF Smaller
  <2> QED
    BY <2>2, <2>5, <2>6, <2>7 DEF AllPositions, Range
<1> QED
  BY <1>4, <1>5

\* A document's chunks cover its blocks.
LEMMA IndexCovers ==
    ASSUME \A p \in Pages : pages[p].blocks \in Seq(Block)
    PROVE  Positions(UNION {Chunks(pages[p].blocks) : p \in Pages}) = AllPositions(BlocksInForce)
<1>1. \A p \in Pages :
          Positions(Chunks(pages[p].blocks)) = AllPositions(Range(pages[p].blocks))
  BY ChunksCover
<1> DEFINE whole == UNION {Chunks(pages[p].blocks) : p \in Pages}
<1>2. \A x : x \in Positions(whole) <=> \E p \in Pages : x \in Positions(Chunks(pages[p].blocks))
  BY DEF Positions
<1>3. \A x : x \in AllPositions(BlocksInForce)
                <=> \E p \in Pages : x \in AllPositions(Range(pages[p].blocks))
  BY DEF AllPositions, BlocksInForce
<1> QED
  BY <1>1, <1>2, <1>3

(***************************************************************************)
(* The invariant.  The records are stated by their fields: what is in most *)
(* of these does not matter.                                               *)
(***************************************************************************)
IsMeta(m) ==
    /\ m = [parse |-> m.parse, ai |-> m.ai, auto |-> m.auto, text |-> m.text,
            read |-> m.read, index |-> m.index, embedding |-> m.embedding]
    /\ m.text \in Nat /\ m.index \in 0 .. m.text

IsRead(r) ==
    /\ r = [rev |-> r.rev, text |-> r.text, batches |-> r.batches, notes |-> r.notes,
            entries |-> r.entries, reading |-> r.reading]
    /\ r.notes \in BOOLEAN

\* Metadata that are stored, or will be: of the present text, with what was read of this or
\* an earlier one.
IsCopy(m) ==
    /\ IsMeta(m) /\ IsRead(m.read) /\ m.text = meta.text
    /\ m.read.rev \in 0 .. rev /\ m.read.text \in 0 .. meta.text

IsParse(w) == w = [job |-> "parse", at |-> w.at, meta |-> w.meta] /\ w.at \in {"parse", "done"}

IsProcess(w) ==
    /\ w = [job |-> "process", at |-> w.at, meta |-> w.meta, found |-> w.found, batch |-> w.batch]
    /\ w.at \in {"read", "index", "embed", "finish", "done"}
    /\ IsRead(w.found)

IsAnswered(a) ==
    a = [read |-> a.read, unmatched |-> a.unmatched, lost |-> a.lost, reading |-> a.reading]

Typed ==
    /\ rev \in Nat
    /\ pages \in [Pages -> Page]
    /\ IsCopy(meta)
    /\ \A copy \in asked : IsCopy(copy)
    /\ chunks = [rev |-> chunks.rev, fragments |-> chunks.fragments] /\ chunks.rev \in 0 .. rev
    /\ IsAnswered(answered)
    /\ worker = Idle \/ IsParse(worker) \/ IsProcess(worker)
    /\ Busy => IsCopy(worker.meta)

\* What was read of the present text continues what is stored, and that what a request had
\* read before it.
Now(r) == r.rev = rev /\ r.text = meta.text
Continues(later, r) ==
    Now(r) => Now(later) /\ r.batches \subseteq later.batches /\ r.entries \subseteq later.entries

Reading == Busy /\ worker.job = "process"

Ordered ==
    /\ \A copy \in asked : Continues(meta.read, copy.read)
    /\ Reading =>
          /\ Continues(worker.meta.read, meta.read)
          /\ Continues(worker.found, worker.meta.read)
          /\ Now(worker.found)

Unfinished == Reading /\ worker.at # "done"

\* Until a job ends the document is not shown as ready, also if it is queued once more.
NotYetReady == Unfinished => ~Settled /\ worker.meta.ai = "running"

Covered == Positions(chunks.fragments) = AllPositions(BlocksInForce)

\* Metadata that say the chunks are of the present text tell the truth.
Truthful(m) ==
    chunks.fragments # {} /\ chunks.rev = rev /\ m.index = m.text
        => Covered /\ Untranscribed = {}

\* Chunks of the present revision and text are of whole pages.
Indexed ==
    /\ Truthful(meta)
    /\ \A copy \in asked : Truthful(copy)
    /\ Busy => Truthful(worker.meta)
    /\ Unfinished /\ worker.at # "read" => Untranscribed = {}
    /\ Unfinished /\ worker.at \in {"embed", "finish"} => Covered

IInv == Typed /\ Ordered /\ NotYetReady /\ Indexed /\ IndexIsOfPresentText

(***************************************************************************)
(* Records.                                                                *)
(***************************************************************************)
\* m and n agree on what a handler does not change for the status' sake.
Agree(m, n) == m.read = n.read /\ m.text = n.text /\ m.index = n.index
Unready(m) == m.ai \notin {"ready", "needs_review"}

\* A change of a status is a change of nothing else.
LEMMA StatusFacts ==
    ASSUME NEW m, IsMeta(m), NEW x
    PROVE  /\ IsMeta([m EXCEPT !.parse = x]) /\ Agree([m EXCEPT !.parse = x], m)
           /\ [m EXCEPT !.parse = x].ai = m.ai
           /\ IsMeta([m EXCEPT !.ai = x]) /\ Agree([m EXCEPT !.ai = x], m)
           /\ [m EXCEPT !.ai = x].ai = x
           /\ IsMeta([m EXCEPT !.auto = x]) /\ Agree([m EXCEPT !.auto = x], m)
           /\ [m EXCEPT !.auto = x].ai = m.ai
           /\ IsMeta([m EXCEPT !.embedding = x]) /\ Agree([m EXCEPT !.embedding = x], m)
           /\ [m EXCEPT !.embedding = x].ai = m.ai
<1>1. IsMeta([m EXCEPT !.parse = x]) /\ Agree([m EXCEPT !.parse = x], m)
      /\ [m EXCEPT !.parse = x].ai = m.ai
  BY DEF IsMeta, Agree
<1>2. IsMeta([m EXCEPT !.ai = x]) /\ Agree([m EXCEPT !.ai = x], m)
      /\ [m EXCEPT !.ai = x].ai = x
  BY DEF IsMeta, Agree
<1>3. IsMeta([m EXCEPT !.auto = x]) /\ Agree([m EXCEPT !.auto = x], m)
      /\ [m EXCEPT !.auto = x].ai = m.ai
  BY DEF IsMeta, Agree
<1>4. IsMeta([m EXCEPT !.embedding = x]) /\ Agree([m EXCEPT !.embedding = x], m)
      /\ [m EXCEPT !.embedding = x].ai = m.ai
  BY DEF IsMeta, Agree
<1> QED
  BY <1>1, <1>2, <1>3, <1>4

LEMMA TwoStatusFacts ==
    ASSUME NEW m, IsMeta(m), NEW x, NEW y
    PROVE  /\ IsMeta([m EXCEPT !.ai = x, !.auto = y])
           /\ Agree([m EXCEPT !.ai = x, !.auto = y], m)
           /\ [m EXCEPT !.ai = x, !.auto = y].ai = x
<1> DEFINE n == [m EXCEPT !.ai = x]
<1>1. IsMeta(n) /\ Agree(n, m) /\ n.ai = x
  BY StatusFacts
<1>2. [m EXCEPT !.ai = x, !.auto = y] = [n EXCEPT !.auto = y]
  OBVIOUS
<1> HIDE DEF n
<1>3. /\ IsMeta([n EXCEPT !.auto = y]) /\ Agree([n EXCEPT !.auto = y], n)
      /\ [n EXCEPT !.auto = y].ai = n.ai
  BY <1>1, StatusFacts
<1> QED
  BY <1>1, <1>2, <1>3 DEF Agree

LEMMA QueuedFacts ==
    ASSUME NEW m, IsMeta(m)
    PROVE  IsMeta(Queued(m)) /\ Agree(Queued(m), m) /\ Unready(Queued(m))
<1>1. \/ Queued(m) = [m EXCEPT !.ai = "waiting_api", !.auto = FALSE]
      \/ Queued(m) = [m EXCEPT !.ai = "waiting_config", !.auto = TRUE]
      \/ Queued(m) = [m EXCEPT !.ai = "queued", !.auto = TRUE]
  BY Zenon DEF Queued
<1>2. CASE Queued(m) = [m EXCEPT !.ai = "waiting_api", !.auto = FALSE]
  <2> DEFINE n == [m EXCEPT !.ai = "waiting_api", !.auto = FALSE]
  <2>1. IsMeta(n) /\ Agree(n, m) /\ n.ai = "waiting_api"
    BY TwoStatusFacts, Zenon
  <2> HIDE DEF n
  <2>2. Queued(m) = n
    BY <1>2 DEF n
  <2> QED
    BY <2>1, <2>2 DEF Unready
<1>3. CASE Queued(m) = [m EXCEPT !.ai = "waiting_config", !.auto = TRUE]
  <2> DEFINE n == [m EXCEPT !.ai = "waiting_config", !.auto = TRUE]
  <2>1. IsMeta(n) /\ Agree(n, m) /\ n.ai = "waiting_config"
    BY TwoStatusFacts, Zenon
  <2> HIDE DEF n
  <2>2. Queued(m) = n
    BY <1>3 DEF n
  <2> QED
    BY <2>1, <2>2 DEF Unready
<1>4. CASE Queued(m) = [m EXCEPT !.ai = "queued", !.auto = TRUE]
  <2> DEFINE n == [m EXCEPT !.ai = "queued", !.auto = TRUE]
  <2>1. IsMeta(n) /\ Agree(n, m) /\ n.ai = "queued"
    BY TwoStatusFacts, Zenon
  <2> HIDE DEF n
  <2>2. Queued(m) = n
    BY <1>4 DEF n
  <2> QED
    BY <2>1, <2>2 DEF Unready
<1> QED
  BY <1>1, <1>2, <1>3, <1>4

\* Storing what was found changes nothing else.
LEMMA SavedFacts ==
    ASSUME NEW m, IsMeta(m), NEW found
    PROVE  /\ IsMeta(Saved(found, m))
           /\ Saved(found, m).read = found
           /\ Saved(found, m).text = m.text
           /\ Saved(found, m).index = m.index
           /\ Saved(found, m).ai = m.ai
BY DEF Saved, IsMeta

\* A correction, or a request to read the text again.
LEMMA NewTextFacts ==
    ASSUME NEW m, IsMeta(m)
    PROVE  LET n == [m EXCEPT !.text = @ + 1]
           IN IsMeta(n) /\ n.read = m.read /\ n.text = m.text + 1 /\ n.index = m.index
<1> DEFINE n == [m EXCEPT !.text = @ + 1]
<1>1. /\ n = [parse |-> m.parse, ai |-> m.ai, auto |-> m.auto, text |-> m.text + 1,
               read |-> m.read, index |-> m.index, embedding |-> m.embedding]
      /\ m.text \in Nat /\ m.index \in 0 .. m.text
  BY DEF IsMeta
<1> HIDE DEF n
<1>2. /\ n.read = m.read /\ n.text = m.text + 1 /\ n.index = m.index
      /\ n = [parse |-> n.parse, ai |-> n.ai, auto |-> n.auto, text |-> n.text,
               read |-> n.read, index |-> n.index, embedding |-> n.embedding]
  BY <1>1
<1>3. n.text \in Nat /\ n.index \in 0 .. n.text
  BY <1>1, <1>2
<1>4. IsMeta(n)
  BY <1>2, <1>3 DEF IsMeta
<1> QED
  BY <1>2, <1>4 DEF n

LEMMA CorrectedFacts ==
    ASSUME NEW m, IsMeta(m), NEW x
    PROVE  LET n == [m EXCEPT !.parse = x, !.text = @ + 1]
           IN IsMeta(n) /\ n.read = m.read /\ n.text = m.text + 1 /\ n.index = m.index
<1> DEFINE k == [m EXCEPT !.parse = x]
           n == [m EXCEPT !.parse = x, !.text = @ + 1]
<1>1. IsMeta(k) /\ Agree(k, m)
  BY StatusFacts
<1>2. n = [k EXCEPT !.text = @ + 1]
  OBVIOUS
<1> HIDE DEF k
<1>3. LET j == [k EXCEPT !.text = @ + 1]
      IN IsMeta(j) /\ j.read = k.read /\ j.text = k.text + 1 /\ j.index = k.index
  BY <1>1, NewTextFacts
<1> QED
  BY <1>1, <1>2, <1>3 DEF Agree

LEMMA ResumedFacts ==
    ASSUME NEW m, IsRead(m.read), NEW r
    PROVE  /\ IsRead(Resumed(m, r))
           /\ Resumed(m, r).rev = r /\ Resumed(m, r).text = m.text
           /\ m.read.rev = r /\ m.read.text = m.text => Resumed(m, r) = m.read
BY DEF Resumed, IsRead, NothingRead

\* A worker is idle, parsing or processing.
LEMMA WorkerFacts ==
    ASSUME worker = Idle \/ IsParse(worker) \/ IsProcess(worker)
    PROVE  /\ IsParse(worker) <=> Busy /\ worker.job = "parse"
           /\ IsProcess(worker) <=> Busy /\ worker.job = "process"
           /\ ~Busy => worker = Idle
BY DEF Idle, IsParse, IsProcess, Busy

(***************************************************************************)
(* Steps.                                                                  *)
(***************************************************************************)
\* What SavedRequirementsStay says of a step.
EntriesKept ==
    rev' = rev /\ meta'.text = meta.text /\ meta.read.rev = rev /\ meta.read.text = meta.text
        => meta.read.entries \subseteq meta'.read.entries \/ OlderStored

\* Steps that change a status, start a parse or end a job.
StatusChange ==
    /\ IsMeta(meta') /\ Agree(meta', meta) /\ (meta'.ai = meta.ai \/ Unready(meta'))
    /\ UNCHANGED <<role, rev, pages, evidence, chunks, asked, answered>>
    /\ \/ worker' = worker
       \/ worker' = Idle
       \/ IsParse(worker') /\ worker'.meta = meta'

LEMMA StatusStep == ASSUME IInv, StatusChange PROVE IInv' /\ EntriesKept
<1> USE DEF StatusChange
<1>1. /\ meta'.read = meta.read /\ meta'.text = meta.text /\ meta'.index = meta.index
      /\ UNCHANGED <<rev, pages, chunks, asked, answered>>
  BY DEF Agree
<1>2. \A m : IsCopy(m)' <=> IsCopy(m)
  BY <1>1 DEF IsCopy
<1>3. IsCopy(meta') /\ IsCopy(meta)
  BY <1>1 DEF IInv, Typed, IsCopy
<1>4. \/ worker' = worker
      \/ ~Busy'
      \/ IsParse(worker') /\ worker'.meta = meta' /\ ~Reading'
  BY DEF Busy, Idle, Reading, IsParse
<1>5. /\ Busy' => IsCopy(worker'.meta)
      /\ Reading' => worker' = worker /\ Reading
  BY <1>3, <1>4 DEF IInv, Typed, Busy, Reading
<1>6. Typed'
  <2>1. worker' = Idle \/ IsParse(worker') \/ IsProcess(worker')
    BY DEF IInv, Typed
  <2>2. IsCopy(meta)' /\ (\A copy \in asked' : IsCopy(copy)') /\ (Busy' => IsCopy(worker.meta)')
    BY <1>1, <1>2, <1>3, <1>5 DEF IInv, Typed
  <2> QED
    BY <1>1, <2>1, <2>2 DEF IInv, Typed
<1>7. \A r : Now(r)' <=> Now(r)
  BY <1>1 DEF Now
<1>8. \A r, s : Continues(r, s)' <=> Continues(r, s)
  BY <1>7 DEF Continues
<1>9. Ordered'
  BY <1>1, <1>5, <1>7, <1>8 DEF IInv, Ordered
<1>10. Settled' => Settled
  BY DEF Settled, Unready
<1>11. NotYetReady'
  BY <1>5, <1>10 DEF IInv, NotYetReady, Unfinished
<1>12. Untranscribed' = Untranscribed /\ Covered' = Covered /\ BlocksInForce' = BlocksInForce
  BY DEF Untranscribed, Covered, BlocksInForce
<1>13. \A m : Truthful(m)' <=> Truthful(m)
  BY <1>1, <1>12 DEF Truthful
<1>14. Truthful(meta')
  BY <1>1 DEF IInv, Indexed, Truthful
<1>15. Indexed'
  <2>1. Busy' => Truthful(worker'.meta)
    BY <1>4, <1>14 DEF IInv, Indexed, Busy
  <2>2. Truthful(meta)' /\ (\A copy \in asked' : Truthful(copy)') /\ (Busy' => Truthful(worker.meta)')
    BY <1>1, <1>13, <1>14, <2>1 DEF IInv, Indexed
  <2> QED
    BY <1>5, <1>12, <2>2 DEF IInv, Indexed, Unfinished
<1>16. IndexIsOfPresentText'
  BY <1>10, <1>12 DEF IInv, IndexIsOfPresentText
<1>17. EntriesKept
  BY <1>1 DEF EntriesKept
<1> QED
  BY <1>6, <1>9, <1>11, <1>15, <1>16, <1>17 DEF IInv

\* Requests that make another text of the document while nobody works on it.
NewText ==
    /\ IsMeta(meta') /\ meta'.read = meta.read /\ meta'.text = meta.text + 1
    /\ meta'.index = meta.index /\ Unready(meta')
    /\ UNCHANGED <<role, rev, chunks>> /\ answered' = NoAnswers
    /\ pages' \in [Pages -> Page]
    /\ ~Busy /\ worker' = worker /\ asked = {} /\ asked' = {}

LEMMA TextStep == ASSUME IInv, NewText PROVE IInv' /\ EntriesKept
<1> USE DEF NewText
<1>1. ~Busy' /\ ~Reading' /\ ~Unfinished'
  BY DEF Busy, Reading, Unfinished
<1>2. IsCopy(meta)'
  BY DEF IInv, Typed, IsCopy, IsMeta
<1>3. Typed'
  BY <1>1, <1>2 DEF IInv, Typed, NoAnswers, IsAnswered
<1>4. Ordered' /\ NotYetReady'
  BY <1>1 DEF Ordered, NotYetReady
<1>5. meta'.index # meta'.text
  BY DEF IInv, Typed, IsCopy, IsMeta
<1>6. Indexed'
  BY <1>1, <1>5 DEF Indexed, Truthful
<1>7. IndexIsOfPresentText'
  BY DEF IndexIsOfPresentText, Settled, Unready
<1>8. EntriesKept
  BY DEF EntriesKept, IInv, Typed, IsCopy, IsMeta
<1> QED
  BY <1>3, <1>4, <1>6, <1>7, <1>8 DEF IInv

\* What is at hand while a document is processed.
LEMMA ProcessFacts ==
    ASSUME IInv, Busy, worker.at \in {"read", "index", "embed", "finish"}
    PROVE  /\ IsProcess(worker) /\ worker.job = "process" /\ Reading /\ Unfinished
           /\ IsCopy(worker.meta) /\ worker.meta.ai = "running" /\ ~Settled
           /\ IsRead(worker.found) /\ Now(worker.found)
           /\ Continues(worker.meta.read, meta.read)
           /\ Continues(worker.found, worker.meta.read)
<1>1. ~IsParse(worker)
  BY DEF IsParse
<1>2. IsProcess(worker) /\ worker.job = "process" /\ IsRead(worker.found)
  BY <1>1 DEF IInv, Typed, Busy, IsProcess
<1>3. Reading /\ Unfinished
  BY <1>2 DEF Reading, Unfinished
<1> QED
  BY <1>2, <1>3 DEF IInv, NotYetReady, Typed, Ordered

\* A step of the handler stores what it has in hand, or nothing.
Handled ==
    /\ Unfinished /\ UNCHANGED <<rev, pages, asked>> /\ IsAnswered(answered')
    /\ IsProcess(worker')
    /\ meta' = worker'.meta \/ meta' = meta
    /\ IsMeta(worker'.meta) /\ worker'.meta.text = meta.text
    /\ worker'.meta.read \in {worker.meta.read, worker'.found}
    /\ Now(worker'.found) /\ Continues(worker'.found, worker.found)

LEMMA HandledStep ==
    ASSUME IInv, Handled
    PROVE  /\ chunks' = [rev |-> chunks'.rev, fragments |-> chunks'.fragments]
              /\ chunks'.rev \in 0 .. rev => Typed'
           /\ Ordered' /\ EntriesKept /\ Reading'
           /\ meta'.text = meta.text /\ IsRead(worker'.found)
<1> USE DEF Handled
<1>1. Reading /\ Busy /\ Busy' /\ Reading' /\ IsRead(worker'.found)
  BY DEF Unfinished, Reading, IsProcess, Busy, Idle
<1>2. meta'.text = meta.text
  OBVIOUS
<1>3. \A m : IsCopy(m)' <=> IsCopy(m)
  BY <1>2 DEF IsCopy
<1>4. \A r : Now(r)' <=> Now(r)
  BY <1>2 DEF Now
<1>5. \A r, s : Continues(r, s)' <=> Continues(r, s)
  BY <1>4 DEF Continues
<1>6. \A r, s, t : Continues(r, s) /\ Continues(s, t) => Continues(r, t)
  BY DEF Continues
<1>7. \A r : Continues(r, r)
  BY DEF Continues
<1>8. /\ Continues(worker.meta.read, meta.read) /\ Continues(worker.found, worker.meta.read)
      /\ \A copy \in asked : Continues(meta.read, copy.read)
  BY <1>1 DEF IInv, Ordered
<1>9. Continues(worker'.found, worker'.meta.read) /\ Continues(worker'.meta.read, worker.meta.read)
  BY <1>6, <1>7, <1>8
<1>10. Continues(worker'.meta.read, meta.read)
  BY <1>6, <1>8, <1>9
<1>11. Continues(worker'.meta.read, meta'.read) /\ Continues(meta'.read, meta.read)
  BY <1>7, <1>10
<1>12. \A copy \in asked' : Continues(meta'.read, copy.read)
  BY <1>6, <1>8, <1>11
<1>13. Ordered'
  BY <1>1, <1>4, <1>5, <1>9, <1>11, <1>12 DEF Ordered
<1>14. IsCopy(worker'.meta)
  <2>1. IsCopy(worker.meta) /\ meta.text \in Nat /\ rev \in Nat
    BY <1>1 DEF IInv, Typed, IsCopy, IsMeta
  <2>2. CASE worker'.meta.read = worker.meta.read
    BY <2>1, <2>2 DEF IsCopy
  <2>3. CASE worker'.meta.read = worker'.found
    BY <1>1, <2>1, <2>3 DEF IsCopy, Now
  <2> QED
    BY <2>2, <2>3
<1>15. ASSUME chunks' = [rev |-> chunks'.rev, fragments |-> chunks'.fragments],
              chunks'.rev \in 0 .. rev
       PROVE  Typed'
  <2>1. IsCopy(meta)' /\ (\A copy \in asked' : IsCopy(copy)') /\ (Busy' => IsCopy(worker.meta)')
    BY <1>3, <1>14 DEF IInv, Typed
  <2> QED
    BY <1>15, <2>1 DEF IInv, Typed
<1>16. EntriesKept
  BY <1>11 DEF EntriesKept, Continues, Now
<1> QED
  BY <1>1, <1>2, <1>13, <1>15, <1>16

\* The steps that leave the chunks alone.
LEMMA HandledIndex ==
    ASSUME IInv, Handled, chunks' = chunks, worker'.meta.index = worker.meta.index,
           worker'.at # "read" => Untranscribed = {},
           worker'.at \in {"embed", "finish"} => Covered
    PROVE  Indexed'
<1>1. Reading /\ Busy /\ worker'.meta.text = worker.meta.text
  BY DEF Handled, Unfinished, Reading, IInv, Typed, IsCopy
<1>2. UNCHANGED <<rev, pages, chunks, asked>>
  BY DEF Handled
<1>3. Untranscribed' = Untranscribed /\ Covered' = Covered
  BY <1>2 DEF Untranscribed, Covered, BlocksInForce
<1>4. \A m : Truthful(m)' <=> Truthful(m)
  BY <1>2, <1>3 DEF Truthful
<1>5. Truthful(worker'.meta)
  BY <1>1 DEF IInv, Indexed, Truthful
<1>6. Truthful(meta')
  BY <1>5 DEF IInv, Indexed, Handled
<1> QED
  BY <1>2, <1>3, <1>4, <1>5, <1>6 DEF IInv, Indexed, Unfinished

LEMMA BeginParseChange == ASSUME IInv, BeginParse PROVE StatusChange
<1>1. IsMeta(meta') /\ Agree(meta', meta) /\ meta'.ai = meta.ai
  BY StatusFacts DEF BeginParse, IInv, Typed, IsCopy
<1>2. worker' = [job |-> "parse", at |-> "parse", meta |-> meta']
  BY DEF BeginParse
<1>3. IsParse(worker') /\ worker'.meta = meta'
  BY <1>2 DEF IsParse
<1> QED
  BY <1>1, <1>3 DEF StatusChange, BeginParse

\* The blocks of a parsed page.
LEMMA ParsedPageType ==
    ASSUME NEW r \in Nat, NEW p \in Pages
    PROVE  ParsedPage(r, p) \in Page
<1>1. p \in Nat /\ Layout[p] \in Seq(Nat)
  BY PageAssumption, ElementOfSeq, LenProperties DEF Pages
<1> DEFINE blocks == [n \in DOMAIN Layout[p] |-> [id |-> <<r, p, n>>, size |-> Layout[p][n]]]
<1>2. DOMAIN Layout[p] = 1 .. Len(Layout[p]) /\ Len(Layout[p]) \in Nat
  BY <1>1, LenProperties
<1>3. \A n \in 1 .. Len(Layout[p]) : Layout[p][n] \in Nat
  BY <1>1, ElementOfSeq
<1>4. \A n \in 1 .. Len(Layout[p]) : [id |-> <<r, p, n>>, size |-> Layout[p][n]] \in Block
  BY <1>1, <1>2, <1>3 DEF Block
<1>5. blocks \in [1 .. Len(Layout[p]) -> Block]
  BY <1>2, <1>4
<1>6. blocks \in Seq(Block)
  BY <1>2, <1>5, SeqDef
<1> HIDE DEF blocks
<1>7. CASE p \in Scanned
  <2>1. ParsedPage(r, p) = [mode |-> "needs_vision", blocks |-> blocks]
    BY <1>7 DEF ParsedPage, blocks
  <2> QED
    BY <1>6, <2>1 DEF Page
<1>8. CASE p \notin Scanned
  <2>1. ParsedPage(r, p) = [mode |-> "text", blocks |-> blocks]
    BY <1>8 DEF ParsedPage, blocks
  <2> QED
    BY <1>6, <2>1 DEF Page
<1> QED
  BY <1>7, <1>8

LEMMA FinishParseStep == ASSUME IInv, FinishParse PROVE IInv' /\ EntriesKept
<1>1. Busy /\ worker.at = "parse"
  BY DEF FinishParse, At
<1>2. IsParse(worker) /\ IsCopy(worker.meta) /\ IsMeta(worker.meta) /\ rev \in Nat
  BY <1>1 DEF IInv, Typed, IsProcess, Busy, IsCopy
<1>3. IsMeta([worker.meta EXCEPT !.parse = "parsed"])
      /\ Agree([worker.meta EXCEPT !.parse = "parsed"], worker.meta)
  BY <1>2, StatusFacts
<1>4. IsMeta(meta') /\ Agree(meta', [worker.meta EXCEPT !.parse = "parsed"]) /\ Unready(meta')
  BY <1>3, QueuedFacts DEF FinishParse
<1>5. IsMeta(meta') /\ Agree(meta', worker.meta) /\ Unready(meta') /\ meta'.text = meta.text
  BY <1>2, <1>3, <1>4 DEF Agree, IsCopy
<1>6. rev' = rev + 1 /\ rev' \in Nat
  BY <1>2 DEF FinishParse
<1>7. pages' \in [Pages -> Page]
  BY <1>6, ParsedPageType DEF FinishParse
<1>8. worker' = [job |-> "parse", at |-> "done", meta |-> worker.meta]
  BY <1>2 DEF FinishParse, IsParse
<1>9. IsParse(worker') /\ worker'.meta = worker.meta /\ ~Reading' /\ ~Unfinished'
  BY <1>8 DEF IsParse, Reading, Unfinished
<1>10. answered' = NoAnswers /\ chunks' = chunks /\ asked' = asked
  BY DEF FinishParse
<1>11. \A m : IsCopy(m) => IsCopy(m)' /\ ~Now(m.read)'
  <2> SUFFICES ASSUME NEW m, IsCopy(m) PROVE IsCopy(m)' /\ ~Now(m.read)'
    OBVIOUS
  <2>1. m.read.rev \in 0 .. rev' /\ m.read.rev # rev'
    BY <1>2, <1>6 DEF IsCopy
  <2> QED
    BY <1>5, <2>1 DEF IsCopy, Now
<1>12. IsCopy(meta)'
  <2>1. /\ meta'.read.rev \in 0 .. rev' /\ meta'.read.text \in 0 .. meta'.text
        /\ IsRead(meta'.read)
    BY <1>2, <1>5, <1>6 DEF IsCopy, Agree
  <2> QED
    BY <1>5, <2>1 DEF IsCopy
<1>13. Typed'
  <2>1. chunks' = [rev |-> chunks'.rev, fragments |-> chunks'.fragments] /\ chunks'.rev \in 0 .. rev'
    BY <1>2, <1>6, <1>10 DEF IInv, Typed
  <2>2. (\A copy \in asked' : IsCopy(copy)') /\ IsCopy(worker.meta)'
    BY <1>2, <1>9, <1>10, <1>11 DEF IInv, Typed
  <2>3. IsAnswered(answered')
    BY <1>10 DEF NoAnswers, IsAnswered
  <2> QED
    BY <1>6, <1>7, <1>9, <1>12, <2>1, <2>2, <2>3 DEF Typed
<1>14. Ordered' /\ NotYetReady'
  <2>1. \A copy \in asked' : ~Now(copy.read)'
    BY <1>10, <1>11 DEF IInv, Typed
  <2> QED
    BY <1>9, <2>1 DEF Ordered, NotYetReady, Continues
<1>15. chunks'.rev # rev'
  BY <1>2, <1>6, <1>10 DEF IInv, Typed
<1>16. Indexed'
  BY <1>9, <1>15 DEF Indexed, Truthful
<1>17. IndexIsOfPresentText'
  BY <1>5 DEF IndexIsOfPresentText, Settled, Unready
<1>18. EntriesKept
  BY <1>2, <1>6 DEF EntriesKept
<1> QED
  BY <1>13, <1>14, <1>16, <1>17, <1>18 DEF IInv

LEMMA BeginProcessStep == ASSUME IInv, BeginProcess PROVE IInv' /\ EntriesKept
<1>1. IsMeta(meta') /\ Agree(meta', meta) /\ meta'.ai = "running"
  <2>1. IsMeta(meta) /\ meta' = [meta EXCEPT !.ai = "running"]
    BY DEF BeginProcess, IInv, Typed, IsCopy
  <2> QED
    BY <2>1, StatusFacts
<1>2. worker' = [job |-> "process", at |-> "read", meta |-> meta',
                 found |-> Resumed(meta, rev), batch |-> <<>>]
  BY DEF BeginProcess
<1>3. /\ IsRead(Resumed(meta, rev))
      /\ Resumed(meta, rev).rev = rev /\ Resumed(meta, rev).text = meta.text
      /\ meta.read.rev = rev /\ meta.read.text = meta.text => Resumed(meta, rev) = meta.read
  BY ResumedFacts DEF IInv, Typed, IsCopy
<1>4. /\ worker'.job = "process" /\ worker'.at = "read" /\ worker'.meta = meta'
      /\ worker'.found = Resumed(meta, rev)
  BY <1>2
<1>5. IsProcess(worker')
  BY <1>2, <1>3, <1>4 DEF IsProcess
<1>6. UNCHANGED <<rev, pages, chunks, asked, answered>>
  BY DEF BeginProcess
<1>7. /\ meta'.read = meta.read /\ meta'.text = meta.text /\ meta'.index = meta.index
  BY <1>1 DEF Agree
<1>8. \A m : IsCopy(m)' <=> IsCopy(m)
  BY <1>6, <1>7 DEF IsCopy
<1>9. IsCopy(meta')
  BY <1>1, <1>7 DEF IInv, Typed, IsCopy
<1>10. Typed'
  <2>1. (\A copy \in asked' : IsCopy(copy)') /\ IsCopy(worker.meta)' /\ IsCopy(meta)'
    BY <1>4, <1>6, <1>8, <1>9 DEF IInv, Typed
  <2> QED
    BY <1>5, <1>6, <2>1 DEF IInv, Typed
<1>11. \A r : Now(r)' <=> Now(r)
  BY <1>6, <1>7 DEF Now
<1>12. \A r, s : Continues(r, s)' <=> Continues(r, s)
  BY <1>11 DEF Continues
<1>13. Now(worker'.found) /\ Continues(worker'.found, meta.read) /\ Continues(meta.read, meta.read)
  BY <1>3, <1>4 DEF Now, Continues
<1>14. Ordered'
  BY <1>4, <1>6, <1>7, <1>11, <1>12, <1>13 DEF IInv, Ordered
<1>15. NotYetReady'
  BY <1>1, <1>4 DEF NotYetReady, Settled
<1>16. Untranscribed' = Untranscribed /\ Covered' = Covered
  BY <1>6 DEF Untranscribed, Covered, BlocksInForce
<1>17. \A m : Truthful(m)' <=> Truthful(m)
  BY <1>6, <1>16 DEF Truthful
<1>18. Truthful(meta')
  BY <1>7 DEF IInv, Indexed, Truthful
<1>19. Indexed'
  BY <1>4, <1>6, <1>17, <1>18 DEF IInv, Indexed, Unfinished
<1>20. IndexIsOfPresentText'
  BY <1>1 DEF IndexIsOfPresentText, Settled
<1>21. EntriesKept
  BY <1>7 DEF EntriesKept
<1> QED
  BY <1>10, <1>14, <1>15, <1>19, <1>20, <1>21 DEF IInv

LEMMA TranscribeStep == ASSUME IInv, Transcribe PROVE IInv' /\ EntriesKept
<1>1. Busy /\ worker.at = "read"
  BY DEF Transcribe, At
<1>2. Unfinished /\ ~Settled
  BY <1>1, ProcessFacts
<1>3. UNCHANGED <<rev, meta, chunks, worker, answered>>
  BY DEF Transcribe
<1>4. Untranscribed # {}
  BY DEF Transcribe
<1>5. PICK p \in Untranscribed :
          pages' = [pages EXCEPT ![p] =
                      [mode |-> "vision",
                       blocks |-> <<[id |-> <<rev, p, 0>>, size |-> Transcript]>> \o @.blocks]]
  BY DEF Transcribe
<1>6. /\ p \in Pages /\ p \in Nat
      /\ pages[p] \in Page /\ pages[p].blocks \in Seq(Block) /\ rev \in Nat
  BY PageAssumption, LenProperties DEF IInv, Typed, Untranscribed, Pages, Page
<1>7. [id |-> <<rev, p, 0>>, size |-> Transcript] \in Block
  BY <1>6, PageAssumption DEF Block
<1>8. <<[id |-> <<rev, p, 0>>, size |-> Transcript]>> \o pages[p].blocks \in Seq(Block)
  BY <1>6, <1>7
<1>9. pages' \in [Pages -> Page]
  <2> DEFINE text == <<[id |-> <<rev, p, 0>>, size |-> Transcript]>> \o pages[p].blocks
             page == [mode |-> "vision", blocks |-> text]
  <2>1. page \in Page
    BY <1>8 DEF Page
  <2>2. pages' = [pages EXCEPT ![p] = page]
    BY <1>5
  <2> HIDE DEF page
  <2> QED
    BY <1>6, <2>1, <2>2 DEF IInv, Typed
<1>10. UNCHANGED <<asked>> /\ (\A m : IsCopy(m)' <=> IsCopy(m)) /\ Busy' = Busy
  BY <1>3 DEF Transcribe, IsCopy, Busy
<1>11. Typed'
  BY <1>3, <1>9, <1>10 DEF IInv, Typed
<1>12. Ordered' /\ NotYetReady'
  <2>1. Settled' = Settled /\ Unfinished' = Unfinished /\ Reading' = Reading
    BY <1>3, <1>10 DEF Settled, Unfinished, Reading
  <2>2. (\A r : Now(r)' <=> Now(r)) /\ \A r, s : Continues(r, s)' <=> Continues(r, s)
    BY <1>3 DEF Now, Continues
  <2> QED
    BY <1>3, <1>10, <2>1, <2>2 DEF IInv, Ordered, NotYetReady
<1>13. \A m : Truthful(m) => Truthful(m)'
  BY <1>3, <1>4 DEF Truthful
<1>14. Indexed'
  <2>1. worker'.at = "read"
    BY <1>1, <1>3
  <2> QED
    BY <1>3, <1>10, <1>13, <2>1 DEF IInv, Indexed
<1>15. IndexIsOfPresentText'
  BY <1>2, <1>3 DEF IndexIsOfPresentText, Settled
<1>16. EntriesKept
  BY <1>3 DEF EntriesKept
<1> QED
  BY <1>11, <1>12, <1>14, <1>15, <1>16 DEF IInv

LEMMA AskStep == ASSUME IInv, Ask PROVE IInv' /\ EntriesKept
<1>1. Busy /\ worker.at = "read"
  BY DEF Ask, At
<1>2. PICK b : worker' = [worker EXCEPT !.batch = b]
  BY DEF Ask
<1>3. /\ IsProcess(worker) /\ worker.job = "process" /\ Unfinished /\ IsCopy(worker.meta) /\ worker.meta.ai = "running"
      /\ ~Settled /\ Now(worker.found)
  BY <1>1, ProcessFacts
<1>4. worker' = [job |-> "process", at |-> worker.at, meta |-> worker.meta,
                 found |-> worker.found, batch |-> b]
  BY <1>2, <1>3 DEF IsProcess
<1>5. /\ worker'.job = "process" /\ worker'.at = worker.at /\ worker'.meta = worker.meta
      /\ worker'.found = worker.found
  BY <1>4
<1>6. IsProcess(worker')
  BY <1>3, <1>4, <1>5 DEF IsProcess
<1>7. UNCHANGED <<rev, pages, meta, chunks, asked, answered>>
  BY DEF Ask
<1>8. Handled
  BY <1>3, <1>5, <1>6, <1>7 DEF Handled, IInv, Typed, Continues, IsCopy
<1>9. Typed' /\ Ordered' /\ EntriesKept
  BY <1>7, <1>8, HandledStep DEF IInv, Typed
<1>10. NotYetReady'
  BY <1>3, <1>5, <1>7 DEF NotYetReady, Settled
<1>11. Indexed'
  BY <1>1, <1>5, <1>7, <1>8, HandledIndex
<1>12. IndexIsOfPresentText'
  BY <1>3, <1>7 DEF IndexIsOfPresentText, Settled
<1> QED
  BY <1>9, <1>10, <1>11, <1>12 DEF IInv

Added(r, batches, notes, entries, reading) ==
    [r EXCEPT !.batches = batches, !.notes = notes, !.entries = entries, !.reading = reading]

LEMMA AddedFacts ==
    ASSUME NEW r, IsRead(r), NEW batches, NEW notes \in BOOLEAN, NEW entries, NEW reading
    PROVE  Added(r, batches, notes, entries, reading)
           = [rev |-> r.rev, text |-> r.text, batches |-> batches, notes |-> notes,
              entries |-> entries, reading |-> reading]
<1> DEFINE a == [r EXCEPT !.batches = batches]
           b == [a EXCEPT !.notes = notes]
           c == [b EXCEPT !.entries = entries]
           d == [c EXCEPT !.reading = reading]
<1>1. d = Added(r, batches, notes, entries, reading)
  BY DEF Added
<1>2. a = [rev |-> r.rev, text |-> r.text, batches |-> batches, notes |-> r.notes,
           entries |-> r.entries, reading |-> r.reading]
  BY DEF IsRead
<1> HIDE DEF a
<1>3. b = [rev |-> r.rev, text |-> r.text, batches |-> batches, notes |-> notes,
           entries |-> r.entries, reading |-> r.reading]
  BY <1>2
<1> HIDE DEF b
<1>4. c = [rev |-> r.rev, text |-> r.text, batches |-> batches, notes |-> notes,
           entries |-> entries, reading |-> r.reading]
  BY <1>3
<1> HIDE DEF c
<1>5. d = [rev |-> r.rev, text |-> r.text, batches |-> batches, notes |-> notes,
           entries |-> entries, reading |-> reading]
  BY <1>4
<1> HIDE DEF d
<1> QED
  BY <1>1, <1>5

\* The answer to a batch: the checkpoint continues what was found before.
LEMMA AnswerStep ==
    ASSUME IInv, NEW findings, NEW reading, NEW split, Answer(findings, reading, split)
    PROVE  IInv' /\ EntriesKept
<1> DEFINE unmatched == Matched(findings) # findings
           batches == worker.found.batches \cup {worker.batch}
           notes == worker.found.notes \/ unmatched
           entries == IF role = "tender" THEN Merged(worker.found.entries, Matched(findings))
                                         ELSE worker.found.entries
           lines == IF Len(split) = 1 THEN worker.found.reading \cup reading
                                      ELSE worker.found.reading
           found == Added(worker.found, batches, notes, entries, lines)
<1>1. Busy /\ worker.at = "read"
  BY DEF Answer, At
<1>2. /\ IsProcess(worker) /\ worker.job = "process" /\ Unfinished
      /\ IsCopy(worker.meta) /\ worker.meta.ai = "running"
      /\ IsRead(worker.found) /\ Now(worker.found)
  BY <1>1, ProcessFacts
<1>3. /\ meta' = Saved(found, worker.meta)
      /\ worker' = [worker EXCEPT !.batch = <<>>, !.found = found, !.meta = meta']
      /\ UNCHANGED <<rev, pages, chunks, asked>>
  BY DEF Answer, Added
<1>4. found = [rev |-> worker.found.rev, text |-> worker.found.text, batches |-> batches,
               notes |-> notes, entries |-> entries, reading |-> lines]
  <2>1. notes \in BOOLEAN
    OBVIOUS
  <2> HIDE DEF batches, entries, lines, notes
  <2> QED
    BY <1>2, <2>1, AddedFacts
<1>5. IsRead(found) /\ Now(found) /\ Continues(found, worker.found)
  <2>1. worker.found.entries \subseteq entries /\ worker.found.batches \subseteq batches
    BY DEF Merged
  <2>2. notes \in BOOLEAN
    OBVIOUS
  <2> HIDE DEF found, batches, entries, lines, notes, unmatched
  <2>3. /\ found.rev = worker.found.rev /\ found.text = worker.found.text
        /\ found.batches = batches
        /\ found.notes = notes /\ found.entries = entries /\ found.reading = lines
    BY <1>4
  <2> QED
    BY <1>2, <1>4, <2>1, <2>2, <2>3 DEF IsRead, Now, Continues
<1> HIDE DEF found
<1>6. /\ IsMeta(meta') /\ meta'.read = found /\ meta'.text = meta.text
      /\ meta'.index = worker.meta.index /\ meta'.ai = "running"
  BY <1>2, <1>3, SavedFacts DEF IsCopy
<1>7. worker' = [job |-> "process", at |-> "read", meta |-> meta', found |-> found, batch |-> <<>>]
  BY <1>1, <1>2, <1>3 DEF IsProcess
<1>8. /\ worker'.job = "process" /\ worker'.at = "read" /\ worker'.meta = meta'
      /\ worker'.found = found
  BY <1>7
<1>9. IsProcess(worker')
  BY <1>5, <1>7, <1>8 DEF IsProcess
<1>10. IsAnswered(answered')
  BY Zenon DEF Answer, IsAnswered
<1>11. Handled
  BY <1>2, <1>3, <1>5, <1>6, <1>8, <1>9, <1>10 DEF Handled
<1>12. Typed' /\ Ordered' /\ EntriesKept
  BY <1>3, <1>11, HandledStep DEF IInv, Typed
<1>13. NotYetReady' /\ IndexIsOfPresentText'
  BY <1>6, <1>8 DEF NotYetReady, Settled, IndexIsOfPresentText
<1>14. Indexed'
  BY <1>3, <1>6, <1>8, <1>11, HandledIndex
<1> QED
  BY <1>12, <1>13, <1>14 DEF IInv

\* The end of reading.
LEMMA ReadDoneStep == ASSUME IInv, ReadDone PROVE IInv' /\ EntriesKept
<1>1. Busy /\ worker.at = "read"
  BY DEF ReadDone, At
<1>2. /\ IsProcess(worker) /\ worker.job = "process" /\ Unfinished /\ ~Settled
      /\ IsCopy(worker.meta) /\ worker.meta.ai = "running"
      /\ IsRead(worker.found) /\ Now(worker.found)
  BY <1>1, ProcessFacts
<1>3. /\ UNCHANGED <<rev, pages, chunks, asked, answered>> /\ Untranscribed = {}
      /\ worker' = [worker EXCEPT !.at = "index",
                                  !.meta = IF role = "tender" THEN meta' ELSE @]
      /\ meta' = IF role = "tender" THEN Saved(worker.found, worker.meta) ELSE meta
  BY DEF ReadDone
<1> DEFINE kept == IF role = "tender" THEN meta' ELSE worker.meta
<1>4. worker' = [job |-> "process", at |-> "index", meta |-> kept, found |-> worker.found,
                 batch |-> worker.batch]
  BY <1>2, <1>3 DEF IsProcess
<1>5. /\ worker'.job = "process" /\ worker'.at = "index" /\ worker'.meta = kept
      /\ worker'.found = worker.found
  BY <1>4
<1>6. IsProcess(worker')
  BY <1>2, <1>4, <1>5 DEF IsProcess
<1>7. /\ meta' = kept \/ meta' = meta
      /\ IsMeta(kept) /\ kept.text = meta.text /\ kept.read \in {worker.meta.read, worker.found}
      /\ kept.index = worker.meta.index /\ kept.ai = "running"
      /\ ~Settled'
  <2>1. CASE role = "tender"
    <3>1. /\ IsMeta(meta') /\ meta'.read = worker.found /\ meta'.text = worker.meta.text
          /\ meta'.index = worker.meta.index /\ meta'.ai = "running"
      BY <1>2, <1>3, <2>1, SavedFacts DEF IsCopy
    <3>2. kept = meta'
      BY <2>1
    <3> QED
      BY <1>2, <3>1, <3>2 DEF IsCopy, Settled
  <2>2. CASE role # "tender"
    <3>1. meta' = meta /\ kept = worker.meta
      BY <1>3, <2>2
    <3> QED
      BY <1>2, <3>1 DEF IsCopy, Settled
  <2> QED
    BY <2>1, <2>2
<1> HIDE DEF kept
<1>8. Handled
  BY <1>2, <1>3, <1>5, <1>6, <1>7 DEF Handled, IInv, Typed, Continues
<1>9. Typed' /\ Ordered' /\ EntriesKept
  BY <1>3, <1>8, HandledStep DEF IInv, Typed
<1>10. NotYetReady' /\ IndexIsOfPresentText'
  BY <1>5, <1>7 DEF NotYetReady, IndexIsOfPresentText
<1>11. Indexed'
  BY <1>3, <1>5, <1>7, <1>8, HandledIndex
<1> QED
  BY <1>9, <1>10, <1>11 DEF IInv

\* index_document: either the chunks are made of the text as it is, or they already were.
LEMMA IndexStep == ASSUME IInv, Index PROVE IInv' /\ EntriesKept
<1> DEFINE rebuild == chunks.fragments = {} \/ OutOfDate(worker.meta)
           at == IF role = "evidence" THEN "embed" ELSE "finish"
           indexed == [worker.meta EXCEPT !.index = worker.meta.text]
           kept == IF rebuild THEN meta' ELSE worker.meta
<1>1. Busy /\ worker.at = "index"
  BY DEF Index, At
<1>2. /\ IsProcess(worker) /\ worker.job = "process" /\ Reading /\ Unfinished /\ ~Settled
      /\ IsCopy(worker.meta) /\ worker.meta.ai = "running"
      /\ IsRead(worker.found) /\ Now(worker.found)
  BY <1>1, ProcessFacts
<1>3. /\ UNCHANGED <<rev, pages, asked, answered>>
      /\ chunks' = IF rebuild
                   THEN [rev |-> rev,
                         fragments |-> UNION {Chunks(pages[p].blocks) : p \in Pages}]
                   ELSE chunks
      /\ meta' = IF rebuild THEN indexed ELSE meta
      /\ worker' = [worker EXCEPT !.at = at, !.meta = kept]
  BY DEF Index
<1>4. Untranscribed = {}
  BY <1>1, <1>2 DEF IInv, Indexed
<1>5. worker' = [job |-> "process", at |-> at, meta |-> kept, found |-> worker.found,
                 batch |-> worker.batch]
  <2> HIDE DEF at, kept
  <2> QED
    BY <1>2, <1>3 DEF IsProcess
<1>6. at \in {"embed", "finish"}
  OBVIOUS
<1>7. /\ worker'.job = "process" /\ worker'.at = at /\ worker'.meta = kept
      /\ worker'.found = worker.found
  BY <1>5
<1>8. IsProcess(worker')
  BY <1>2, <1>5, <1>6, <1>7 DEF IsProcess
<1>9. /\ IsMeta(indexed) /\ indexed.read = worker.meta.read /\ indexed.text = meta.text
      /\ indexed.ai = "running"
  <2>1. worker.meta.text \in Nat /\ IsMeta(worker.meta) /\ worker.meta.text = meta.text
    BY <1>2 DEF IsMeta, IsCopy
  <2> QED
    BY <1>2, <2>1 DEF IsMeta
<1> HIDE DEF indexed, at
<1>10. Covered' /\ Untranscribed' = {}
  <2>1. Untranscribed' = {} /\ BlocksInForce' = BlocksInForce
    BY <1>3, <1>4 DEF Untranscribed, BlocksInForce
  <2>2. CASE rebuild
    <3>1. chunks'.fragments = UNION {Chunks(pages[p].blocks) : p \in Pages}
      BY <1>3, <2>2
    <3>2. \A p \in Pages : pages[p].blocks \in Seq(Block)
      BY DEF IInv, Typed, Page
    <3> QED
      BY <2>1, <3>1, <3>2, IndexCovers DEF Covered
  <2>3. CASE ~rebuild
    <3>1. chunks.fragments # {} /\ chunks.rev = rev /\ worker.meta.index = worker.meta.text
      BY <2>3 DEF OutOfDate
    <3>2. Covered /\ chunks' = chunks
      BY <1>1, <1>3, <2>3, <3>1 DEF IInv, Indexed, Truthful
    <3> QED
      BY <2>1, <3>2 DEF Covered
  <2> QED
    BY <2>2, <2>3
<1>11. /\ meta' = kept \/ meta' = meta
       /\ IsMeta(kept) /\ kept.text = meta.text /\ kept.read = worker.meta.read
       /\ kept.ai = "running" /\ ~Settled'
  <2>1. CASE rebuild
    <3>1. meta' = indexed /\ kept = indexed
      BY <1>3, <2>1
    <3> QED
      BY <1>9, <3>1 DEF Settled
  <2>2. CASE ~rebuild
    <3>1. meta' = meta /\ kept = worker.meta
      BY <1>3, <2>2
    <3> QED
      BY <1>2, <3>1 DEF IsCopy, Settled
  <2> QED
    BY <2>1, <2>2
<1>12. chunks' = [rev |-> chunks'.rev, fragments |-> chunks'.fragments] /\ chunks'.rev \in 0 .. rev
  <2>1. CASE rebuild
    <3>1. chunks' = [rev |-> rev,
                     fragments |-> UNION {Chunks(pages[p].blocks) : p \in Pages}]
      BY <1>3, <2>1
    <3> QED
      BY <3>1 DEF IInv, Typed
  <2>2. CASE ~rebuild
    BY <1>3, <2>2 DEF IInv, Typed
  <2> QED
    BY <2>1, <2>2
<1> HIDE DEF kept, rebuild
<1>13. Handled
  BY <1>2, <1>3, <1>7, <1>8, <1>11 DEF Handled, IInv, Typed, Continues
<1>14. Typed' /\ Ordered' /\ EntriesKept
  BY <1>12, <1>13, HandledStep
<1>15. NotYetReady' /\ IndexIsOfPresentText'
  BY <1>7, <1>11 DEF NotYetReady, IndexIsOfPresentText
<1>16. Indexed'
  BY <1>10 DEF Indexed, Truthful
<1> QED
  BY <1>14, <1>15, <1>16 DEF IInv

LEMMA EmbedStep == ASSUME IInv, Embed PROVE IInv' /\ EntriesKept
<1>1. Busy /\ worker.at = "embed"
  BY DEF Embed, At
<1>2. /\ IsProcess(worker) /\ worker.job = "process" /\ Unfinished
      /\ IsCopy(worker.meta) /\ IsMeta(worker.meta) /\ worker.meta.ai = "running"
      /\ IsRead(worker.found) /\ Now(worker.found)
  BY <1>1, ProcessFacts DEF IsCopy
<1>3. /\ UNCHANGED <<rev, pages, chunks, asked, answered>>
      /\ meta' = [worker.meta EXCEPT !.embedding = jobs.process.model]
      /\ worker' = [worker EXCEPT !.at = "finish", !.meta = meta']
  BY DEF Embed
<1>4. IsMeta(meta') /\ Agree(meta', worker.meta) /\ meta'.ai = "running"
  BY <1>2, <1>3, StatusFacts
<1>5. worker' = [job |-> "process", at |-> "finish", meta |-> meta', found |-> worker.found,
                 batch |-> worker.batch]
  BY <1>2, <1>3 DEF IsProcess
<1>6. /\ worker'.job = "process" /\ worker'.at = "finish" /\ worker'.meta = meta'
      /\ worker'.found = worker.found
  BY <1>5
<1>7. IsProcess(worker')
  BY <1>2, <1>5, <1>6 DEF IsProcess
<1>8. Handled
  BY <1>2, <1>3, <1>4, <1>6, <1>7 DEF Handled, IInv, Typed, Continues, Agree, IsCopy
<1>9. Typed' /\ Ordered' /\ EntriesKept
  BY <1>3, <1>8, HandledStep DEF IInv, Typed
<1>10. NotYetReady' /\ IndexIsOfPresentText'
  BY <1>4, <1>6 DEF NotYetReady, Settled, IndexIsOfPresentText
<1>11. Untranscribed = {} /\ Covered
  BY <1>1, <1>2 DEF IInv, Indexed
<1>12. Indexed'
  BY <1>3, <1>4, <1>6, <1>8, <1>11, HandledIndex DEF Agree
<1> QED
  BY <1>9, <1>10, <1>12 DEF IInv

\* A document becomes ready.
LEMMA FinishStep == ASSUME IInv, Finish PROVE IInv' /\ EntriesKept
<1>1. Busy /\ worker.at = "finish"
  BY DEF Finish, At
<1>2. /\ IsProcess(worker) /\ worker.job = "process" /\ Unfinished
      /\ IsCopy(worker.meta) /\ IsMeta(worker.meta)
      /\ IsRead(worker.found) /\ Now(worker.found)
  BY <1>1, ProcessFacts DEF IsCopy
<1>3. /\ UNCHANGED <<rev, pages, chunks, asked, answered>>
      /\ worker' = [worker EXCEPT !.at = "done", !.meta = meta']
  BY DEF Finish
<1>4. IsMeta(meta') /\ Agree(meta', worker.meta)
  <2>1. PICK ai : meta' = [worker.meta EXCEPT !.ai = ai]
    BY DEF Finish
  <2> QED
    BY <1>2, <2>1, StatusFacts
<1>5. worker' = [job |-> "process", at |-> "done", meta |-> meta', found |-> worker.found,
                 batch |-> worker.batch]
  BY <1>2, <1>3 DEF IsProcess
<1>6. /\ worker'.job = "process" /\ worker'.at = "done" /\ worker'.meta = meta'
      /\ worker'.found = worker.found
  BY <1>5
<1>7. IsProcess(worker')
  BY <1>2, <1>5, <1>6 DEF IsProcess
<1>8. Handled
  BY <1>2, <1>3, <1>4, <1>6, <1>7 DEF Handled, IInv, Typed, Continues, Agree, IsCopy
<1>9. Typed' /\ Ordered' /\ EntriesKept
  BY <1>3, <1>8, HandledStep DEF IInv, Typed
<1>10. Untranscribed = {} /\ Covered /\ Covered' = Covered
  BY <1>1, <1>2, <1>3 DEF IInv, Indexed, Covered, BlocksInForce
<1>11. NotYetReady' /\ IndexIsOfPresentText'
  BY <1>6, <1>10 DEF NotYetReady, Unfinished, IndexIsOfPresentText, Covered
<1>12. Indexed'
  BY <1>3, <1>4, <1>6, <1>8, <1>10, HandledIndex DEF Agree
<1> QED
  BY <1>9, <1>11, <1>12 DEF IInv

LEMMA CompleteChange == ASSUME IInv, Complete PROVE StatusChange
<1>1. UNCHANGED <<role, evidence, rev, pages, meta, chunks, asked, answered>> /\ worker' = Idle
  BY DEF Complete
<1>2. IsMeta(meta') /\ Agree(meta', meta) /\ meta'.ai = meta.ai
  BY <1>1 DEF IInv, Typed, IsCopy, Agree
<1> QED
  BY <1>1, <1>2 DEF StatusChange

LEMMA StopParseChange ==
    ASSUME IInv, NEW crash \in BOOLEAN, StopParse(crash) PROVE StatusChange
<1>1. UNCHANGED <<role, evidence, rev, pages, chunks, asked, answered>> /\ worker' = Idle
  BY DEF StopParse
<1>2. \/ meta' = [meta EXCEPT !.parse = "canceled"]
      \/ meta' = [meta EXCEPT !.parse = "queued"]
      \/ meta' = meta
      \/ meta' = [meta EXCEPT !.parse = "failed"]
  BY Zenon DEF StopParse
<1>3. IsMeta(meta)
  BY DEF IInv, Typed, IsCopy
<1>4. \A x : /\ IsMeta([meta EXCEPT !.parse = x]) /\ Agree([meta EXCEPT !.parse = x], meta)
             /\ [meta EXCEPT !.parse = x].ai = meta.ai
  BY <1>3, StatusFacts
<1>5. Agree(meta, meta)
  BY DEF Agree
<1>6. IsMeta(meta') /\ Agree(meta', meta) /\ meta'.ai = meta.ai
  BY <1>2, <1>3, <1>4, <1>5
<1> QED
  BY <1>1, <1>6 DEF StatusChange

LEMMA StopProcessChange == ASSUME IInv, StopProcess PROVE StatusChange
<1>1. UNCHANGED <<role, evidence, rev, pages, chunks, asked, answered>> /\ worker' = Idle
  BY DEF StopProcess
<1>2. PICK x \in {"canceled", "failed"} : meta' = [meta EXCEPT !.ai = x]
  BY DEF StopProcess
<1> DEFINE n == [meta EXCEPT !.ai = x]
<1>3. IsMeta(n) /\ Agree(n, meta) /\ n.ai = x
  <2>1. IsMeta(meta)
    BY DEF IInv, Typed, IsCopy
  <2> QED
    BY <2>1, StatusFacts, Zenon
<1> HIDE DEF n
<1>4. Unready(meta')
  BY <1>2, <1>3 DEF Unready, n
<1>5. IsMeta(meta') /\ Agree(meta', meta)
  BY <1>2, <1>3 DEF n
<1> QED
  BY <1>1, <1>4, <1>5 DEF StatusChange

LEMMA ReparseChange == ASSUME IInv, Reparse PROVE StatusChange
<1>1. UNCHANGED <<role, evidence, rev, pages, chunks, asked, answered, worker>>
      /\ meta' = [meta EXCEPT !.parse = "queued", !.ai = "pending"]
  BY DEF Reparse
<1> DEFINE n == [meta EXCEPT !.parse = "queued"]
<1>2. IsMeta(n) /\ Agree(n, meta)
  <2>1. IsMeta(meta)
    BY DEF IInv, Typed, IsCopy
  <2> QED
    BY <2>1, StatusFacts
<1>3. meta' = [n EXCEPT !.ai = "pending"]
  BY <1>1
<1> HIDE DEF n
<1>4. IsMeta(meta') /\ Agree(meta', n) /\ meta'.ai = "pending"
  BY <1>2, <1>3, StatusFacts
<1>5. IsMeta(meta') /\ Agree(meta', meta) /\ Unready(meta')
  BY <1>2, <1>4 DEF Agree, Unready
<1> QED
  BY <1>1, <1>5 DEF StatusChange

\* POST /process reads the metadata, and stores them with another status.
LEMMA ProcessReadStep == ASSUME IInv, ProcessRead PROVE IInv' /\ EntriesKept
<1>1. asked' = {meta} /\ UNCHANGED <<rev, pages, meta, chunks, worker, answered>>
  BY DEF ProcessRead
<1>2. Busy' = Busy /\ Reading' = Reading /\ Unfinished' = Unfinished /\ Settled' = Settled
  BY <1>1 DEF Busy, Reading, Unfinished, Settled
<1>3. \A m : IsCopy(m)' <=> IsCopy(m)
  BY <1>1 DEF IsCopy
<1>4. Typed'
  BY <1>1, <1>2, <1>3 DEF IInv, Typed, IsCopy
<1>5. (\A r : Now(r)' <=> Now(r)) /\ \A r, s : Continues(r, s)' <=> Continues(r, s)
  BY <1>1 DEF Now, Continues
<1>6. Continues(meta.read, meta.read)
  BY DEF Continues
<1>7. Ordered' /\ NotYetReady'
  BY <1>1, <1>2, <1>5, <1>6 DEF IInv, Ordered, NotYetReady
<1>8. Untranscribed' = Untranscribed /\ Covered' = Covered
  BY <1>1 DEF Untranscribed, Covered, BlocksInForce
<1>9. \A m : Truthful(m)' <=> Truthful(m)
  BY <1>1, <1>8 DEF Truthful
<1>10. Indexed'
  BY <1>1, <1>2, <1>8, <1>9 DEF IInv, Indexed
<1>11. IndexIsOfPresentText'
  BY <1>1, <1>2 DEF IInv, IndexIsOfPresentText, BlocksInForce
<1>12. EntriesKept
  BY <1>1 DEF EntriesKept
<1> QED
  BY <1>4, <1>7, <1>10, <1>11, <1>12 DEF IInv

LEMMA ProcessStoreStep == ASSUME IInv, ProcessStore PROVE IInv' /\ EntriesKept
<1>1. PICK copy \in asked : meta' = Queued(copy)
  BY DEF ProcessStore
<1>2. /\ asked' = {} /\ UNCHANGED <<rev, pages, chunks, worker>>
      /\ \E lost : answered' = [answered EXCEPT !.lost = lost]
  BY DEF ProcessStore
<1>3. IsCopy(copy) /\ IsMeta(copy) /\ Continues(meta.read, copy.read) /\ Truthful(copy)
  BY DEF IInv, Typed, Ordered, Indexed, IsCopy
<1>4. IsMeta(meta') /\ Agree(meta', copy) /\ Unready(meta')
  BY <1>1, <1>3, QueuedFacts
<1>5. meta'.read = copy.read /\ meta'.text = meta.text /\ meta'.index = copy.index
      /\ copy.text = meta.text
  BY <1>3, <1>4 DEF Agree, IsCopy
<1>6. Busy' = Busy /\ Reading' = Reading /\ Unfinished' = Unfinished /\ ~Settled'
  BY <1>2, <1>4 DEF Busy, Reading, Unfinished, Settled, Unready
<1>7. \A m : IsCopy(m)' <=> IsCopy(m)
  BY <1>2, <1>5 DEF IsCopy
<1>8. IsCopy(meta')
  BY <1>3, <1>4, <1>5 DEF IsCopy
<1>9. IsAnswered(answered')
  BY <1>2 DEF IInv, Typed, IsAnswered
<1>10. Typed'
  BY <1>2, <1>6, <1>7, <1>8, <1>9 DEF IInv, Typed, IsCopy
<1>11. (\A r : Now(r)' <=> Now(r)) /\ \A r, s : Continues(r, s)' <=> Continues(r, s)
  BY <1>2, <1>5 DEF Now, Continues
<1>12. Reading => Continues(worker.meta.read, copy.read)
  BY <1>3 DEF IInv, Ordered, Continues
<1>13. Ordered' /\ NotYetReady'
  BY <1>2, <1>5, <1>6, <1>11, <1>12 DEF IInv, Ordered, NotYetReady
<1>14. Untranscribed' = Untranscribed /\ Covered' = Covered
  BY <1>2 DEF Untranscribed, Covered, BlocksInForce
<1>15. \A m : Truthful(m)' <=> Truthful(m)
  BY <1>2, <1>14 DEF Truthful
<1>16. Truthful(meta')
  BY <1>3, <1>5 DEF Truthful
<1>17. Indexed'
  BY <1>2, <1>6, <1>14, <1>15, <1>16 DEF IInv, Indexed
<1>18. IndexIsOfPresentText'
  BY <1>6 DEF IndexIsOfPresentText
<1>19. EntriesKept
  BY <1>2, <1>5 DEF EntriesKept, OlderStored
<1> QED
  BY <1>10, <1>13, <1>17, <1>18, <1>19 DEF IInv

LEMMA CorrectChange ==
    ASSUME IInv, NEW p \in Pages, Correct(p) PROVE NewText
<1>1. UNCHANGED <<role, rev, chunks>> /\ answered' = NoAnswers /\ ~Busy /\ worker' = worker
      /\ asked = {} /\ asked' = {}
  BY DEF Correct
<1> DEFINE n == [meta EXCEPT !.parse = "parsed", !.text = @ + 1]
           page == [mode |-> "manual",
                    blocks |-> <<[id |-> <<rev, p, -(meta.text + 1)>>, size |-> Transcript]>>]
<1>2. meta' = Queued(n) /\ pages' = [pages EXCEPT ![p] = page]
  BY DEF Correct
<1>3. IsMeta(meta) /\ rev \in Nat /\ pages \in [Pages -> Page] /\ meta.text \in Nat
  BY DEF IInv, Typed, IsCopy, IsMeta
<1>4. IsMeta(n) /\ n.read = meta.read /\ n.text = meta.text + 1 /\ n.index = meta.index
  BY <1>3, CorrectedFacts
<1>5. p \in Nat /\ Transcript \in Nat
  BY PageAssumption, LenProperties DEF Pages
<1>6. [id |-> <<rev, p, -(meta.text + 1)>>, size |-> Transcript] \in Block
  BY <1>3, <1>5 DEF Block
<1>7. page.blocks \in Seq(Block)
  BY <1>6
<1>8. page \in Page
  BY <1>7 DEF Page
<1> HIDE DEF n, page
<1>9. IsMeta(meta') /\ Agree(meta', n) /\ Unready(meta')
  BY <1>2, <1>4, QueuedFacts
<1>10. meta'.read = meta.read /\ meta'.text = meta.text + 1 /\ meta'.index = meta.index
  BY <1>4, <1>9 DEF Agree
<1>11. pages' \in [Pages -> Page]
  BY <1>2, <1>3, <1>8
<1> QED
  BY <1>1, <1>9, <1>10, <1>11 DEF NewText

LEMMA InterpretChange == ASSUME IInv, Interpret PROVE NewText
<1>1. UNCHANGED <<role, rev, chunks, pages>> /\ answered' = NoAnswers /\ ~Busy /\ worker' = worker
      /\ asked = {} /\ asked' = {}
  BY DEF Interpret
<1> DEFINE n == [meta EXCEPT !.text = @ + 1]
<1>2. meta' = Queued(n)
  BY DEF Interpret
<1>3. IsMeta(meta) /\ pages' \in [Pages -> Page]
  BY <1>1 DEF IInv, Typed, IsCopy
<1>4. IsMeta(n) /\ n.read = meta.read /\ n.text = meta.text + 1 /\ n.index = meta.index
  BY <1>3, NewTextFacts
<1> HIDE DEF n
<1>5. IsMeta(meta') /\ Agree(meta', n) /\ Unready(meta')
  BY <1>2, <1>4, QueuedFacts
<1>6. meta'.read = meta.read /\ meta'.text = meta.text + 1 /\ meta'.index = meta.index
  BY <1>4, <1>5 DEF Agree
<1> QED
  BY <1>1, <1>3, <1>5, <1>6 DEF NewText

LEMMA CancelChange ==
    ASSUME IInv, NEW kind \in {"parse", "process"}, Cancel(kind) PROVE StatusChange
<1>1. UNCHANGED <<role, evidence, rev, pages, chunks, asked, answered, worker>>
  BY DEF Cancel
<1>2. \/ meta' = [meta EXCEPT !.parse = "canceled"]
      \/ meta' = [meta EXCEPT !.ai = "canceled"]
      \/ meta' = meta
  BY Zenon DEF Cancel
<1>3. IsMeta(meta)
  BY DEF IInv, Typed, IsCopy
<1>4. Agree(meta, meta)
  BY DEF Agree
<1>5. /\ IsMeta([meta EXCEPT !.parse = "canceled"])
      /\ Agree([meta EXCEPT !.parse = "canceled"], meta)
      /\ [meta EXCEPT !.parse = "canceled"].ai = meta.ai
  BY <1>3, StatusFacts
<1>6. /\ IsMeta([meta EXCEPT !.ai = "canceled"])
      /\ Agree([meta EXCEPT !.ai = "canceled"], meta)
      /\ [meta EXCEPT !.ai = "canceled"].ai = "canceled"
  BY <1>3, StatusFacts
<1>7. Unready([meta EXCEPT !.ai = "canceled"])
  BY <1>6 DEF Unready
<1>8. IsMeta(meta') /\ Agree(meta', meta) /\ (meta'.ai = meta.ai \/ Unready(meta'))
  BY <1>2, <1>3, <1>4, <1>5, <1>7, <1>6
<1> QED
  BY <1>1, <1>8 DEF StatusChange

LEMMA ConfigureChange ==
    ASSUME IInv, NEW s, Configure(s) PROVE StatusChange
<1>1. UNCHANGED <<role, evidence, rev, pages, chunks, asked, answered, worker>>
  BY DEF Configure
<1> DEFINE n == [meta EXCEPT !.ai = "queued", !.auto = TRUE]
<1>2. meta' = n \/ meta' = meta
  BY Zenon DEF Configure
<1>3. IsMeta(meta)
  BY DEF IInv, Typed, IsCopy
<1>4. Agree(meta, meta)
  BY DEF Agree
<1>5. IsMeta(n) /\ Agree(n, meta) /\ n.ai = "queued"
  BY <1>3, TwoStatusFacts, Zenon
<1> HIDE DEF n
<1>6. IsMeta(meta') /\ Agree(meta', meta) /\ (meta'.ai = meta.ai \/ Unready(meta'))
  BY <1>2, <1>3, <1>4, <1>5 DEF Unready
<1> QED
  BY <1>1, <1>6 DEF StatusChange

LEMMA StutterChange == ASSUME IInv, UNCHANGED vars PROVE StatusChange
<1>1. UNCHANGED <<role, evidence, rev, pages, meta, chunks, asked, answered, worker>>
  BY DEF vars
<1>2. IsMeta(meta') /\ Agree(meta', meta) /\ meta'.ai = meta.ai
  BY <1>1 DEF IInv, Typed, IsCopy, Agree
<1> QED
  BY <1>1, <1>2 DEF StatusChange

LEMMA NextStep == ASSUME IInv, [Next]_vars PROVE IInv' /\ EntriesKept
<1>1. CASE BeginParse \/ FinishParse
  BY <1>1, BeginParseChange, StatusStep, FinishParseStep
<1>2. CASE BeginProcess \/ Transcribe \/ Ask \/ Answers
  BY <1>2, BeginProcessStep, TranscribeStep, AskStep, AnswerStep DEF Answers
<1>3. CASE ReadDone \/ Index \/ Embed \/ Finish
  BY <1>3, ReadDoneStep, IndexStep, EmbedStep, FinishStep
<1>4. CASE Complete \/ StopProcess \/ \E crash \in BOOLEAN : StopParse(crash)
  BY <1>4, CompleteChange, StopProcessChange, StopParseChange, StatusStep
<1>5. CASE Reparse \/ ProcessRead \/ ProcessStore \/ Interpret \/ \E p \in Pages : Correct(p)
  BY <1>5, ReparseChange, ProcessReadStep, ProcessStoreStep, InterpretChange, CorrectChange,
     StatusStep, TextStep
<1>6. CASE \E kind \in {"parse", "process"} : Cancel(kind)
  BY <1>6, CancelChange, StatusStep
<1>7. CASE \E s \in {"off", "unconfigured"} \cup Embeddings : Configure(s)
  BY <1>7, ConfigureChange, StatusStep
<1>8. CASE UNCHANGED vars
  BY <1>8, StutterChange, StatusStep
<1> QED
  BY <1>1, <1>2, <1>3, <1>4, <1>5, <1>6, <1>7, <1>8, Zenon DEF Next

LEMMA InitInv == Init => IInv
<1> SUFFICES ASSUME Init PROVE IInv
  OBVIOUS
<1>1. /\ rev = 0 /\ pages = [p \in Pages |-> NoText] /\ worker = Idle /\ answered = NoAnswers
      /\ chunks = [rev |-> 0, fragments |-> {}]
  BY DEF Init
<1>2. meta = [parse |-> "none", ai |-> "none", auto |-> FALSE, text |-> 0,
              read |-> NothingRead, index |-> 0, embedding |-> "none"]
  BY DEF Init
<1>3. NoText \in Page
  <2>1. <<>> \in Seq(Block)
    OBVIOUS
  <2> QED
    BY <2>1 DEF NoText, Page
<1>4. pages \in [Pages -> Page]
  BY <1>1, <1>3
<1>5. IsMeta(meta) /\ meta.ai = "none" /\ meta.read = NothingRead
  BY <1>2 DEF IsMeta
<1>6. IsRead(NothingRead)
  BY DEF IsRead, NothingRead
<1>7. ~Busy
  BY <1>1 DEF Busy
<1>8. asked = {} /\ rev \in Nat
  BY <1>1 DEF Init
<1>9. IsCopy(meta)
  <2>1. /\ meta.text = 0 /\ NothingRead.rev = 0 /\ NothingRead.text = 0
    BY <1>2 DEF NothingRead
  <2> QED
    BY <1>1, <1>5, <1>6, <2>1 DEF IsCopy
<1>10. Typed
  BY <1>1, <1>4, <1>7, <1>8, <1>9 DEF Typed, NoAnswers, IsAnswered
<1>11. Ordered /\ NotYetReady /\ Indexed
  BY <1>1, <1>7, <1>8 DEF Ordered, NotYetReady, Reading, Unfinished, Indexed, Truthful
<1>12. IndexIsOfPresentText
  BY <1>5 DEF IndexIsOfPresentText, Settled
<1> QED
  BY <1>10, <1>11, <1>12 DEF IInv

(***************************************************************************)
(* The results.                                                            *)
(***************************************************************************)
LEMMA Invariant == Spec => []IInv
<1>1. IInv /\ [Next]_vars => IInv'
  BY NextStep
<1> QED
  BY InitInv, <1>1, PTL DEF Spec

\* The index of a ready document covers every position of its present text and nothing else
\* (index_document), for windows and blocks of any size.
THEOREM IndexHoldsPresentText == Spec => []IndexIsOfPresentText
<1>1. IInv => IndexIsOfPresentText
  BY DEF IInv
<1> QED
  BY Invariant, <1>1, PTL

\* Saved requirements stay while the text is the same, whatever the handler, a crash or any
\* request does, except POST /process storing the older metadata it had read
\* (process_document_job with the copy of the metadata it stores, library.py's
\* process_document with the copy it stores).
THEOREM SavedRequirementsKept == Spec => SavedRequirementsStay
<1>1. IInv /\ [Next]_vars =>
          [rev' = rev /\ meta'.text = meta.text /\ meta.read.rev = rev
              /\ meta.read.text = meta.text
           => meta.read.entries \subseteq meta'.read.entries \/ OlderStored]_vars
  BY NextStep DEF EntriesKept
<1> QED
  BY Invariant, <1>1, PTL DEF Spec, SavedRequirementsStay
=============================================================================
