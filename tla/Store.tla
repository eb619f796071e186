-------------------------------- MODULE Store --------------------------------
(***************************************************************************)
(* The settings store, dspic_src/settings/store.c, over the program flash  *)
(* of drivers/flash.c: a journal of records in two pages.                  *)
(*                                                                         *)
(* The unit is the double word, written once between erases: a cell.  A    *)
(* page starts with the two cells of its header (magic and format, then    *)
(* generation and CRC); a record is Size[type] cells, the first holding    *)
(* its mark and length and the last its CRC.  A cell that was cut short or *)
(* did not take is junk: span is how many cells the length it reads as     *)
(* makes the record take, 0 if it is no record at all.                     *)
(*                                                                         *)
(* store_write() is one long call, but the power may go at any point of    *)
(* it: each erase and each double word is a step.  What the RAM holds is   *)
(* lost with the power, and read again from the flash by store_init().     *)
(***************************************************************************)
EXTENDS Integers, Sequences, FiniteSets, FiniteSetsExt, SequencesExt

CONSTANTS Types,       \* the record types, 1 .. STORE_TYPES - 1
          Values,      \* what a record may hold
          NoValue,
          Size,        \* cells a record of each type takes
          PageCells,   \* FLASH_PAGE_WORDS / 2
          Wrap,        \* 2^16, where generations wrap
          JunkSpans,   \* the spans junk may read as
          MaxFaults    \* bound: flash operations that go wrong

ASSUME StoreAssumption ==
  /\ IsFiniteSet(Types) /\ Types \subseteq Nat
  /\ NoValue \notin Values \cup Types
  /\ Size \in [Types -> Nat \ {0, 1}]
  /\ Wrap \in Nat /\ Wrap % 2 = 0 /\ Wrap > 2
  /\ JunkSpans \subseteq Nat /\ MaxFaults \in Nat

\* The latest record of every type fits in a page, behind the header.
ASSUME FitAssumption == PageCells \in Nat /\ 2 + SumFunction(Size) <= PageCells

VARIABLES flash,     \* the cells of the two pages
          ram,       \* StoreStatus and record_word: what the firmware knows
          job,       \* the store_write() in progress
          faults,    \* the flash operations that have gone wrong
          kept       \* what a restart would find: a history of the flash

vars == <<flash, ram, job, faults, kept>>

-----------------------------------------------------------------------------
\* The flash

Blank      == [kind |-> "BLANK"]
Junk(n)    == [kind |-> "JUNK", span |-> n]
Magic      == [kind |-> "MAGIC"]
Gen(g)     == [kind |-> "GEN", gen |-> g]
Part(t, v, i) == [kind |-> "PART", type |-> t, value |-> v, part |-> i]

JunkCells == {Junk(n) : n \in JunkSpans}
Cell == {Blank, Magic} \cup JunkCells \cup {Gen(g) : g \in 0 .. Wrap - 1}
        \cup UNION {{Part(t, v, i) : v \in Values, i \in 1 .. Size[t]} : t \in Types}

Pages     == {0, 1}
FirstCell == 3        \* STORE_HEADER_WORDS, in cells
Page      == [1 .. PageCells -> Cell]
BlankPage == [c \in 1 .. PageCells |-> Blank]

\* build_record()
RecordOf(t, v) == [i \in 1 .. Size[t] |-> Part(t, v, i)]

\* header_valid()
HeaderValid(page) == page[1] = Magic /\ page[2].kind = "GEN"

\* check_record(): the cells the record at w spans, 0 if it is not one.
Span(page, w) ==
  LET cell == page[w]
      span == IF cell.kind = "JUNK" THEN cell.span
              ELSE IF cell.kind = "PART" THEN (IF cell.part = 1 THEN Size[cell.type] ELSE 0)
              ELSE 0
  IN  IF w + span - 1 > PageCells THEN 0 ELSE span

Intact(page, w) ==
  /\ page[w].kind = "PART"
  /\ \A i \in 1 .. Size[page[w].type] :
       page[w + i - 1] = Part(page[w].type, page[w].value, i)

\* scan(): the latest intact record of each type (0: none), and where the free
\* space starts.  A record cut short is passed over; what is not a record ends
\* the reading and the page takes no more.
Scan(page) ==
  LET none == [t \in Types |-> 0]
      from[w \in FirstCell .. PageCells + 1] ==
        IF w > PageCells \/ page[w] = Blank
        THEN [word |-> none, used |-> w, full |-> FALSE]
        ELSE IF Span(page, w) = 0
        THEN [word |-> none, used |-> w, full |-> TRUE]
        ELSE LET rest == from[w + Span(page, w)]
             IN  IF Intact(page, w) /\ rest.word[page[w].type] = 0
                 THEN [rest EXCEPT !.word[page[w].type] = w]
                 ELSE rest
  IN  from[FirstCell]

\* The page in use: a good header and the later generation, across the wrap.
Later(g, h) == (g - h) % Wrap < Wrap \div 2

PageInUse(pages) ==
  IF /\ HeaderValid(pages[0])
     /\ HeaderValid(pages[1]) => Later(pages[0][2].gen, pages[1][2].gen)
  THEN 0 ELSE 1

EmptyRam == [active |-> FALSE, page |-> 0, gen |-> 0, word |-> [t \in Types |-> 0],
             used |-> 0, full |-> FALSE]

\* store_init()
StoreInit(pages) ==
  LET page == PageInUse(pages)
      read == Scan(pages[page])
  IN  IF ~HeaderValid(pages[0]) /\ ~HeaderValid(pages[1]) THEN EmptyRam
      ELSE [active |-> TRUE, page |-> page, gen |-> pages[page][2].gen,
            word |-> read.word, used |-> read.used, full |-> read.full]

\* store_read()
StoreRead(pages, r, t) ==
  IF ~r.active \/ r.word[t] = 0 THEN NoValue
  ELSE pages[r.page][r.word[t]].value

\* The records that a restart would find in the flash.
Readable(pages) ==
  LET r == StoreInit(pages) IN [t \in Types |-> StoreRead(pages, r, t)]

-----------------------------------------------------------------------------
\* store_write()

Idle == [op |-> "IDLE", type |-> NoValue, value |-> NoValue, blocks |-> <<>>, done |-> 0]

\* A run of cells that write_words() writes in order and then reads back.
Block(at, cells) == [at |-> at, cells |-> cells]

\* store_write_erases()
WriteErases(t) ==
  ~ram.active \/ ram.full \/ ram.used + Size[t] - 1 > PageCells

BlankFrom(page, at, n) == \A i \in 0 .. n - 1 : page[at + i] = Blank

Target     == IF ram.active THEN 1 - ram.page ELSE 0
Generation == IF ram.active THEN (ram.gen + 1) % Wrap ELSE 1

\* change_page(): what goes into the other page, and where: the other types in
\* order, the new record, and then the header.
Others(t) == {o \in Types \ {t} : ram.word[o] # 0}

NewWord(t) ==
  [o \in Types |-> IF o = t THEN FirstCell + SumFunctionOnSet(Size, Others(t))
                   ELSE IF o \in Others(t)
                   THEN FirstCell + SumFunctionOnSet(Size, {p \in Others(t) : p < o})
                   ELSE 0]

Copies(t) ==
  [i \in 1 .. Cardinality(Others(t)) |->
     LET o == SetToSortSeq(Others(t), <)[i]
     IN  Block(NewWord(t)[o],
               [c \in 1 .. Size[o] |-> flash[ram.page][ram.word[o] + c - 1]])]

NewPageHeaderFirst(t, v) ==    \* mutant: a page is valid before it is whole
  <<Block(1, <<Magic, Gen(Generation)>>)>> \o Copies(t)
    \o <<Block(NewWord(t)[t], RecordOf(t, v))>>

NewPage(t, v) ==
  Copies(t) \o <<Block(NewWord(t)[t], RecordOf(t, v)),
                 Block(1, <<Magic, Gen(Generation)>>)>>

\* The call starts: appended if it fits the free space, and that is blank.
Write(t, v) ==
  LET appends == ~WriteErases(t) /\ BlankFrom(flash[ram.page], ram.used, Size[t])
  IN  /\ job = Idle
      /\ job' = [op     |-> IF appends THEN "APPEND" ELSE "ERASE",
                 type   |-> t, value |-> v, done |-> 0,
                 blocks |-> IF appends THEN <<Block(ram.used, RecordOf(t, v))>> ELSE <<>>]
      /\ ram' = [ram EXCEPT !.full = @ \/ (~WriteErases(t) /\ ~appends)]
      /\ UNCHANGED <<flash, faults, kept>>

\* What an erase that fails or is cut short may leave of a page.
Smeared(page) ==
  {page, BlankPage, [c \in 1 .. PageCells |-> Junk(0)],
   [c \in 1 .. PageCells |-> IF c <= 2 THEN page[c] ELSE Junk(0)],
   [c \in 1 .. PageCells |-> IF c <= 2 THEN Blank ELSE page[c]]}

\* change_page() erases the other page, and checks that it is blank.
Erase ==
  /\ job.op = "ERASE"
  /\ flash' = [flash EXCEPT ![Target] = BlankPage]
  /\ job' = [job EXCEPT !.op = "CHANGE", !.blocks = NewPage(job.type, job.value)]
  /\ kept' = Readable(flash')
  /\ UNCHANGED <<ram, faults>>

EraseFails ==
  /\ job.op = "ERASE" /\ faults < MaxFaults
  /\ \E page \in Smeared(flash[Target]) : flash' = [flash EXCEPT ![Target] = page]
  /\ job' = Idle
  /\ faults' = faults + 1
  /\ kept' = Readable(flash')
  /\ UNCHANGED ram

\* write_words(): the next cell of the block.
Writing    == job.op \in {"APPEND", "CHANGE"}
Block1     == Head(job.blocks)
WritePage  == IF job.op = "APPEND" THEN ram.page ELSE Target
WriteCell  == Block1.at + job.done
LastOfBlock == job.done + 1 = Len(Block1.cells)

\* The block reads back as it was written.
ReadsBack(pages) ==
  \A i \in 1 .. Len(Block1.cells) : pages[WritePage][Block1.at + i - 1] = Block1.cells[i]

\* The call ends: the record is where it was appended, or the pages have changed.
Done ==
  /\ job' = Idle
  /\ ram' = IF job.op = "APPEND"
            THEN [ram EXCEPT !.word[job.type] = ram.used, !.used = @ + Size[job.type]]
            ELSE [active |-> TRUE, page |-> Target, gen |-> Generation,
                  word |-> NewWord(job.type), full |-> FALSE,
                  used |-> FirstCell + SumFunctionOnSet(Size, Others(job.type) \cup {job.type})]

\* It goes on in another page after a failed append, and ends after a failed
\* change of page.
Failed ==
  /\ job' = IF job.op = "APPEND" THEN [job EXCEPT !.op = "ERASE", !.blocks = <<>>, !.done = 0]
            ELSE Idle
  /\ ram' = IF job.op = "APPEND" THEN [ram EXCEPT !.full = TRUE] ELSE ram

\* Without error: more of the block, the next block, or the end of the call.
GoOn(pages) ==
  IF ~LastOfBlock THEN job' = [job EXCEPT !.done = @ + 1] /\ UNCHANGED ram
  ELSE IF ~ReadsBack(pages) THEN Failed
  ELSE IF Len(job.blocks) = 1 THEN Done
  ELSE job' = [job EXCEPT !.blocks = Tail(@), !.done = 0] /\ UNCHANGED ram

\* flash_write_double_word()
Program ==
  /\ Writing
  /\ flash' = [flash EXCEPT ![WritePage][WriteCell] = Block1.cells[job.done + 1]]
  /\ GoOn(flash')
  /\ kept' = Readable(flash')
  /\ UNCHANGED faults

\* It did not take, and says so, or does not: then reading back tells.
ProgramFails ==
  /\ Writing /\ faults < MaxFaults
  /\ \E cell \in JunkCells \cup {Blank}, reported \in BOOLEAN :
       /\ flash' = [flash EXCEPT ![WritePage][WriteCell] = cell]
       /\ IF reported THEN Failed ELSE GoOn(flash')
  /\ kept' = Readable(flash')
  /\ faults' = faults + 1

\* The power goes, and the operation in progress with it; on its return the
\* store is read from the flash.
PowerCut ==
  /\ flash' \in {flash}
       \cup (IF job.op = "ERASE"
             THEN {[flash EXCEPT ![Target] = page] : page \in Smeared(flash[Target])} ELSE {})
       \cup (IF Writing
             THEN {[flash EXCEPT ![WritePage][WriteCell] = cell] : cell \in JunkCells} ELSE {})
  /\ ram' = StoreInit(flash')
  /\ job' = Idle
  /\ kept' = Readable(flash')
  /\ UNCHANGED faults

Init ==
  /\ flash = [p \in Pages |-> BlankPage]
  /\ ram = EmptyRam
  /\ job = Idle
  /\ faults = 0
  /\ kept = Readable(flash)

Next ==
  \/ \E t \in Types, v \in Values : Write(t, v)
  \/ Erase \/ EraseFails \/ Program \/ ProgramFails \/ PowerCut

Spec == Init /\ [][Next]_vars

-----------------------------------------------------------------------------
\* Properties

Pending == [type |-> job.type, value |-> job.value]

\* The store keeps what store.h promises: what a restart would find changes
\* only by the record being written, whole and at once, and never by a write
\* that failed or was cut short.
Promise == INSTANCE KeyValue WITH pending <- Pending
KeepsItsPromise == Promise!Spec

\* What the running firmware reads is what a restart would read, at every point
\* of a write and after any failure: the RAM's idea of the page in use and of
\* the latest records is that of the flash (store_write, store_init).
RamAgrees(t) == StoreRead(flash, ram, t) = kept[t]

\* A double word is never written twice between erases (flash.h): what is
\* appended to is still blank, torn records and all; and the page that a
\* restart would use is never the one erased.
WritesBlankCells ==
  \A p \in Pages, c \in 1 .. PageCells :
    flash[p][c] # Blank /\ flash'[p][c] # flash[p][c]
      => job.op = "ERASE" /\ (HeaderValid(flash[p]) => p # PageInUse(flash))

\* The store as its callers and its flash see it.
StoreSound ==
  KeepsItsPromise /\ [](\A t \in Types : RamAgrees(t)) /\ [][WritesBlankCells]_vars

-----------------------------------------------------------------------------
\* What is read of the flash before it is next erased: the page in use, the one
\* being filled, and no more than the header of any other.
ReadPage(p) ==
  IF \/ HeaderValid(flash[p]) /\ p = PageInUse(flash)
     \/ job.op = "CHANGE" /\ p = Target
  THEN flash[p] ELSE <<flash[p][1], flash[p][2]>>
=============================================================================
