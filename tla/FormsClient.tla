----------------------------- MODULE FormsClient -----------------------------
(***************************************************************************)
(* What the API reads from Google for a request (core/forms_api.py,        *)
(* core/forms_catalog.py, core/sheets_api.py): listings page by page, a    *)
(* form, its details, the grids of a spreadsheet.  A thread serves one     *)
(* read at a time, with the credentials of some request, and keeps the     *)
(* Forms client it last used.                                              *)
(*                                                                         *)
(* Credentials stand for the account they open.  An account holds          *)
(*   files    the forms of its Drive, newest first,                        *)
(*   answers  the times of the answers to the form, 0 when Google gives    *)
(*            none,                                                        *)
(*   items    the items of the form, [kind, rows, type, columns] with      *)
(*            rows the ids of the questions,                               *)
(*   publish  the fields of the publish state that are true, or            *)
(*            {"unsaid"} for a form that has no publish settings,          *)
(*   sheets   the sheets of the spreadsheet, [grid, rows].                 *)
(* It does not change during a read.                                       *)
(***************************************************************************)
EXTENDS Integers, Sequences, FiniteSets, SequencesExt

CONSTANTS
  Threads, Credentials,
  Account,       \* [Credentials -> accounts]
  DRIVE_PAGE_SIZE, DRIVE_MAX_FORMS

ASSUME FormsClientAssumption ==
  /\ DRIVE_PAGE_SIZE \in Nat \ {0}
  /\ DRIVE_MAX_FORMS \in Nat \ {0}
ASSUME AccountAssumption ==
  \A c \in Credentials : LET account == Account[c] IN
    /\ account.files \in Seq(Range(account.files))
    /\ account.answers \in Seq(Int)
    /\ account.sheets \in Seq(Range(account.sheets))
    /\ account.items \in Seq(Range(account.items))
\* A question has one id; a grid has the columns its rows share, and a row at least.
ASSUME ItemAssumption ==
  \A c \in Credentials : \A item \in Range(Account[c].items) :
    /\ item.rows \in Seq(Range(item.rows))
    /\ item.kind = "question" => Len(item.rows) = 1
    /\ item.kind = "grid" => item.columns /\ Len(item.rows) > 0

VARIABLES
  clients,   \* the client a thread keeps: [of, timeout, by] or NoClient
  reads      \* the read of a thread: [kind, creds, client, got, state] or NoRead
readVars == <<clients, reads>>

NoClient == [of |-> "nobody", timeout |-> "none", by |-> "nobody"]
NoRead == [kind |-> "none", creds |-> "nobody", client |-> NoClient, got |-> <<>>, state |-> "none"]

Paged == {"files", "times", "answers"}
Single == {"structure", "summary"}
Kinds == Paged \cup Single \cup {"grids"}

\* Places in the order of their keys, those of one key as they stand.
InOrder(places, key) ==
  LET NotAfter(i) == {j \in places : key[j] < key[i] \/ (key[j] = key[i] /\ j <= i)} IN
  [k \in 1..Cardinality(places) |-> CHOOSE i \in places : Cardinality(NotAfter(i)) = k]

Timeout(kind) == IF kind \in {"times", "summary"} THEN "catalog" ELSE "default"

\* Mutation: a client of any thread.
ClientOfAll(t, c, timeout) ==
  LET fitting == {u \in Threads : clients[u].of = c /\ clients[u].timeout = timeout} IN
  IF fitting = {} THEN [of |-> c, timeout |-> timeout, by |-> t]
  ELSE clients[CHOOSE u \in fitting : TRUE]

\* forms_service: this thread's, for these very credentials and this timeout.
FormsService(t, c, timeout) ==
  IF clients[t].of = c /\ clients[t].timeout = timeout THEN clients[t]
  ELSE [of |-> c, timeout |-> timeout, by |-> t]

ReadInit ==
  /\ clients = [t \in Threads |-> NoClient]
  /\ reads = [t \in Threads |-> NoRead]

Reading(t) == reads[t].state = "reading"

\* A request asks: Drive and Sheets get a client of their own each time.
StartRead(t, kind, c) ==
  LET fresh == [of |-> c, timeout |-> "default", by |-> t]
      own == kind \in {"files", "grids"}
      client == IF own THEN fresh ELSE FormsService(t, c, Timeout(kind)) IN
  /\ ~Reading(t)
  /\ reads' = [reads EXCEPT ![t] =
       [kind |-> kind, creds |-> c, client |-> client, got |-> <<>>, state |-> "reading"]]
  /\ clients' = IF own THEN clients ELSE [clients EXCEPT ![t] = client]

\* What Google has to give to a paged read.
Whole(kind, c) == IF kind = "files" THEN Account[c].files ELSE Account[c].answers

\* list_forms_with_drive_meta: what is still wanted.
PageSize(got) ==
  IF DRIVE_PAGE_SIZE < DRIVE_MAX_FORMS - Len(got) THEN DRIVE_PAGE_SIZE
  ELSE DRIVE_MAX_FORMS - Len(got)

\* Mutation: a page that is not full is taken for the last one.
EndsWhenShort(read, got, token) == ~token \/ Len(got) < Len(read.got) + DRIVE_PAGE_SIZE
\* The loop ends without a token, or with as many forms as are kept.
Ends(read, got, token) == ~token \/ (read.kind = "files" /\ Len(got) >= DRIVE_MAX_FORMS)

\* A page arrives: any number of the next items, perhaps none, and a token as
\* long as there are more (Google may give one at the end too).
NextPage(t) ==
  LET read == reads[t]
      whole == Whole(read.kind, read.client.of)
      left == Len(whole) - Len(read.got) IN
  /\ Reading(t) /\ read.kind \in Paged
  /\ \E n \in 0..left, token \in BOOLEAN :
       LET got == SubSeq(whole, 1, Len(read.got) + n) IN
       /\ read.kind = "files" => n <= PageSize(read.got)
       /\ n < left => token
       /\ reads' = [reads EXCEPT ![t].got = got,
                                 ![t].state = IF Ends(read, got, token) THEN "done" ELSE @]
  /\ UNCHANGED clients

\* _parse_form and _publish_state.
Publish(field, said) == IF said = {"unsaid"} THEN "unknown" ELSE IF field \in said THEN "yes" ELSE "no"
OfKind(items, kinds) == {i \in DOMAIN items : items[i].kind \in kinds}
Summary(account) ==
  [sections  |-> Cardinality(OfKind(account.items, {"break"})) + 1,
   questions |-> Cardinality(OfKind(account.items, {"question", "grid"})),
   published |-> Publish("isPublished", account.publish),
   accepting |-> Publish("isAcceptingResponses", account.publish)]

\* A form comes in one call.
Form(t) ==
  LET account == Account[reads[t].client.of] IN
  /\ Reading(t) /\ reads[t].kind \in Single
  /\ reads' = [reads EXCEPT ![t].state = "done",
       ![t].got = <<IF reads[t].kind = "summary" THEN Summary(account) ELSE account.items>>]
  /\ UNCHANGED clients

\* fetch_all_grids: first the names of the grids, then all their values at once,
\* none when there is no grid.
GridSheets(account) == {i \in DOMAIN account.sheets : account.sheets[i].grid}
Names(account) == InOrder(GridSheets(account), [i \in DOMAIN account.sheets |-> i])
GridNames(t) ==
  LET names == Names(Account[reads[t].client.of]) IN
  /\ Reading(t) /\ reads[t].kind = "grids" /\ reads[t].got = <<>>
  /\ reads' = [reads EXCEPT ![t].got = <<names>>, ![t].state = IF names = <<>> THEN "done" ELSE @]
  /\ UNCHANGED clients
GridValues(t) ==
  LET names == reads[t].got[1]
      sheets == Account[reads[t].client.of].sheets IN
  /\ Reading(t) /\ reads[t].kind = "grids" /\ reads[t].got # <<>>
  /\ reads' = [reads EXCEPT ![t].state = "done",
                            ![t].got = <<names, [i \in DOMAIN names |-> sheets[names[i]].rows]>>]
  /\ UNCHANGED clients

\* An HttpError ends the read: what had come is let go.
Fail(t) ==
  /\ Reading(t)
  /\ reads' = [reads EXCEPT ![t].state = "failed", ![t].got = <<>>]
  /\ UNCHANGED clients

ReadNext == \E t \in Threads :
  \/ \E kind \in Kinds, c \in Credentials : StartRead(t, kind, c)
  \/ NextPage(t) \/ Form(t) \/ GridNames(t) \/ GridValues(t) \/ Fail(t)
ReadSpec == ReadInit /\ [][ReadNext]_readVars

-----------------------------------------------------------------------------
(* What the caller gets.                                                    *)

\* list_response_timestamps: the times there are, sorted; response_stats: their
\* number, the first two and the last.
Times(answers) ==
  LET order == InOrder({i \in DOMAIN answers : answers[i] # 0}, answers) IN
  [k \in DOMAIN order |-> answers[order[k]]]
Stats(times) ==
  [total |-> Len(times),
   first |-> IF times = <<>> THEN 0 ELSE times[1],
   second |-> IF Len(times) < 2 THEN 0 ELSE times[2],
   last  |-> IF times = <<>> THEN 0 ELSE Last(times)]

\* parse_question_types: the questions of the pages on weights and crosstables.
TypeOf(item) == IF item.type = "CHECKBOX" THEN "CHECKBOX"
                ELSE IF item.type \in {"RADIO", "DROP_DOWN"} THEN "MULTIPLE_CHOICE" ELSE "OTHER"
RowsOf(item, type) == [i \in DOMAIN item.rows |-> [id |-> item.rows[i], type |-> type]]
ParseQuestionTypes(items) ==
  FlattenSeq([i \in DOMAIN items |->
    IF items[i].kind = "question" \/ (items[i].kind = "grid" /\ items[i].columns)
    THEN RowsOf(items[i], TypeOf(items[i])) ELSE <<>>])

\* _iter_questions: the questions of the charts and of the report.
IterQuestions(items) ==
  FlattenSeq([i \in DOMAIN items |->
    IF items[i].kind = "question" THEN RowsOf(items[i], items[i].type)
    ELSE IF items[i].kind = "grid"
    THEN RowsOf(items[i], IF items[i].columns THEN items[i].type ELSE "other") ELSE <<>>])

-----------------------------------------------------------------------------
(* Properties.                                                              *)

\* A listing that ends well brings all there is, in order and once, however
\* Google cuts it in pages; of the forms, as many of the newest as are kept.
ListingIsWhole(read) ==
  LET account == Account[read.creds] IN
  /\ read.kind = "files" =>
       /\ IsPrefix(read.got, account.files)
       /\ Len(read.got) = IF Len(account.files) < DRIVE_MAX_FORMS THEN Len(account.files)
                          ELSE DRIVE_MAX_FORMS
  /\ read.kind \in {"answers", "times"} => read.got = account.answers

\* So does a form, and what is made of it at once.
FormIsWhole(read) ==
  LET account == Account[read.creds] IN
  /\ read.kind = "summary" => read.got = <<Summary(account)>>
  /\ read.kind = "structure" => read.got = <<account.items>>

\* What is made of the times that came.
TimesAreTrue(read) ==
  LET answers == Account[read.creds].answers
      stats == Stats(Times(read.got)) IN
  read.kind = "times" =>
    /\ stats.total = Cardinality({i \in DOMAIN answers : answers[i] # 0})
    /\ stats.total > 0 => \A time \in Range(answers) \ {0} : time \in stats.first..stats.last
    /\ stats.total > 0 => {stats.first, stats.last} \subseteq Range(answers) \ {0}
    /\ stats.total > 1 =>
         /\ stats.second \in Range(answers) /\ stats.second \in stats.first..stats.last
         /\ Cardinality({i \in DOMAIN answers : answers[i] \notin {0} \cup (stats.second..stats.last)}) <= 1

\* The values that come go with the names that were read before.
RowsAreOfTheirGrid(read) ==
  LET sheets == Account[read.creds].sheets
      got == read.got IN
  read.kind = "grids" /\ got[1] # <<>> =>
    \A i \in DOMAIN got[1] : got[2][i] = sheets[got[1][i]].rows
GridsAreWhole(read) ==
  /\ read.kind = "grids" =>
       /\ Range(read.got[1]) = GridSheets(Account[read.creds])
       /\ \A i, j \in DOMAIN read.got[1] : i < j => read.got[1][i] < read.got[1][j]
  /\ RowsAreOfTheirGrid(read)

\* A read that ends well brings all there is in the account of its own
\* credentials: never a part, never of another's.
ReadsAreWhole == \A t \in Threads : reads[t].state = "done" =>
  ListingIsWhole(reads[t]) /\ FormIsWhole(reads[t]) /\ TimesAreTrue(reads[t]) /\ GridsAreWhole(reads[t])

\* No two threads send over one connection.
ClientsAreNotShared ==
  \A t, u \in Threads : t # u /\ Reading(t) /\ Reading(u) => reads[t].client # reads[u].client

\* The two listings of a form's questions agree: the pages that weigh and compare
\* speak of the questions that are drawn, and call the same ones single choice.
ListingsAgree == \A t \in Threads : reads[t].kind = "structure" /\ reads[t].state = "done" =>
  LET parsed == ParseQuestionTypes(reads[t].got[1])
      drawn == IterQuestions(reads[t].got[1]) IN
  /\ Len(parsed) = Len(drawn)
  /\ \A i \in DOMAIN parsed :
       /\ parsed[i].id = drawn[i].id
       /\ (parsed[i].type = "MULTIPLE_CHOICE") <=> drawn[i].type \in {"RADIO", "DROP_DOWN"}
  /\ Len(parsed) >= Summary([items |-> reads[t].got[1], publish |-> {}]).questions

ReadsAreTheirOwn == ReadsAreWhole /\ ClientsAreNotShared /\ ListingsAgree
=============================================================================
