# A TLA+ model of Survey Insight

Survey Insight analyses Google Forms. Three services run from this repository:
a Streamlit web client (`app.py`, `ui/`), a FastAPI service (`api/`) and a
worker for report jobs (`worker/`). They share `core/`, whose `saas` package
keeps users, sessions, OAuth accounts, reports and jobs in Firestore. This
directory holds a formal model of it: the parts where several actors meet, as
state machines with their interleavings, and the analyses that the pages and the
report show, as operators that are checked against what they promise on all
small inputs. TLC checks the configurations, and TLAPS the proofs.

`PROJECT.json` says for every definition which lines it stands for (`map`),
what each run checks, which mutation of the code each property would catch, and
where the hazards are.

## 1. The system

| Component | State it keeps | Operations | Talks to | What is hard | What makes it correct |
|---|---|---|---|---|---|
| Report jobs (`api/main.py`, `core/saas/services.py`, `worker/main.py`) | report, job, quota documents; the task queue; PDFs in the bucket | create a job; run a job (start, upload, update, succeed, fail); read a job | Firestore, Cloud Tasks, Cloud Storage | every call is remote and may fail after it took effect; tasks are delivered twice, also at once; only `transition` is a transaction | a succeeded job can be downloaded and never changes; a job is taken up once; an admitted request ends |
| Quota guard (`api/google_quota.py`) | times of counted calls, promised slots, the slot of every waiting form, per user | `acquire_or_wait` | called by loads in the stream's threads | clock read outside of the lock; forms come back late, twice or never | at most `limit` calls per window; places that do not bunch up; one place per form |
| Catalog stream (`core/catalog_stream.py`) | four queues, a thread pool, a deadline | one pass of the loop, its wait, handling of each result, expiry, close | the loads (cache, guard, Google), the HTTP response | results in any order, three kinds of retry, hanging calls, a reader that leaves | every load ends in one report; the stream ends |
| API data cache (`api/google_data_cache.py`) | entries with a lifetime, loads in progress | `get_or_load` | Google through the loader | callers race between clock, lock and Event; two keys for one count | one load at a time, no stale answer, nobody waits for ever |
| Sign-in and sessions (`api/main.py`, `services.py`, `firestore.py`) | OAuth states, login tickets, sessions, a variable of the process | start, callback, exchange, validate, logout | Google OAuth, Firestore | get, check, get, set without a transaction; a callback that fails half way | a ticket means that all is stored; a sign-in gives one; nothing left behind blocks the next |
| Google credentials (`core/saas/google_credentials.py`) | one encrypted account record per user | build, refresh, save, drop | Google's token endpoint | a refresh deep inside any call writes back an old record | a refresh does not undo a newer sign-in |
| Web session (`ui/components/auth_widget.py`, `ui/saas_api.py`) | Streamlit session state, the cookie, a queue of cookie writes | ticket login, restore, retry, logout | the API, the browser | every interaction reruns the script; the cookie is seen one rerun late | no rerun logs out, none revives a logged-out user |
| Web catalog load (`ui/catalog_load.py`, `ui/pages/catalog.py`) | the load's shared progress, the page's table, its marked row | start, apply a line, snapshot, refresh, filter, click | the stream, reruns of the page | a thread writes while pages read; a new load beside an old one; a click on rows that move | the page ends with what the stream said; the mark is on the current form |
| Web data cache (`ui/data_access_cache.py`) | entries per session and kind | `get_or_load`, clear | the API | a load in flight while the cache is cleared; caches over caches | no answer older than its lifetime, none from before a clear |
| Failures (`core/google_errors.py`, `api/google_errors.py`, `ui/saas_api.py`, `ui/api_boundary.py`) | none | translate an error, three times over | Google, the API, the page | several spellings of one cause, one spelling of several | each failure ends in the state of the page that mends it |
| Google Forms client (`core/forms_api.py`, `core/forms_catalog.py`, `core/sheets_api.py`) | a Forms client per thread | read a listing page by page, a form, grids | Google | pages of any size; a client kept between requests of different users | a read is whole, and of its own account |
| Weighting page (`ui/pages/weighting.py`) | widgets, a draft, a configuration | run, tick, file, mode | the questions page and the report | a run is cut short by the next click; a mode drops the widgets | what was ticked stays |
| Report page and files (`ui/pages/export.py`, `ui/report_data.py`, `core/reports.py`, `core/report.py`) | a PDF in the session, a cache of its own | draw, refresh, generate | three caches, the analyses | old data in a new report; blank pages; arrows over arrows | the report is fresh and whole |
| Analyses (`core/form_flow.py`, `forms_quality.py`, `response_weights.py`, `context_tables.py`, `crosstab.py`, `weighting.py`) | none | pure functions | | graph walks, boundaries, weights that must add up | the result is what it promises |
| Forecast (`core/forecast/`, `core/timeline.py`, `core/charts_timeline.py`) | a cache per form | waves, selection, curve, drawing | the dynamics page | answers arrive while waves are counted; fits that fail or turn down | a wave stays found; the curve goes on from the facts |

In-memory adapters, logging, encryption and the local mode are listed in
`PROJECT.json` as not modelled, each with its reason.

## 2. Modules

| Module | Models | Kind |
|---|---|---|
| `JobLifecycle` | what a client is promised of a job | abstract |
| `ReportJobs` | the API handler, the queue and the worker handlers, one action per remote call | detailed; implements `JobLifecycle` |
| `QuotaGuard` | `RollingWindowGuard` with threads that stall between clock and lock | detailed |
| `CatalogProgress` | what a reader of the stream is promised | abstract |
| `CatalogStream` | `load_catalog`, its pool, time, and a reader that may leave | detailed; implements `CatalogProgress` |
| `ApiDataCache` | `get_or_load` of the API for one key | detailed |
| `GoogleGrants` | the account document of a user between sign-ins, refreshes and Google | detailed |
| `ApiDocuments` | `ReportJobs` and `GoogleGrants`, side by side, with their fairness | composition |
| `Sessions` | ticket and session documents and the API handlers over them | component of `WebSession` |
| `WebSession` | the tabs of a browser, their shared cookie, what a tab keeps in mind, and the API of `Sessions` | composition |
| `WebCatalog` | the catalog page in its tabs, and the threads that read the stream | component of `WebParts` |
| `CatalogCounts` | the details and the count of a form, under the API's keys for them | component of `WebParts` |
| `CatalogTable` | the table of the catalog page, its filter, its mark and clicks on it | component of `WebParts` |
| `WebDataCache` | `get_or_load` and `clear_cache` of the web process for one key | component of `Pages` |
| `SignInCallback` | OAuth states and the stages of the callback, in threads | component of `Pages` |
| `WebParts` | `WebCatalog`, `CatalogCounts` and `CatalogTable`, side by side | composition |
| `FormFlow` | the section map of a form | operators |
| `Distributions` | the chart of a question: plain, canonical, anonymous, weighted | operators |
| `PopulationTables` | tables of a population in a sheet or file, and the questions they fit | operators |
| `Weighting`, `Fractions` | post-stratification, design effects, timelines, in exact fractions | operators |
| `Associations` | the measure of a pair, the scan of all pairs | operators |
| `Forecast` | waves, test answers, selection, the curve and its drawing | operators |
| `Reports` | the sections of a report as blocks | operators |
| `ReportPdf` | contents, outline, charts cut to pages, arrows on lanes | operators |
| `ApiCalls` | a call that fails, from Google to the page | operators |
| `Analyses` | a page that takes an input of the modules above and shows it | state machine over the operators |
| `WeightingSettings` | the settings of the weighting page in a tab | component of `Pages` |
| `ReportPage` | the report page, its caches and the PDF it keeps | component of `Pages` |
| `FormsClient` | the reads from Google, in threads with clients they keep | component of `Pages` |
| `Pages` | `Analyses`, the three above, `WebDataCache` and `SignInCallback`, side by side | composition |
| `ReportJobsProofs`, `QuotaGuardProofs`, `CatalogStreamProofs`, `WebSessionProofs` | theorems about the module named | proofs |
| `WebPartsProofs` | theorems about `WebCatalog`, `CatalogCounts`, `CatalogTable` | proofs |
| `PagesProofs` | theorems about `ApiDataCache`, `WebDataCache`, `ReportPage`, `SignInCallback`, `WeightingSettings`, `GoogleGrants` | proofs |
| `FormProofs` | theorems about `Forecast` and `FormFlow` | proofs |
| `AnalysesProofs` | theorems about `FormsClient`, `ApiCalls`, `Associations`, and those of `FormProofs` for the pages of `Analyses` | proofs |
| `MC...` | constants and symmetry for TLC | |

Definitions under a comment that starts with "Mutation:" are never part of a
specification. Each is a plausible slip in the code beside it, and `PROJECT.json`
says which property it would break.

`ApiDocuments`, `WebParts` and `Pages` put parts that share no state into one specification: `part` chooses
the one that moves, the others stay as they begin. So no behaviour of a part is lost and
the product of their states is not built. `WebSession` and `ReportPage` are compositions of
the other kind: their parts do share state.

### Report jobs

`request[j]` is the program counter of the handler of one POST; `call[w]` is a
worker handler with its locals: the status it read first (`before` in
`run_report_job`) and the document it read last, from which
`JobStateMachine` builds the whole document it writes (`seen`). Between any two
remote calls every other handler may run, and any handler may die:
`RequestFails` and `HandlerFails` leave what was written and keep the task.
`Transition` is the only read and write in one step, as in
`FirestoreJobRepository.transition`. The queue is the rule of Cloud Tasks: a task
stays until it is answered 2xx and may be delivered again meanwhile. `LoseReport`
is what the worker's `report_not_found` branch exists for. The quota document is
an input because no code ever writes `reports_used_this_month` again.

### Quota guard

`Ask` reads the clock; `Decide` is everything under the lock and computes with
that reading. The dictionary entry of a waiting form is `waiting[u][f]`, 0 without
one. `admitted` is a history variable: the true times of the admissions, which the
code does not know. `Users` share nothing in the code but the sweep of past
entries in `Refuse`, which the model has.

### Catalog stream

`at` says where the generator stands between two of its yields or waits:
`Dispatch` is one pass of the loop up to its wait or sleep, with the wake-up time
that the code computes as the least of the next due time, the heartbeat and the
deadline. The heap is a sequence ordered by due time and arrival. `Finish` is a
load in its own thread with any outcome, also one the generator never looks at.
The several error statuses of one failed call are one status, because the loop treats
them alike. One clock reading stands for the two the code makes within a pass.

### API data cache

`Hit`, `Wait` and `Begin` are the three ways through the lock, with the clock read
before it; `Release` and `Signal` are the two halves of the `finally`. A value is
known by the time its load began. `storedAt` is a history variable.

### Google grants

A grant is known by the sign-in it was given to, so `record.grant` stands for the
encrypted pair of tokens; `record.scopes` is what the document says of it and
`grants[s].scopes` what Google gave. `credentials[r]` is where a request with its
credentials is, and `account` the document it was built from, which
`_ManagedCredentials` closes over: `SaveRefreshed` writes that copy, however old. Google's
answer to a refresh and what the code does about it are two steps. Google is modelled from
how the code uses it: a consent (`prompt=consent`, `access_type=offline`) always gives a
refresh token, and `invalid_grant` means that this grant is gone.

### Sessions and the web session

A ticket or a session is one document that lives until `used_at` or `revoked_at` is set.
`Request` is the arrival of a request with the clock reading and the first get, `Reread` and
`Write` the two halves of `touch`, `Create` the save of a new session; a handler whose client
gave up runs on (`awaited`). `WebSession` extends it: `tab[t]` is the Streamlit session
state of one page load with what its script waits for, and `Run` one run of the script up
to its first call or its end. `Miss` is a timeout or a proxy's 503 with the handler still running;
`Receive` is an answer in time; the two race. `reported` is what the cookie component last
said, which may be long out of date. `CarryOut` stands for the browser's write or delete and
the rerun that its confirmation causes: both in one step, since the component's messages come over one
connection in their order, a report of the cookie as it was before a delete not after its confirmation.
`signedOut` is what the tab keeps in mind, the last `MaxSignedOut` sessions it signed out from (`Latest`; five
in the code); `out`, all of them, is history that no step reads. A page load forgets the session state (`Load`). The
screens shown while the cookie is awaited, `auth_error` in the address and the local demo
login are left out; each ticket is exchanged once, as the page takes it from its address.

### The sign-in callback

`state[s]` is an OAuth state's document, `code[s]` what Google knows of its code, `cb[h]` a
thread in `google_auth_callback`; `stored` says which of the user's documents there are, and
`relaxed` is the environment variable that `_oauthlib_scope_policy` sets and puts back
(`ReadPolicy`, `Relax`, `RestorePolicy`), one for all threads. `ArriveBack` is the first get of
`consume` with its checks, `MarkUsed` the get and set of `mark_used`, so two threads may both find a
state unused. `Fails` is a failure of any remote call, at the stage where it happens.

### The catalog page

`WebCatalog`: `page[t]` is a tab: where its script is, the listing it shows, its load and what
it drew last. `load[l]` is a `CatalogLoad` with its thread: how far it has read, whether it was
stopped, how long nobody has looked (`idle`). Each line of the stream is a step of the thread, `Look` a
snapshot under the lock and the drawing after it, `Tick` a run of the fragment alone. The stream may
give its lines in any order and end at any point with an error. A load is a slot that is used again
when neither a page nor its thread holds it (`Free`).

`CatalogCounts`: one form, its owner who opens and closes it, and a line of the catalog as two
reads through the API's cache, which is here one step (`ApiDataCache` has its steps). The count is
kept under the open or the closed key, as the details that were read say.

`CatalogTable`: what is drawn, what the browser shows and a click on its way are three things, and the
rows of the table may change between any two of them. Streamlit remembers a marked row by its
number per key of the table (`rows`).

### The web data cache, and the report page

`WebDataCache` is one key with readers that stall between the clock and the lock and load without
telling each other; a value is known by when its load began, `cleared` is history. `ReportPage`
puts the lives of the caches over one another: the kinds of `google_data.py` and `_load` of the page,
which keeps what it got from the first for a time of its own. There a read is one step. `pdf` is
known by when each of its sections was asked of the API.

### The weighting page

`WeightingSettings`: `DrawSettings` is a run of the page up to some question or to its end; a
run cut short leaves what comes after in the session as it was, including the configuration. `box` and
`chosen` are the widgets' states, which Streamlit drops when a whole run, or a run in another mode,
does not draw them. `wish`, `accepted` and `misfit` are history: what the user asked for as far as a run
has drawn it.

### Reads from Google

`FormsClient`: a thread's read is `StartRead`, then pages of any length with or without a token
(`NextPage`), or a form in one call (`Form`), or the names of the grids and then their values; any
of them may end in an `HttpError`. `clients[t]` is the thread-local client of `forms_service`.
The two listings of a form's questions, one for the pages that compute and one for the charts, are
here too, since they have to agree.

### The analyses

`Analyses` is a page that takes an input and shows it; the operators of the other modules say
what it shows, and the properties of `Analyses` what is promised of it (action properties, of the
page that a step draws). What is data is small: an answer
is a word in a spelling, a cell is blank, a label or a number, times are ticks. What is
arithmetic is exact (`Fractions`): where the code adds floats the model adds fractions. Square
roots are left squared. p-values, fitted curves and the coordinates of a drawing other than those
that can collide are inputs or left out. A mutation of a helper may still be noticed only by a property
that compares two paths of the code, so most properties do: the page against the report, the
weighted chart against the plain one, the running sum against the whole, the map's marks against its
arrows, the scan against the procedure's definition.

`ApiCalls` is a chain of tables, each the translation that one module of the code makes: Google's
error to a reason (`Reason`, `IsScopeError`), to an answer of the API (`Translated`, `AccountAnswer`),
to a typed error (`TypedError`), to what the boundary does (`Boundary`), to what the page shows
(`PageShows`, `LoadShows`).

## 3. What the runs check

| Run | Question | Bounds | Why they are enough |
|---|---|---|---|
| `api_documents` | What may a client rely on of a job? Does the record of a grant describe its tokens, survive outages, and go when revoked? | jobs: 1 job, 2 handlers, 2 failures, 2 lost reports; grants: 2 sign-ins, 2 requests, 2 scopes | jobs share nothing but the handlers, and the proofs cover any number; two handlers race at every pair of steps; two failures let a delivery die, and its redelivery die too; an old and a new grant meet with two requests that hold either; one scope that a consent may lack |
| `quota_guard` | Does the limit hold, and do refused forms get one place each, no more of them in a window than the limit? | 1 user, 3 forms, 2 threads, limit 2, window 3, stall 1, 8 ticks | one form more than the limit, so that slots follow counted calls and promised calls; more than two windows, so that slots are kept, missed and given again |
| `catalog_stream` | Is any load lost or doubled, and does the stream end? | 2 forms, 2 workers, deadline 3, heartbeat 2, retry 1, guard wait 1 | two forms of two loads each meet in every queue; the heartbeat, a retry and the deadline each come first in some behaviour |
| `api_data_cache` | One load at a time, fresh, and does every call end? | 3 callers, lifetime 2, stall 1, 5 ticks | a loader, a waiter and a late caller, over two lifetimes |
| `google_grants_dropped` | Is only the record of a revoked grant deleted? No. | as `api_documents` | a request of the old grant and a new sign-in suffice |
| `web_session` | Does a tab stay signed in, let go of a revoked session, and does each run end? | 2 tabs, 2 handlers, 1 ticket, 1 session, 1 retry | the tab that logs out and the tab that still holds the session; a handler left behind beside a new one; page loads and reports are not bounded |
| `web_session_two` | Does a tab stay out of what it signed out from, if it keeps in mind only the last? | 2 tabs, 2 handlers, 2 tickets, 2 sessions, `MaxSignedOut` 1 | a second sign-out pushes the first session out of mind while the cookie may still be reported; the theorem covers five, and any other number |
| `web_session_revoked` | Does a revoked session stay revoked? No. | 1 tab | one check left behind by a page load suffices |
| `web_parts` | Does the catalog page come to rest on the truth, its mark on the current form, its counts fresh, and does a load that is left alone end? | catalog: 1 tab, 2 loads, 2 forms, the listing changes once; counts: up to 2 answers, lives 2, 1 and 4; table: 3 forms | an old load beside a new one; two forms come in two orders; the closed key outlives the open one; rows come in above and below the mark |
| `pages` | Are the analyses what they promise, are settings kept, is a report and what a page gets fresh, is a read whole, does a sign-in give one ticket, at the end? | the inputs that `MCPages` names: forms of 1 to 4 sections, 3 respondents with 2 words in 2 spellings, sheets of 3 rows (and of 10), samples of 4, pairs over 4 respondents, scans of 4 pairs, 7 answers in time, reports of 3 questions with 2 respondents, every failure of a call; 2 questions, 2 arrivals, 2 files; 4 caches over 5 ticks; one cache with 2 readers, lifetime 2, stall 1, 5 ticks; 2 threads, 2 accounts, pages of 2, at most 3 forms; 2 OAuth states, 2 callbacks | two of each kind meet; boundaries (a table that ends with the sheet, a tie, an empty stratum, a weight of zero, a page as long as the limit) are among the inputs; two loads overlap and a clear falls between any of their steps; two callbacks of one state and of two |
| `sheets_optional` | Does each failure of a call end in a proper state? No. | the failures of a call | the first that fits |
| `load_scope_error` | Is an error of the background load handled as that of any call? No. | the same | the first that fits |

`CHECK_DEADLOCK FALSE` is set where a run really ends: all requests answered and no
task left, the clock at its bound, a stream that is over, every call returned.

The abstract specifications are checked as properties of the detailed ones
(`ImplementsLifecycle`, `ImplementsProgress`).

**Fairness.** A handler, a caller or the generator that can go on goes on (weak
fairness): a thread of the server runs. Cloud Tasks redelivers a task again and again
(strong fairness of `Deliver`, because handlers are busy in between). Time passes.
Nothing is assumed of a Google call inside the stream: it may hang for ever, and
`AlwaysEnds` holds all the same. In the cache a load does return or raise, since the
Google client has a socket timeout; without that a waiter waits as long as the
loader does. `AdmittedRequestsSucceed` asks for progress only in behaviours without
failures. `RevokedIsNoticed` needs that the user goes on using the program and that Google's
token endpoint is not out of order for ever (strong fairness of `Asks` and `RefreshAnswers`). A
page's script runs again and again (strong fairness of `Run`, because handlers may be busy) and
takes an answer that came before its timeout. `EveryRunEnds` holds even if every timeout is missed;
`RevokedIsLetGo` starts when the API has recovered (`~slow`), since a tab that gets no answer keeps
its session on purpose. In the catalog page a thread that finds that it should stop stops
(`StopReading`, `Close`), the time since the last look passes (`GrowIdle`), and a page's script, its
timer included, goes on (`Script`); nothing is assumed of the stream, which may stay silent, nor of
the user. So `AbandonedLoadsEnd` follows from the idle limit alone, and `PageSettles` is asked only of
pages that are left alone while lines do come.

**Bounds.** `MaxFaults`, `MaxLosses`, `MaxTime`, `MaxClock`, `MaxChanges`, `MaxCount` bound
counters; `MaxSignedOut` is a number of the code (`auth_widget.py:362`), smaller in the runs; `MaxStall` and `Stall` also have a meaning, how long a thread may be stopped between reading
the clock and holding the lock, and properties name them.

**Where properties stop.** `AbandonedLoadsEnd` is about loads that were replaced or dropped by a refresh, not about
tabs that go away with theirs. `MarkIsOnCurrentForm` is about the mark, not about which form a click picks.
`NothingBlocksTheNext` is about callbacks that ran alone. `PagesSeeFreshData` allows a load that was in flight when the
cache was cleared to store its value, within the bounds it names. `WeightsRestorePopulation` is about dimensions with names
of their own: the code files results by the name of a dimension, the model by its place. The fits and the window of
`ForecastGoesOnFromFacts` are those of one look: the cache of forecasts (`dynamics.py:93-104`) is not modelled.
In the arrows of `ReportPdf` the k-th options of all questions have one label, since the code draws
options of one label and target as one arrow. And `EffectsAreComparable` bounds the measure of a pair, nothing more.

## 4. What the runs found

1. *A working record can be dropped* (`DroppedOnlyWhenRevoked`), against
   `core/saas/google_credentials.py:127`. A request that still holds the account of an
   earlier sign-in is answered `invalid_grant` after a new sign-in has replaced the record,
   and `delete_by_user` deletes the new one. Comparing the stored refresh token with the
   one that failed, before deleting, would close it.
2. *A logout can be undone* (`RevokedForGood`), against `auth_widget.py:377`. `touch` sets the
   whole session document as it has read it, so a session check or data request that
   overlaps a logout writes `revoked_at` back to empty. Updating the one field, or a
   transaction as in `FirestoreJobRepository.transition`, would close it.
3. *An unreadable sheet ends the weighting page with a traceback* (`EveryPageHasAProperState`),
   against `ui/api_boundary.py:3-5`. The API answers 403 or 404 with `google_sheets_error` when Google
   does not let the user read the linked sheet; that is a plain `httpx.HTTPStatusError`, which neither the
   boundary nor `weighting.py:200-207` nor `report_data.py:56` takes. `except SheetsApiError` there is
   meant for it, but over the API the error arrives with another type.
4. *A missing scope met by the background load is not offered a new consent*
   (`LoadErrorsAreSurfaced`), against `catalog.py:493-494`: `MissingGoogleScopesError` is not a
   `SaaSApiError`.

**Also seen**, where the code and what is said of it part, without a run of their own:

* *A running job can be forgotten.* A delivery sets the job running and dies; the next one reads
  `RUNNING`, and `worker/main.py:48` answers 200: the task is gone, the job runs for ever.
  `fail(retryable=True)`, which would help, is called nowhere.
* *Promises of the quota guard are not in increasing order*, as the comment at
  `api/google_quota.py:43` says: a form that asks late is promised the end of a counted call, earlier than
  a slot promised as the end of a promise (line 81). The limit is not affected.
* *A form that comes back when it was told may be refused again.* `google_quota.py:53-54` says that "callers
  that come back on time are admitted one by one", and `test_a_call_that_comes_back_on_time_gets_its_slot`
  shows it for a form that nobody overtakes. But a call is admitted whenever a window has room, whatever was promised
  (line 69): with a limit of 2, a window of 3 and two forms admitted at 1, a third is told 4; at 4 two others ask
  first and are admitted, and the third, on time, is told 7. So `PlacesAreSpread` speaks of the places that are given, not of
  what becomes of them.
* *An unanswered call is not always asked once more* (docstring at `core/catalog_stream.py:120`):
  429s and timeouts share one counter (line 170).
* *Two sign-ins at once may refuse one of them*: the scope variable that one exchange sets is put
  back by another (`google_oauth.py:115-124`). `NothingBlocksTheNext` excludes callbacks that ran beside one
  another for this reason; a variable that such a pair leaves set blocks nothing later.
* A tab whose old session is refused deletes the cookie by name, also when another tab has stored a newer
  session in it. A late `_save_refreshed` can put the grant of an earlier sign-in back in place of a
  newer one. The monthly report quota is compared with a counter that no code increments.
* A click on the catalog's table is read by the rows that were drawn last, not by those "that the user
  saw" (`catalog.py:417`), so a click that crosses a redraw may pick the neighbour.
* The page shows canonical labels, the report prints raw ones unless it is anonymous, so a word in two
  spellings is one bar on the page and two in the report (`questions.py:376-386`, `reports.py:278-284`), though
  `questions.py:201-203` says that the results are identical. They are not, and `ChartsTellAll` states what does hold:
  where there are 30 labels at most, the bars of a word add up to the same. The page cuts a chart to its 30 first bars
  (`questions.py:395`), the report to as many as the user asks for.
* The option "other" of a form has no words (`forms_quality.py:310`). Answers without words, which the code
  otherwise drops, then have a bar without a label in the anonymous report; the page drops them all the same
  (`forms_quality.py:237-238`), and so do the weights. `ChartsTellAll` and `ReportIsWhole` make that exception.
* The section map draws no arrow to the next section from one whose questions do not branch
  (`form_flow.py:103`), but one to the end if nothing else leaves it. `SectionMapIsTrue` compares the map's marks with the map's arrows, not
  with the ways a respondent has.
* The chart of the shown count of a form may go back: a closed form's count is an old one until it is
  reopened (`google_forms.py:48-52` says so).
* The caches of the report page add up: what is printed may be 300 + 120 s old, more than either promises
  (`Oldest` in `ReportPage`); its refresh button does not clear the tables of the sheet; and a PDF is offered
  after settings have changed.
* When every question is hidden, the descriptive section is empty and `full_report` leaves a blank page
  for it (`export.py:242`, `reports.py:446-458`).
* `report_data.auto_weighting` takes `MissingGoogleScopesError` for a sheet without tables, as it is a
  `RuntimeError`: the offer to connect in `export.py:252` is never reached.
* The list of forms loses Google's reason for a 403 (`forms_catalog.py:141-145`), so that a missing scope is
  known there by Google's message only. A socket timeout of Google outside of the catalog is a 500. A 502 for
  the sheet stops the whole weighting page.
* A stratum with a population of zero has no weight on the timeline, and a respondent outside of every stratum
  counts as one. The weighting page does not strip answers (`weighting.py:145`), the report does
  (`report_data.py:36`). `detect_test_responses` looks at 12 answers at least, not `_MIN_N` of 10. The verdict on
  a single pair speaks of an FDR that is not computed (`questions.py:473`). `_cached_forecast` says that its
  key has the form's id, whose parameter name keeps it out of the key (`dynamics.py:95,107`).

## 5. What is proved

The theorems hold for all values of the constants under the named assumptions of
their modules (sets and naturals, a model value that is not a member of the set beside
it), so for any number of jobs, handlers, forms, threads, callers and failures.

* **`ReportJobsProofs`**: type correctness, all the safety invariants, also those that no run
  lists because the others depend on them (`TasksNameStoredJobs`, `DroppedTaskWasStarted`),
  that a succeeded job never changes (`SucceededIsFinal`), and that `ReportJobs` implements
  `JobLifecycle`. None of the invariants is inductive. The strengthening says for each
  program counter what must be true by then: an API handler past a save has its
  document; a handler past `start` has seen a job that was taken up, one past `upload`
  has its PDF in the bucket, one past `update` its report. The key part is about stale
  copies: whoever is about to write a `running` document holds a copy with
  `attempts = 0` if the job is still startable, and whoever is about to finish the job
  holds the very document that is stored, as long as no report was lost; the transaction
  refuses every other write.
* **`QuotaGuardProofs`**: type correctness, `RateLimited` and `PlacesAreSpread`. The invariant of the
  first: the queue of counted calls is the last part of the history of admissions, each recorded at most
  `MaxStall` before it happened, and everything before that part is at least
  `Window - MaxStall` old. An admission needs fewer than `Limit` calls in the queue, so the
  admission `Limit` places back is outside of it. The promises of a user are not in order, so nothing can
  be said of neighbours; but promises that are a multiple of `Limit` places apart are a window apart
  (`Apart`), by induction on the multiple (as a least counterexample), and that suffices, since any
  `Limit + 1` slots in one window would hold two such. A slot to come is in the queue as often as forms
  wait for it (`Matched`): a form that is refused has no slot to come, and one that is admitted takes
  its slot out of the queue.
* **`CatalogStreamProofs`**: type correctness, `LoadsAreKept`, and that `CatalogStream` implements `CatalogProgress`. The
  lemmas are written over four places of a load (waiting for details, waiting for a count, held back, in
  the pool) rather than over the variables, since a pass of the loop moves loads between three of
  them at once: the places hold each load at most once (`Apart`), Google was asked as often as the
  load has counted, and once more when a result of Google lies unread in the pool
  (`Counted`), and what is in no place was reported (`ReportsMatch`). While the stream expires the loads
  that are owed are the ones in `late`. The refinement then needs that what is
  reported was owed, and that nothing is owed when the stream says "done".
* **`WebSessionProofs`**: type correctness, `TabsAreSound` and `NoNeedlessSignOut`. A tab knows a session from its state, its
  queue of cookie writes, the last report of the cookie, or from having left it. The invariant
  ties these to what the API's threads hold: a session is a stored document before any tab or cookie has
  it; a thread that a tab awaits works on what the tab asked for, and no two tabs await one; a thread that
  was refused met a document that had expired or was ended, and a document is ended only after some tab has
  left it (`EndedIsLeft`).
  `TabsAreSound` holds for any `MaxSignedOut` of at least 1, though what is out of mind is believed again when the
  cookie reports it, because it cannot be in the cookie any more: a session that is to be written is its tab's own
  (`IsOwn`) and a new one nobody's (`IsNobodys`), so nobody writes back what was left; a session that a tab has left
  is in the cookie only as long as the tab is to delete the cookie, takes up nothing and has the session in mind
  (`IsPast`); and a tab that has a session again, or waits for the API, is done with its delete, and the cookie was
  reported to it since (`IsDone`).
* **`WebPartsProofs`**: `RestsOnWhole` (and type correctness of `WebCatalog`), `OpenCountsAreFresh` and
  `MarkIsOnCurrentForm`. For the first: a load keeps what its stream said and does not end without a
  reason that the page can see (`IsTrue`), and a load that a tab holds is given to no other, whatever became
  of its thread (`LoadsAreOwn`). For the last: nothing that a mark depends on changes between
  the drawing of one table and the next (`LastMarkIsCurrent`).
* **`PagesProofs`**, in the order of the module:
  * `ApiDataCache`: type correctness, one load at a time, freshness and that loads are
    needed (`NoNeedlessLoad`). The invariant ties a loading caller to `loading`, an entry to the clock
    reading of its loader, and the last stored value to the entry that may still hold it.
  * `WebDataCache`: type correctness and `PagesSeeFreshData`. An entry ends at most a lifetime
    after its load began, since the reader has read the clock before, and the clock
    is at most the stall ahead of a reader that looks.
  * `ReportPage`: type correctness and `ReportIsFresh`. The page's own cache may keep an
    answer for nearly the lives of two, every other cache for its own; a cache that the
    refresh button clears keeps nothing that was asked for before.
  * `SignInCallback`: type correctness, `TicketsComeLast` and `NothingBlocksTheNext`. `MarkUsed` guards
    nothing by itself, so the invariant is about the exchange: a thread holds its sign-in from a good
    exchange of the code to the ticket, it is the only one that does (`HeldOnce`), and while it does the
    code is spent and there is no ticket (`HeldIsOpen`). For the second, a thread that runs alone keeps
    what it may count on at each stage (`Undisturbed`): its code is not spent, since a spent
    code belongs to a state that is used, and the scope variable is as it has set it.
  * `WeightingSettings`: `SettingsAreKept`. What the user asked for is where the next run looks for
    it, in the box, or in the draft once the widget's state is gone (`Remembered`).
  * `GoogleGrants`: type correctness, that the record never claims a scope its tokens
    lack, and that it is kept while Google honours every grant. What a request holds says nothing
    of the record it will meet, so the invariant says of both that they are backed by a grant
    once given, whose scopes never change and whose revocation is final; and that whoever is about
    to delete has met a revoked grant.
* **`FormProofs`**: what the page of a form's dynamics computes of any sorted answers
  (`IsCourse`), of any three fits and any window (`IsPicture`), and what the section map says of any form. `WaveStarts` and `BestFit` are
  folds. What a fold gives is shown to exist, step by step, as a function (`FoldIsThere`), and what it is
  follows by induction over the numbers, with the numbers that a fact holds of as a set (`Induction`).
  * `WavesDoStay`: the waves that are found among the first answers are the first waves found among
    all. Whether an answer starts a wave depends only on the answers up to its time and on the last
    start before it (`SameSpike`), so what is found is the same as long as no answer of the same time is cut
    off; this is why the property asks for a gap after the answers that are known. A start
    is later than the last one, which needs `silence` of at least an hour: with none, two answers of
    one time would each start a wave.
  * `ForecastDoesGoOn`: the curve drawn is later and never lower at each point, within its band and the axes,
    and ends where it should. The parts: a curve never falls, whatever was fitted (`PointsRise`); its band
    starts at what was observed and is no wider than the point, which needs five answers, because the least
    width of the band is ten (`HalfIsSane`); both grids of dates start after the last answer (`FutureLeadsOn`,
    `WaveLeadsOn`) and end at most three spans and a step on; a curve of a wave counts what the fit did not
    see (`GoesOnShifted`); any window that the session may keep is cut to one (`WindowIsCut`); the days of
    the timeline count every answer (`AllAreCounted`).
  * `MapIsTrue`: in any form with a section at least, whose options lead to numbers, the map marks just the
    sections that nobody reaches, warns of a loop just when there is one, and draws a way to the end from every
    section that is not marked. `Leads`, over which the property is stated, is shown to be the least
    transitive relation with the arrows (`LeadsIsClosure`). Three arguments rest on it:
    * The breadth-first search takes as many steps as there are sections. A step that adds nothing has closed the
      set, and each other step adds a section, so by then it is closed (`SpreadIsClosure`, `MarksAreTrue`).
    * The depth-first search exists as a function because each visit leaves fewer sections to visit
      (`VisitIsThere`). Its invariant: what it has left is closed under the arrows, has no way back to
      itself, and shares nothing with what it is visiting (`VisitIsTrue`); so what it says of loops is so
      (`LoopsAreTrue`).
    * Without loops everyone reaches the end: of sections that do not, one with the least beyond it would
      lead to one with less (`EndIsReached`).
  * `NobodyGetsStuck`: from every section that the map does not mark as unreachable it goes on
    (the arrows to the end are computed before the marks, and change neither).
* **`AnalysesProofs`**, in the order of the module:
  * `FormsClient`: `ReadsAreTheirOwn`, for any number of threads, any accounts and pages of any length.
    `AccountAssumption` and `ItemAssumption` say that what an account lists are sequences, that a question
    has one id, and that a grid has columns and at least one row, as Google's forms do. The invariant: a
    read goes through a client that its own thread has made for its own credentials (`OwnRead`), it holds a
    beginning of the listing of those credentials (`PartOf`), of a spreadsheet the names of its grids
    (`NamesFirst`), and if it has ended well, it says all of what was there (`EndsWell`). Times are sorted by their places
    in the order (`PlacesInOrder`); the two listings of a form's questions are joined item by item
    (`ItemAgrees`, `Joined`), by induction over the items.
  * `FailuresAreTakenRight` for any status and any list of reasons. The code
    keeps one reason of several, the first that is about scopes, so the proof is about what is kept: it is
    about scopes whenever one of them is (`ScopeReasonIsKept`). `CallsAssumption` is the set of failures
    considered, in which a gateway in front of the API answers anything but 401: one that did would sign
    the user out, and the code does not look at who has answered.
  * `SectionMapIsTrue` for the pages, from `FormProofs`, under `FormsAssumption`: a form has a section at least, and
    options lead to sections by their numbers.
  * `ScanRejectsTheRightPairs`, for any number of pairs with any p-values and effects (`ScansAssumption`). The
    code walks from the largest p-value down and keeps the least ratio so far; by induction, a ratio that is kept is
    the least of those above it, ties included, which is what the procedure of Benjamini and Hochberg asks. Ratios are
    compared as fractions that are not reduced, so what is shown needs nothing of divisors.
  * `WavesStayFound` and `ForecastGoesOnFromFacts` for the pages, from `FormProofs`. `CoursesAssumption` and
    `PicturesAssumption` say that answers are sorted, as every module of `core/forecast` sorts them first, that a wave
    needs an hour of silence, and that a fit is made of whole numbers, its half-width no less than zero.

**Model-checked only.**

* Liveness (`AdmittedRequestsSucceed`, `AlwaysEnds`, `EveryCallEnds`, `RevokedIsNoticed`, `RevokedIsLetGo`,
  `EveryRunEnds`, `AbandonedLoadsEnd`, `PageSettles`) and with it anything under fairness is out of the
  prover's reach.
* The other properties of `Analyses`: `ChartsTellAll`, `TablesGoWhereTheyFit`, `WeightsRestorePopulation`,
  `EffectsAreComparable` and `ReportIsWhole`. They are about sorted and filtered sequences, and about sums of
  fractions reduced by their greatest divisors, of any length. The library's operators for the first
  are given by `CHOOSE` or recursion, and the installed provers do not compute with divisors that are
  variables. The first-order inductions of `FormProofs` would be the way for those that are folds.

## 6. What is left

In the order of what a user would lose:

1. Proofs: the chart of a question and the report made of it (`ChartsTellAll`, `ReportIsWhole`), then the tables of a
   sheet and the weights.
2. One login ticket exchanged twice, once the code says whether that may be.
3. The catalog page over `CatalogStream` in place of a stream that may do anything, and the counts with
   callers that overlap.

**Not modelled**, and why: numerical fits, priors and calibration of the forecast and the
distributions behind p-values (floating point; their results are inputs); the look of pages, charts and PDF;
`core/detection.py` and CSV and XLSX downloads (they repeat what the pages show); encryption, hashing,
logging; the local mode with one user's token in a file; the in-memory adapters.

## 7. Running it

`tlc -config X.cfg M` for a run (`PROJECT.json` lists module and configuration), and
`tlapm XProofs.tla` for the proofs. No run takes more than five minutes with two workers.
