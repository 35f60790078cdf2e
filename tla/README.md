# A TLA+ model of Lighty's server

Lighty (`src/`) is a NestJS server for friends who meet: users befriend each
other, form groups, hold gatherings, invite friends to them, and post feeds with
pictures of past gatherings, and look at all of these in paged lists. This
directory holds TLA+ modules translated from
its source, TLC instances of them, and theorems about them that TLAPS checks.

    tlc -workers 2 -config SocialGraph.cfg MCSocialGraph      # check an instance
    tlapm SocialGraphProofs.tla                               # check the proofs

## 1. The program

### How a request runs

A controller (`src/src/presentation`) calls a use-case or a service
(`src/src/application`, `src/src/domain/services`), which calls components
(`*Reader`, `*Writer`, `*Checker` in `src/src/domain/components`), which call
repositories (`src/src/infrastructure/repositories`), which send one statement
each to PostgreSQL through Prisma or Kysely. There is no state in the process: all
of it is in tables, and every `await` of a repository call is a point where another
request may run. A typical handler *checks* with one or more reads and then
*writes*; the read and the write are separate statements, so what was checked may
be stale when the write runs.

`@Transactional()` (nestjs-cls, `src/src/configs/cls/cls-options.ts`) makes the
statements of a method one Prisma interactive transaction at the database's default
isolation level, READ COMMITTED: each statement sees what is committed when it
starts, writes are invisible to others until the commit, and a row written stays
locked until then. Prisma rolls back a transaction that takes too long; PostgreSQL
aborts one of a set of transactions that wait for each other. Only repositories
that go through the transaction host take part: the refresh-token and the
notification repository use a connection of their own.

The schema (`src/prisma/schema.prisma`) uses `relationMode = "prisma"`: there are
no foreign keys in the database. What keeps tables consistent is the code.

### Inventory

| component | state (tables) | operations that change it | hard about it | what makes it correct |
|---|---|---|---|---|
| Friends | `friend` | request, accept, reject, unfriend | two users act on one pair at once; a row is written by an id read earlier | one row per pair; unfriending retracts the open invitations between the two |
| Friend reports and blocks | `report`, `blocked_user` | report a friend (one transaction, four tables) | fails in the middle on a second report; locks in the opposite order of unfriending | a report for each block and none else; the deadlock ends |
| Gatherings and invitations | `gathering`, `gathering_participation` | create, accept, reject, delete, end | friends checked one by one before the write; deletion races answers | open invitations are from friends; a deleted gathering has none; an answer is never undone |
| Groups | `group`, `group_participation` | create, add members, leave, delete, update, report | the member limit is read and then written; rows change between the check and the write | the owner stays a member; who has reported a group is not let back in; the limit |
| Sessions | `refresh_token` | login, restore, refresh, logout, withdraw | token rows written outside the transaction around them; a transaction waits for a second connection of the pool | only a login opens a session; a withdrawal ends all; no request waits for ever |
| Accounts | `user` | register, change id, withdraw, restore | unique indexes that hold NULL distinct; withdrawn rows that keep their account id for 30 days | an account id belongs to one active user |
| Feeds and comments | `feed`, `feed_image`, `friend_feed_visibility`, `feed_comment`, `blocked_feed` | create, update, delete, block, comment | duplicate check and visibility check before the write | duplicates are bounded by the requests in flight; shown to nobody who was never a friend |
| Other reports | `report`, `blocked_feed`, `blocked_feed_comment`, rows of group members | report a group, feed, comment | the insert that hides fails on its key after the report was inserted | a report hides what it is about, or is not filed |
| Notifications | `notification` | create (unawaited), read, delete | not awaited by the handlers; own connection; an error in it is logged and the notification lost | what is told belongs to what was committed, is told in one way, and to whom it concerns |
| Pagination | none | lists by cursor, counts | rows with equal sort keys at the end of a page; rows that change between two pages; the range's edge | the pages together are the list; the walk ends; the counts are those of the lists |
| HTTP layer, providers, storage, migrations | none | | | |

Interaction. Friends, reports and gatherings share tables: unfriending and
reporting retract invitations; creating a gathering reads friendships; creating a
gathering for a group reads the group's members; a feed is written about a
gathering by one of its participants and shown to friends; withdrawing an account
leaves its rows where they are, for other queries to join away. Handlers publish
notifications after their writes without awaiting them.

## 2. The modules

| module | models |
|---|---|
| `SocialStore` | the tables `friend`, `gathering`, `gathering_participation`, `report`, `blocked_user`; statements, row locks, transactions |
| `Friendship` | `FriendsService`, `FriendReportsWriteSerivce`, and their checks and repositories |
| `Invitations` | `GatheringsService`, `GatheringInvitationsWriter`, and their checks and repositories |
| `SocialGraph` | the two at work on the same tables; deadlock, time-out, crash; the properties |
| `InvitationContract` | the abstract specification: what gatherings promise, every step atomic |
| `SocialGraphInv` | the inductive invariant |
| `SocialGraphProofs` | theorems about `SocialGraph`: types, the inductive invariant, the refinement |
| `SocialSerialProofs` | theorems about requests that do not overlap |
| `Groups` | `GroupsService`, `GroupReportsWriteService`, and their repositories |
| `GroupsProofs` | theorems about `Groups` |
| `Accounts` | `AuthService`, `UsersService`, the user and refresh-token repositories, the connection pool |
| `SessionContract` | the abstract specification: when a session begins and ends |
| `AccountsProofs` | theorems about `Accounts` |
| `Feeds` | `FeedsService`, `FeedCommentsService`, `BlockedFeedsService`, the reports of feeds and comments, and their checks and repositories |
| `Notifications` | extends `Feeds`: `NotificationsManager`, `NotificationsService`, and the use-cases that notify |
| `FeedsProofs` | theorems about both |
| `PagedWalk` | the abstract specification: a client walks a list by cursors while the list changes |
| `PagedWalkProofs` | theorems about it |
| `Pages` | cursors: which rows a page holds and how the next one is asked for |
| `PagesProofs` | lemmas about pages: first and last rows, what `LIMIT` leaves out |
| `UserLists`, `GatheringLists`, `FeedLists` | the queries of the paged lists, and of the counts beside them |
| `Lists` | a client walks one of these lists while rows change; implements `PagedWalk` |
| `ListsInv` | what a page of each list is, said once for all lists, and the inductive invariant |
| `ListsProofs` | theorems about `Lists` |
| `MCSocialGraph`, `MCSocialLiveness`, `MCGroups`, `MCAccounts`, `MCFeeds`, `MCNotices`, `MCLists` | instances for TLC |

`Groups` and `Accounts` share no table with `SocialGraph` that either reads for a
decision, two reads excepted: adding a member and creating a group check
friendships, and creating a gathering for a group reads its members. The reads
are abstracted on the reader's side (any users may pass the check of friends; the
members of a group are a constant), which allows more than the code does. `Feeds`
reads friendships, participations, gatherings and withdrawals and has no effect on
them: they change there by steps of an environment (`Befriend`, `Withdraw`,
`DropGathering`, ...) that is freer than the modules that own them: a user may befriend
himself, as `Friendship` lets him, and have several rows in a gathering. `Lists` only reads;
any table of a few rows may be what it finds, and rows change between pages.

### State and actions

A slot `r \in Request` is one HTTP request in flight. `req[r].pc` is the next
statement it will send, the other fields of `req[r]` are the handler's local
variables that are still read. The first action of a handler is its check
(`RequestFriend`, `AcceptInvitation`, ...): the condition under which the code
goes on, and a new request in the slot. A request whose check fails is answered
4xx and leaves no trace, so it is not a step. The other actions are the writes.

A write outside a transaction (`SaveFriend`, `UpdateFriend`, `DeleteFriend`,
`AnswerInvitation`) changes the table at once. A write inside one
(`UnfriendStatement`, `ReportStatement`, `DropStatement`) adds to `pending[r]`,
the set of rows the transaction has written, and `Commit` applies the set. The same
set is the set of row locks it holds: `Unlocked(r, locks)` is the guard of
every write. A write that waits is an action not enabled.

A row is a record with the columns the code branches on. Ids are drawn from a set,
and a new row takes an id no row has and no request in flight remembers, as `v4()`
does. Ids of friend rows are used again after a deletion, those of gatherings,
which are soft-deleted, are not.

`createTransaction` of a gathering is a single step: it only inserts rows with fresh
keys, which nobody can see or wait for before the commit, so that its other
interleavings are equivalent.

**Groups.** `member[<<g, u>>]` is the status of a row of `group_participation`. No
transaction of this service holds a lock while it asks for another one, so `CreateGroup`
and `ReportGroup` are one step each, and so is the deletion of a group, which Prisma
carries over to its members (`DeleteCascade`). `AddMembers` reads who is a row
already, `CheckMemberCount` counts, `SaveMembers` inserts: three statements between
which others run. Nothing looks whether the group is still there when the rows
are inserted, so a deleted group may have members. The lists of groups and the counts in a
profile join the group and do not see them; `findMembersByGroupId`, `countMember` and
`findByUserIds` do not join it, and go on finding them (`Members` counts them).

**Accounts.** `user[i]` is a row of `user` with what the handlers tell apart: whether it
is active or how long it has been withdrawn, and whether the account id may be changed
again. `token` is the set of keys of `refresh_token`; which token is stored is
left out. `RefreshTokenPrismaRepository` uses `this.prisma`, not the transaction host: a
token statement inside `restoreUser`, `logoutTransaction` or `withdrawTransaction` needs a
second connection while the transaction keeps the first (`held`), takes effect at once,
and is neither undone nor cancelled by a rollback. `Timeout` therefore ends a request
only if its next statement is on the transaction's connection; otherwise it takes away
the transaction and lets the token statement run, and the request fails after it
(`Proceed`). `MonthPasses` is the clock; it does not strike during a request about the
row, which would take a request that lasts over the 30th day. `released` is a history
variable: the account ids that an account withdrawn for 30 days has had.

**Feeds.** Handlers whose checks another request can outdate run one statement at a time:
a feed about a gathering (participation, duplicate, insert), a feed for friends (one
query for each friend in any order, then the transaction), and reports (the report's
insert, the insert that hides, the commit). The others check and write a single row that only
its writer changes, and are one step. An insert of a key that another transaction has
inserted and not committed waits for it (`Awaited`). Feeds and comments are deleted
by a date, so that ids are not used again. A pair in `friends` has one element when a user
has asked and accepted himself: `checkIsFriendAll` then lets him tag himself. Comments, hidden
rows and reports may name an id without a feed, since the handlers do not look and the database has
no foreign keys; a new feed takes an id none of them has named (`Unused`), as `v4()` does.
`roster` is how many rows a user has in a gathering, which may be several when he was named twice
or the host names himself. `befriended` and `invited` are history variables: the pairs that
have ever been friends, and `roster` as it was when the gatherings were created. Pictures and the
text of a feed are left out: nothing reads them for a decision.

**Notifications.** An event in `task` is a call of `NotificationsManager` that nobody awaits: it
is created by the step that commits what it tells of, and ends when its receivers have been
read (`Tell`) or one of the reads failed (`DropEvent`). The receivers are read by several
statements, in one step here: each of them reads rows that only go from active to
withdrawn or deleted, so that another interleaving gives the outcome of a `DropEvent`
or of a `LoseNotice`. Of a feed about a gathering every row of the gathering but the writer's gets a
notification of its own (`ParticipantRows`). Events, `outbox` and `notice` are bags, so that two equal
notifications are two. `outbox` holds the rows whose insert has been sent and may run late or fail
(`Save`, `LoseNotice`); `Crash` loses both. `delete` and `deleteAll` are what the code
makes of them: both call `readAll`.

**Lists.** `row[i]` is what the list's query joins of the thing with id `i`: its date or
name, and the columns its conditions read. The operators of `UserLists`, `GatheringLists` and
`FeedLists` are the queries: the condition, the order, the comparison of the cursor, and
what is joined after the limit. A page is the set of its rows: what depends on their order is which
of them is the last, and with it the next cursor (`Last`; `None`, which is no row, when the page is
short). `Fetch` is one page; `Change` is one attribute of one row
changed by somebody, restricted to changes that show in the list or its counts, and to those
the handlers make (the date of a gathering changes by `update` while it is open; the deletion
of a gathering takes its invitations). `listed` is everything the list would show now,
`stayed` what it would have shown at any time since the walk began.

### What is assumed of the environment

- A statement takes effect at one instant, when it holds the locks of all the rows
  it writes. PostgreSQL takes them one by one and evaluates a condition again on a
  row it waited for; two single statements that lock several rows in different
  orders are therefore not distinguished from ones that do not.
- In `SocialGraph`, one row per gathering and user, which is what `create` writes as long as
  the same friend is not named twice and the host does not name himself. `Feeds` assumes
  nothing of the kind: it counts the rows.
- `ended_at` of a gathering is written by something outside the repository
  (`EndGathering`); only tests write it here.
- Withdrawn users, texts and dates of a gathering, and read marks
  are not in `SocialGraph`: none of its handlers reads them for a decision about
  the tables it models. The lists and counts that read them are in `Lists`.
- Lists are of rows that hold still while one query runs, which a single statement at
  READ COMMITTED sees; counts and pages of the same rows are compared at one instant.

### Properties

`SocialGraph.tla` states them in two groups.

*Whatever overlaps.* `ReportsMatchBlocks`: a user's reports of another number one if
he has blocked him and zero otherwise; a second report fails on the key of
`blocked_user` after its own report was inserted, and it is the transaction that takes
it back. `DeletedGatheringHasNoInvitations`. `KeepsContract`: seen by guests, every
step of the interleaved statements is an atomic step of `InvitationContract`, in
which an accepted invitation ends only when the guest leaves or the gathering is
deleted, and parting retracts open invitations between the two users who part, and no
others. (It may retract any of them; that it leaves none behind is
`OpenInvitationsAreFromFriends`.) Who is accepting, leaving, parting or deleting is a variable of the contract that stands
for its environment: a step of it needs somebody who asked for it.
`RequestsFinish`: every request is answered.

*One request at a time.* `OneRowPerPair`, `OpenInvitationsAreFromFriends`,
`FriendGatheringsInviteFriends`. These are what the checks are there for. They
do not survive overlapping requests, since nothing in the database backs the
checks; §5 has the first as a finding.

`Groups.tla`: `OwnerStays` (no stale leave or deletion takes the owner out),
`ReportersStayOut` (no stale invitation brings back who has reported a group),
`OvershootBounded` (overlapping requests exceed the limit by what one round of them can
add: it does not pile up), and `MembersWithinLimit`, which is what the message says.

`Accounts.tla`: `KeepsSessions` (a refresh that was checked before a logout or a
withdrawal does not bring the session back, whatever is rolled back: `SessionContract`; a login that
has passed its check may open one after a withdrawal, as the code does),
`RequestsFinish` (transactions that hold every connection and wait for one more end),
and, for requests that do not overlap, `SharedHandlesWereReleased` and
`WithdrawalEndsSessions`. `ActiveHandlesDistinct` is what the schema and the API say.

`Feeds.tla`: `DuplicateFeedsBounded` (one feed about a gathering for each request in flight,
never more, however feeds are deleted and written again: a check that passes while
others are about to insert is counted with them), `AudienceWasFriends` (stale checks may
show a feed to a former friend, never to somebody who was no friend at any time).

`Notifications.tla`: `ReportsHide` (a report is filed with the row that hides its subject, or
not at all, whoever hides it in between); `ToldOnce` (a writer of a feed who is mentioned
in a comment on it, a participant who is a friend too: each is told in one way, and as often as he
has rows in the gathering, of those he was given when it was created, else once; nobody of his own,
except who has befriended himself and tagged himself, whom `notifyFriendFeedCreation` does not leave out);
`NoticesFollowCommits` (what is told is what the rows say, and only to those the rows name,
although rows change before the receivers are read).

`MCNotices.tla`: `DeletedNoticesAreGone`, which is what the controller says of its two deletions. `kept` is
a history variable beside `notice`: the same insertions, and the deletions carried out.

`Lists.tla`: `NothingMissed` (what was listed all the time has been shown when the walk is over),
`WalkEnds` (it is over at some time), `CursorAdvances` (each page but the last takes the cursor
strictly on in the list's order, however rows change in between: were it to come back, `WalkEnds`
would fail; of the lists §5 names for their cursor, both speak of the calm walks only), `ListsAgree` (the counts shown in a profile and beside a
feed are those of the lists), and `KeepsOrder`, the refinement of `PagedWalk`: pages are
contiguous, in order, and never show a row twice. The faults named in §5 are in the model and
exempt from the properties, which therefore would not find them. `NothingMissed` exempts rows (`Excused`):
feeds at the date where a range begins, which the first cursor passes over; feeds behind the last page, if
there is one by a withdrawn writer between the cursor of that page and them; invitations and groups at the
date of another one that was shown. `KeepsOrder`, `WalkEnds` and `CursorAdvances` exempt whole walks: those in
which such a row occurs at any time (`calm`, `Smooth`; `MovesOn` for the last two). Everything
else that might go wrong with such a list is left to `NothingMissed`.

## 3. The runs

| run | instance | shows | distinct states |
|---|---|---|---|
| `social` | 2 users, 2 requests, 1 gathering, 3 friend ids, the group has both users | `TypeOK`, `TransactionsConsistent`, `ReportsMatchBlocks`, `DeletedGatheringHasNoInvitations`, `KeepsContract` | 403,229 |
| `social_liveness` | 2 users, 2 requests, 1 gathering, 2 friend ids; the handlers that take locks | `RequestsFinish` | 350,904 |
| `social_serial` | 1 request at a time, 2 users, 1 gathering, 3 friend ids | `OneRowPerPair`, `OpenInvitationsAreFromFriends`, `FriendGatheringsInviteFriends` | 377,790 |
| `social_mutual_request` | 2 requests | that `OneRowPerPair` is violated | |
| `groups` | 6 users, 1 group, 2 requests, limit 3 | `TypeOK`, `OwnerStays`, `OvershootBounded`, `ReportersStayOut` | 15,245 |
| `groups_limit` | 5 users, 1 group, 2 requests, limit 3 | that `MembersWithinLimit` is violated | |
| `accounts` | 1 user, 2 devices, 2 requests, 2 connections | `TypeOK`, `KeepsSessions`, `RequestsFinish` | 16,659 |
| `accounts_serial` | 1 request at a time, 3 users, 2 e-mails, 2 account ids, 1 device | `SharedHandlesWereReleased`, `WithdrawalEndsSessions` | 297,089 |
| `accounts_handle` | the same | that `ActiveHandlesDistinct` is violated | |
| `feeds` | 2 users, 1 gathering, 2 feed ids, 1 comment id, 2 requests at a time, 3 in all, at most 2 rows of a user in a gathering | `TypeOK`, `DuplicateFeedsBounded`, `AudienceWasFriends`, `ToldOnce`, `NoticesFollowCommits`, `ReportsHide` | 2,339,196 |
| `notices_deletion` | 2 users, 1 gathering, 1 feed id, 1 comment id, 1 request at a time, 2 in all | that `DeletedNoticesAreGone` is violated | |
| `lists` | each of the 17 lists, 3 rows, 3 dates, pages of 1 and 2, 1 change | `TypeOK`, `NothingMissed`, `ListsAgree`, `KeepsOrder`, `CursorAdvances`, `WalkEnds` | 509,877 |

Bounds.

- *Two users.* Every handler of the model is about one pair of users (host and
  guest, asker and asked) or is a sequence of such; a third user adds rows
  that the pair's handlers do not touch. That an invitation list has several names
  is not seen with two users in `CheckInvitee`; the proofs cover it.
- *Two requests in flight.* Every race of a check with a write, and the deadlock of
  unfriending with reporting. Longer deadlock cycles are left to the proofs
  (safety) and to the definition of `Deadlocked`, which is of any length.
- *Three friend ids.* Two for the two directions, one that a
  request still remembers while its row is gone.
- *One gathering.* Its handlers touch one gathering each, unfriending and reporting
  those of the pair, all alike.
- *`AboutOthers`* leaves requests of a user about himself out of the concurrent
  instance. The code does not refuse them, and the serial instance and the
  proofs have them.
- *The counter* `report` is a natural number; `ReportsMatchBlocks` bounds it by one.

- *Groups.* The limit is three instead of ten, so that an insert of one row and of
  two both occur; two requests overlap, so that at most two rows too many are
  inserted; six users are one more than the bound of `OvershootBounded` allows. Groups
  do not touch each other's rows: one is enough.
- *Accounts.* Two requests and two connections are the smallest pool that
  transactions can exhaust while each waits for one more. With one user every pair of
  requests is about the same row; two devices tell a logout from a withdrawal. Three users
  are what it takes for an id to be released, taken, and taken again; `IdLeft` keeps an
  id of the model for every registration under way.
- *Feeds.* `MaxRequests` bounds all that happens, requests of the other modules among it:
  three are enough for two requests and the change that outdates what they have
  checked, or for a feed, a comment on it and what a third does to either. Two feed ids are
  one more than a writer may have about a gathering, which is the duplicate. Steps that go
  on, fail or crash are not counted. Two rows of a user in a gathering (`MaxRows`) are the
  smallest number that tells a notification for each from one for all. Initially all users are friends
  of all, themselves included, or nobody of anybody, and all have the same number of rows (`Alike`);
  steps of the environment lead from there to the others. The proofs have neither bound nor `Alike`.
- *Notifications deleted.* One user is told something, and has it deleted: two requests.
- *Lists.* Three rows are a full page of two and one more, or three pages of one; three
  dates have the edge of a range, one beyond and rows that share one. One change is the smallest
  that can come between two pages; it may add, take, move or hide a row. Initial rows are
  one kind that is listed and one that is not (`Sample`); changes reach every other row
  of the type. The proofs bound neither rows nor dates, limits or changes.

`SYMMETRY` is used for safety only. `MCSocialLiveness` has a next-state
relation of its own because without symmetry the whole would be too large: it leaves
out arrivals of handlers that neither hold a lock while they ask for another nor wait
for more than the ones it keeps (`RejectFriend`, `RejectInvitation`,
`CreateGroupGathering`), and it keeps every step of the handlers once arrived.

Each property was tested with a mutant of the code's model that TLC must find to
violate it; they are the definitions marked `Mutant` beside the ones they change:
the report saved on another connection, deletion retracting only open
invitations, unfriending retracting accepted ones or none, a check in one direction
only, a check of any row instead of an accepted one, an update that writes a row
that is gone, writes under another's lock, a retry without end; a duplicate check of
other writers only, friends checked and not awaited, visibilities and reports outside the
transaction, a receiver told in two ways, a feed
updated without being read; a cursor compared in
another order than the list's, one that includes its own row or moves back, a full page
taken for the last, counts of what is not listed.

### Fairness

`FairSpec` asks for strong fairness of each request's next step, and nothing else: no
request has to arrive, no time-out or crash has to happen. The event loop runs
every continuation; the server answers every statement; a row lock is handed to its
waiters in the order in which they queued, so a waiter whose lock becomes free again
and again is served, which is why strong and not weak; and the deadlock
detector runs after one second of waiting (`DeadlockVictim` is part of the step). With
time-outs, requests would end all the same, so the liveness instance leaves
`Timeout` and `Crash` out: what it shows does not rest on them.

`Accounts` needs the time-out: two logouts that hold both connections of the pool and
wait for a third are ended by nothing else. `FairSpec` there asks for weak fairness of
`Timeout` besides, since Prisma starts the timer with the transaction and nothing stops
it. `PoolTimeout`, the limit on waiting for a connection, may happen and need not.

`Lists` asks for weak fairness of `Fetch`: a client who scrolls on asks for the next page as
long as there is one. `WalkEnds` would be empty without it, and says with it that the
server does not keep a client asking.

`calm` in `Lists` is chosen at the start and says whether the walk will at all times be one
without the rows that §5 names (`Smooth`). It restricts what the changes may be, in the walks where it
is true, and has no other effect: the walks where it is false have every change.
`NothingMissed` is checked of both, `KeepsOrder` maps a walk that is not calm to one that
does nothing.

## 4. What is proved

For all values of the constants (any number of users, requests, ids):

| module | theorem | states |
|---|---|---|
| `SocialGraphProofs` | `Invariance` | `Spec => []IInv` |
| | `TypesHold`, `TransactionsHold`, `ReportsHold`, `DeletionHolds` | the four invariants of the run `social` |
| | `ContractHolds` | `Spec => KeepsContract`: SocialGraph implements `InvitationContract` |
| `SocialSerialProofs` | `OneRowHolds`, `OpenInvitationsHold`, `InvitesHold` | the three properties of the run `social_serial`, for one request at a time |
| `GroupsProofs` | `TypesHold`, `OwnerHolds`, `ReportersHold`, `OvershootHolds` | all properties of the run `groups` |
| `AccountsProofs` | `TypesHold`, `SessionsHold` | `TypeOK` and `KeepsSessions` of the run `accounts` |
| | `HandlesHold`, `WithdrawalsHold` | the two properties of the run `accounts_serial`, for one request at a time |
| `FeedsProofs` | `Invariance`, `TypesHold`, `DuplicatesHold`, `AudienceHolds`, `ToldOnceHolds`, `NoticesHold`, `ReportsHideHolds` | all properties of the run `feeds` |
| `PagedWalkProofs` | `Invariance`, `NothingMissedHolds`, `NothingTwiceHolds` | what an orderly walk promises |
| `ListsProofs` | `AnswersArePages` | what each of the 17 lists answers to any cursor and limit, for any rows |
| | `Invariance` | `Spec => []IInv` |
| | `TypesHold`, `NothingIsMissed`, `ListsAlwaysAgree` | the three invariants of the run `lists` |
| | `ListsKeepOrder` | `Spec => KeepsOrder`: Lists implements `PagedWalk` |
| | `CalmWalksHold` | what `PagedWalk` promises, of `Lists`: in calm lists no row is shown by two pages, and none that stayed is missed |
| | `CursorsAdvance` | `Spec => CursorAdvances` |

The theorems on SocialGraph assume `StoreAssumption` only: `None` is no user and no id, and
the group's members are users. Sets may be infinite.

*SocialGraph.* `ReportsMatchBlocks` is not inductive: a commit adds what the
transaction wrote, so one has to know that a transaction which has written
a report is about to write, or has written, the block of the same pair, that the
pair was not blocked when it did, and that nobody has blocked it since, which holds
because the row is locked. `TransactionsConsistent` says this for the three
transactions of the model. Its conjuncts are: requests have the arguments their next
step reads (`ArgumentsOK`); only transactions have uncommitted writes
(`WritesInTransactions`); two transactions never write the same row, reports excepted
(`WritesExclude`); a report and its block are in flight together (`ReportsInFlight`); a
deletion about to commit holds every invitation to its gathering
(`GatheringsInFlight`), which needs that a gathering being created belongs to one
request; an invitation in flight is still as it was found (`InvitationsInFlight`); and
an invitation has a gathering that is not deleted (`InvitationsHaveGathering`). `IInv` is
this with `TypeOK` and `ReportsMatchBlocks`; TLC checks it in the run `social`.

The first part of `SocialGraphProofs` proves types and states what each action does to request
and uncommitted writes (`After...`). The second groups the actions by
effect (`TransactionShapes`, `TableShapes`, `RequestShapes`) so that the step of a
conjunct only distinguishes the groups that can disturb it, has one lemma per
conjunct, and puts them together in `Inductive`. The last shows with
`IInv` that saving is the contract's `Hold`, an answer its `Accept` or `Leave`, a commit
its `Delete` or `Part`, and all other steps stutter.

*One request at a time* (`SocialSerialProofs`, from `OneAtATime`: two elements of
`Request` are the same). The friendships a request has read still hold when it writes
(`ChecksHold`): a request is saved where no row was, deleted rows that were refused are of
no friends, invitees are friends. This rests on `OneRowPerPair`, since a
check looks at any one row of the pair, and it is where the proof would fail with a second
request. A transaction about to commit the deletion of a friend row has the open invitations
of the pair among its writes (`InvitationsGoToo`). `SerialInv` is both with the two
invariants proved, and is inductive relative to `IInv`.

*Groups* (`GroupsProofs`, from `GroupsAssumption`). `OwnerStays` is not inductive: a
request that has passed the check of `leaveGroup` must not be about to delete the owner's
row, which holds because a group has one owner for ever and ids are not used again
(`LeavesAreNotOwners`). `OvershootBounded` is not either: rows may exceed the limit
already while other requests are about to insert. `RoomForAll` says that among the requests
about to insert, one has counted before the others: the rows it counted, and all that
these requests will insert, stay within the bound. It needs `User` and `Request` to be
finite, which the theorem assumes, and the library's facts on cardinalities.

*Accounts* (`AccountsProofs`, from `AccountsAssumption`). `TypesHold`, for which a
request must know what its next statement needs (`RequestsAreFilled`) and the row it is
about must exist (`SubjectsExist`: rows are never deleted); and `SessionsHold`: the
statements on tokens, inside and outside transactions, implement `SessionContract`.
With one request at a time, `SerialInv` is inductive relative to that invariant: an account
that was away for 30 days has given up its handle (`OldHandlesAreReleased`); a handle found
free is held only by such accounts until it is written, by a registration or a user still
active (`ChecksHold`); and a withdrawal about to commit has left no session
(`WithdrawersHaveLeft`), although a transaction that times out leaves the tokens deleted.

*Feeds and notifications* (`FeedsProofs`, from `FeedsAssumption`). Deletion marks rows,
so a row once committed keeps its writer and its subject (`RowsStay`); an event is made with the
row it tells of (`FollowsCommit`), and a notification with its event, of which it says what the
row says (`TellsTruth`): this gives `NoticesFollowCommits`. Two events never tell of one row, there is one copy of each, and it ends with its
notifications (`EventsApart`); of these there are as many as rows in the gathering, which are no
more than were given (`RosterShrinks`), or one (`NoticesDiffer`); and who is told of a feed of his own is
in its visibilities, so that he was his own friend. This gives `ToldOnce`. Who is
in a request's list of checked friends was one once (`CheckedWereFriends`), and
nothing else writes visibilities. A transaction about to commit a report has a key that is
new, since it holds the key's lock (`CommitsAreNew`): this gives `ReportsHide`. `DuplicateFeedsBounded`
counts the active feeds of a writer about a gathering together with the requests about to save
one: a request joins them only when there is no such feed, and a step that adds a feed takes its
request from the other number (`Counting`).

*Walks* (`PagedWalkProofs`, from `IsOrder`). Everything shown is at the cursor or before it,
and whatever has stayed and is at the cursor or before it has been shown.

*Lists* (`ListsProofs`, from `ListsAssumption` and `NoneAssumption`). The queries differ in
conditions, orders, cursors and in what they join after the limit. `IsAnswer` says of all of them
what the client may rely on: a page holds rows the query selects after the cursor; a next cursor
is that of its last row; a page with a next cursor leaves nothing out before a row that it shows; and the
last page leaves nothing out but feeds behind one by a writer who has withdrawn (`CutShort`: a page that
misses a row has lost one before it, since the limit leaves a row out of a full page only, `PageSize`).
`AnswersArePages` proves this list by list, and nothing that follows looks at a query again. `PagesProofs` has the lemmas it rests on. `Limited`
counts rows before a row, and `Last` chooses; that there is a first and a last row is shown from the
order by the smallest of a set of dates, then of ids at that date, so that no induction over rows is
needed; that a full page has `LIMIT` rows, and a row it leaves out has all of them before it, is a
matter of cardinalities.

`NothingMissed` is not inductive, since it speaks of the end. `StayedIsAhead` says where, before it, a row
is that has stayed: shown, excused by §5, or still selected by the query with the client's cursor. A change
keeps this, since a row that changes its place has not stayed, and a page does because of
`AnswersArePages`. `CursorShown` is what makes a page that is followed by itself, or goes on from an
invitation shown, one of those excused; `ListedNow` makes rows that stay rows the next page finds, and
`RowsWellFormed` keeps deletions from leaving invitations behind. `CalmKept` says that a
calm list's cursor alone tells what is behind it, which `KeepsOrder` and `CursorAdvances` need. `IInv` is all
of these with `TypeOK`; TLC found no counterexample to it, in the instance of the run `lists`, before it was
proved.

`ListsAlwaysAgree` compares two sets of rows: the list's and those the count's query counts, the one
asked for without a limit (`ListingIs`), the other mapped to ids (`IdsAre`).

`ListsKeepOrder` maps the rows of calm lists to spots in the order of the list (`SpotsAreOrdered`), a
change to the abstract change, a page to the abstract page: what is ahead of the cursor is after what was
reached (`AheadIsAfterReached`), and the page is what is first of it (`PageRefines`). The proof found what
one change cannot show: with two changes, a group that was shown and has left and another that joins the list
at the same date had the walk, taken for calm, miss the second. `Smooth`, which says what a calm list
is, now compares dates with those of rows shown too. `CalmWalksHold` then instantiates the theorems of
`PagedWalkProofs`, where `NothingMissed` has no exceptions left.

`CursorsAdvance` is the step behind `WalkEnds`: what remains of that property is that a client asks
again (fairness) and that there are finitely many changes.

*Only model-checked*: `RequestsFinish` of both modules and `WalkEnds` (liveness under
fairness is out of the prover's reach), and the violations of §5, which are counterexamples. All
invariants and action properties of the passing runs, and the three refinements, are proved.

## 5. Findings

- *Two requests that cross* (`social_mutual_request`). `FriendsService.request` checks for
  a row in either direction, then inserts; the unique index covers `(sender_id,
  receiver_id)`, one direction. Two users who ask each other at the same time both get
  201 and the pair has two rows, although `friends.controller.ts:54-58` documents 409.
- *Deleting notifications* (`notices_deletion`). `NotificationsService.delete` and `deleteAll` both call
  `readAll` (`src/src/domain/components/notification/notifications.service.ts:71`, `:75`), `delete` with the id of
  the notification in the place of a user's. `notifications.controller.ts:56-60` and `:66-70` describe them as
  the deletion of all notifications and of one ('알림 전체 삭제', '알림 삭제'), and answer that it is done.
  All rows stay; the first marks them read, the second does nothing.
- *The limit of a group* (`groups_limit`). `addMembers` counts and then inserts, with nothing
  locked: two requests pass together. `src/src/domain/error/messages/index.ts:43-44`
  says a group has ten members at most.
- *An account id given twice* (`accounts_handle`). `findOneByAccountId` is a `findFirst` without
  an order over withdrawn rows too. When an account withdrawn for 30 days and an active
  one have the same id, the check may look at the former and find the id free. The unique
  index is on `(account_id, deleted_at)`, whose NULLs are distinct, so nothing else
  refuses it. `schema.prisma:121` has the id of an `ActiveUser` unique, and
  `users.controller.ts:198` documents 409.

Two more are in the models and have no run of their own:

- *Asking a reported user*. `checkExistFriend` (`friends-checker.ts:55`) refuses a request to
  a user whose friend row is `REPORTED`; no statement writes that status: reporting
  deletes the row and adds a block that the request does not look at. The message in
  `src/src/domain/error/messages/index.ts:12-13` and `test/e2e/friends.e2e-spec.ts:129`, on a row that the
  test makes itself, say otherwise.
- *A second feed about a gathering*. `feeds.controller.ts:127-130` answers 409 if the writer has written one
  already ('해당 모임에 이미 피드를 작성한 경우'). `checkDuplicateFeed` looks before the insert, with no index
  behind it: requests that overlap all get 201. `DuplicateFeedsBounded` is what is left of the promise,
  one feed for each request in flight.

The properties of `Lists` exempt what follows, and so would not find it (§2 says what of it is left
out of which property; paths under `src/src/infrastructure/repositories/`):

- *A page that is followed by itself.* When the cursor's date is `maxDate` (or `minDate`), rows
  at that date are compared with `<=` whatever their id, so that the first page, whose id is any,
  has them all. A full page of rows at that date has a cursor at the same date and is answered
  again (`gathering/gatherings-prisma.repository.ts:57`, and in the lists of all and of ended
  gatherings and of invitations).
- *Feeds at the edge of the range.* `findAllByUserId` compares strictly, and the first cursor is the edge
  with any id: rows at `maxDate` whose id is before that one are in no page
  (`feed/feeds-prisma.repository.ts:283`), although `feed-list.request.ts:36` says that `maxDate`
  is part of the range.
- *A short page that is not the last.* `findFeeds` joins the writers after the limit was applied
  (`feed/feeds-prisma.repository.ts:138`): when one of them has withdrawn, the page has fewer rows than
  asked for and is taken for the last one. What lies behind it is never shown.
- *Received invitations* are ordered by the participation's id and continued by the gathering's
  (`gathering/gathering-participations-prisma.repository.ts:96`): of two at one date, one may be
  skipped or come twice.
- *Sent invitations*: the outer query does not settle ties
  (`gathering/gathering-participations-prisma.repository.ts:185`), so the last row of a page need not be
  the last in the order of the cursor.
- *Groups* are continued by a date alone (`group/groups-prisma.repository.ts:72`), which is the date of
  the row's latest member rather than the one the list is ordered by: groups joined at one date may be
  skipped, and groups in which somebody joined later come again.

## 6. Not modelled

- *Without effect on what is modelled*: the texts and pictures of feeds, the texts and the date of a
  gathering that another handler does not compare, the texts of groups, profile images and
  notification settings. They are columns that one statement replaces and no decision reads; two updates
  at a time leave one of the two. (Changing dates are among the changes of `Lists`.)
- *Token values* in `Accounts`: a session is stored or not. Two refreshes with one token are both
  answered, and one of the clients is left with a token that is not the stored one any more; that it has to
  log in again is a matter of the client.
- *The HTTP layer*: validation, formatting, swagger, the error filter and logging keep no state and
  decide nothing about stored rows. Which request calls which handler is in the actions.
- *OAuth providers, S3, push transport*: services outside the repository. The models have
  their calls succeed or fail where a handler goes on after them.
- *Migrations, seeds, admin screens, deployment*: run once, or generated; no logic of the program.
