# A model of the Ludora server

Ludora is an application for amateur sports: users open *sessions* on fields,
join teams, invite friends, chat, pay and rate each other. The server
(`src/src`) is a NestJS program on PostgreSQL (through Prisma). This directory
holds TLA+ specifications of its core logic, TLC configurations that check them
on small instances, and proofs checked by TLAPS.

Paths below are relative to the root of the repository's copy (`src/`), so
`src/sessions/...` is `src/src/sessions/...` in `PROJECT.json`.

Contents: [the system](#the-system) · [what makes it hard](#what-makes-it-hard) ·
[modules](#modules-and-code) · [runs](#runs) · [fairness](#fairness) ·
[findings](#findings) · [proofs](#proofs) · [limits](#what-is-not-modelled) ·
[plan](#plan)

## The system

HTTP controllers and two socket.io gateways call services; services keep all
their state in PostgreSQL. Three things beside requests act on that state: a
pair of cron jobs (`user-lifecycle`), the webhook that Stripe calls, and event listeners
(`@OnEvent`) that a service triggers through the EventEmitter. Sockets, FCM
(push), e-mail and object storage are outputs.

| component | state | operations | what makes it correct |
|---|---|---|---|
| session roster (`session-players.service`) | `Session_players`, `Conversation_members` | join, leave, switch team | a join respects limit, visibility and blocks; roster and conversation agree |
| session invitations | `Session_invitations` | invite a list, cancel, accept, reject | an invitation respects blocks and players; each side answers in its own role; accept seats the receiver |
| session booking (`sessions.service`, `field-slots.service`) | `Sessions`, `Session_teams`, `Field_slots` | create, update, offer a slot, mark as reserved | one session per slot, no overlaps on a field, a slot that is sold is shown as reserved |
| friendship and moderation | `Friends`, `User_blocks`, reports | ask, accept, reject, cancel, remove, block, unblock | one request per pair; only who was asked accepts; a block is final |
| Stripe webhooks | `Stripe_events`, `Payments`, `Refunds`, `PartnerBillingConfig` | five event handlers | each event counts once, the rows follow Stripe, errors are retried |
| conversations | `Conversations`, `Conversation_members` | find or create the conversation of a message | one private conversation per pair, of that pair; no message past a block |
| messages | `Messages`, `Message_receipts` | send, read, delete | a receipt for every member; READ means read by someone |
| chat gateway | rooms of socket.io | connect, close, join and leave rooms, emit | who is in a room, or is not, has a reason; what a member may miss and a stranger hear is listed below |
| searches and pages | cursors and offsets, held by the client | the pages of a dozen collections | every row once |
| notifications, devices | `Notifications`, `Devices`, `connectedUsers` in memory | connect, notify by socket or push, register and unregister a device | who is connected gets an event, who is not a push, and one failure is not another's |
| tokens (`auth-b2c`, `auth-b2b`) | `Users`, `UserTokens`, `RefreshTokens` | register, log in, Google, Apple, change the address, refresh, log out, reset | one account per spelling of an address, two only by capitals that Google or an e-mail change brought in; one refresh token per sign-in, none after its end |
| codes | `EmailVerification` | send, resend, follow the link, redeem | an old code is dead once a new one is sent; a code is good for one token |
| account lifecycle | `Users`, `Payments` | ask for deletion, cancel it, anonymize and purge at night | a cancelled deletion does not happen; an old one does |
| preferences | `User_sports`, game modes, hours | replace a list | the list that is stored is one that was sent |
| ratings | `User_ratings`, `Session_players.ratingStatus` | rate the players of a session | players rate players, once, and are marked as having done so |
| fields | `Fields`, `Field_images`, storage | propose, create, update | one public field per place and sport, but for named reasons; images that exist and are the field's own |
| Connect account | `PartnerBillingConfig`, accounts at Stripe | open, close, `account.updated` | the row names the one account there is, and its status |
| storage, e-mail, metrics | files and remote services | calls | |

Interactions that matter for correctness:

* `PATCH`, `POST` and `DELETE` on a session pass through `SessionsPipe`, which
  reads the session row *before* the handler; the handler works with that copy.
* Friendship decides who may join a private session; blocks decide who may
  share a session or get an invitation. A block ends the friendship in the same
  transaction.
* Joining and leaving a session changes the members of its conversation, hence
  who gets receipts of messages.
* Creating a session seats its creator, makes its teams and conversation, and
  reserves the slot.
* A message that names a recipient may make a conversation, brings the open
  sockets of both into its room, and ends in a notification.
* A token is deleted by logout, by the reset of a password and with its account;
  the guards of all requests and sockets look for its row.
* The webhook `account.updated` and the endpoints of the partner write to the
  same row.

## What makes it hard

**Autocommitted awaits.** Nearly all handlers are a chain of `await
this.prisma...` calls. Each is a transaction of its own at READ COMMITTED;
between two of them, every other request may run. Only a few places open a
`$transaction`. So a check made by an early await may be stale when a later one
writes (*check then act*), two writes of one handler may be separated by an
error, and only unique keys and foreign keys protect what a handler assumed.

**Failing awaits.** A rejected call ends the handler with a 500 and keeps what
it has written so far.

**Deliveries.** Stripe repeats events, sends them in any order and while an
earlier delivery is still at work; the process may die in between.

**Several devices.** A user may have more than one request in flight, and more
than one socket.

**State in memory.** The gateways keep rooms and connected users in memory,
filled from a list that was read before, by callbacks that may find their socket
closed after an await.

**Transactions that wait.** A refresh and a logout delete the same rows in the
opposite order. Their statements lock rows one after the other, so they may wait
for each other, and PostgreSQL aborts one.

**Two systems, no transaction.** Stripe accounts, uploaded images and Apple
tokens are changed by calls that no rollback reaches.

The complete list, each at its line, is `hazards` in `PROJECT.json`.

## Modules and code

All the modules of handlers share one shape, and it is worth reading once:

* the variables are the tables (a function from a key to a row, `NoRow` or a
  status when there is none) and `request`, a table of the requests in flight;
* a request has the handler it runs (`op`), the await it is about to make (`pc`)
  and what the handler has read so far and still needs;
* one action is one await, with the code up to the next await; early returns
  and exceptions answer the request. A `$transaction` is one action, except where
  what others commit between its statements matters: in `AuthTokens`,
  `VerificationCodes`, `Fields` and `Ratings` its statements are steps, with the
  locks that make others wait and a rollback that leaves nothing behind;
* `AwaitFails` is a rejected await, at most `MaxFailures` times;
* a *history* variable (`standing`) remembers, for a request in flight, the
  objections that have held at every moment since it began.

The history variable says what checks-then-acts can promise. The handlers do
not guarantee that an objection is absent at the moment of the write; they do
guarantee that a write is never made against an objection that *stood all
along*. That is what separates "the check is racy" from "the check is missing,
looks at the wrong row, or has the wrong sign".

| module | models | state |
|---|---|---|
| `SessionRoster` | `joinSession`, `leaveSession`, `switchPlayerToAnotherTeam`, `SessionsPipe` | `seat` (Session_players), `members` (Conversation_members), `session`, `friends`, `blocks` |
| `AtomicRoster` | what a roster promises: seat and conversation in one step | `seat`, `chat` |
| `SessionRoster_proofs`, `SessionBooking_proofs`, `SessionInvitations_proofs`, `Friendship_proofs`, `AccountLifecycle_proofs`, `Messages_proofs`, `AuthTokens_proofs`, `StripeWebhooks_proofs` | theorems about the module of that name; the second also about `ConnectAccounts` and `Fields`, the third about `Conversations`, the fourth about `Notifications`, the fifth about `Ratings` and `Preferences`, the sixth about `ChatRooms` and `Pages`, the one about tokens about `VerificationCodes` | |
| `SessionInvitations` | `create` (a list, checked one by one, inserted at once), `update` (accept, reject, cancel) | `invitation` by sender and receiver, `seated`, `blocks` |
| `SessionBooking` | `SessionsService.create`, `update` of the dates, `FieldSlotsService.create`, `markAsReserved` | `slot`, `reserved`, `session` |
| `SlotLedger` | what booking promises about slots | `owner`, `reserved` |
| `Friendship` | `createFriendRequest`, `updateFriendRequest`, `removeFriend`, `blockUser`, `unblockUser` | `friend` by ordered pair, `blocks` |
| `StripeWebhooks` | `processStripeEvent` and its handlers, Stripe's deliveries, crashes | `event`, `payment`, `refund` by its id, `account`, `parties` (the rows a payment refers to), `left` (of the loop over refunds), `emitted`, `acked` |
| `AccountLifecycle` | `deletionRequest`, `cancelDeletionRequest`, `adminDeleteUser`, the two jobs of midnight | `account` (Users), `payers` (Payments), `revoked` (at Apple), `job` |
| `Conversations` | `createMessage` up to the message: which conversation, its creation, members, blocks | `type`, `member`, `block` |
| `ChatRooms` | the chat gateway: connection, rooms, `sendMessage` | `member`, `connecting`, `userUid`, `rooms`, `sending` |
| `Pages` | how the services cut a collection into pages | `place` of each row in the order, `state`, `copies` (how often a join gives it), `reader` |
| `Notifications` | the notification gateway, delivery by socket or push, devices | `socket`, `connected`, `device`, `event`, `result` |
| `AuthTokens` | sign-ins of the owner of one address, in several spellings: accounts, tokens, refresh, logout, reset, change of the address | `account` (with its spelling), `access`, `refresh` |
| `VerificationCodes` | codes by mail and the tokens made of them | `verified`, `code`, `made` |
| `Preferences` | replacing the lists of sports, game modes and hours | `sports`, `modes`, `hours` |
| `Ratings` | rating the players of a session | `seat` (with its rating status), `rating` |
| `Fields` | creating and updating fields with their images | `field`, `image` (keys), `stored`, `instant` (the keys of this millisecond) |
| `ConnectAccounts` | opening and closing the Stripe account of a partner, `account.updated` | `billing`, `stripe`, `events` |
| `Messages` | `createMessage` with its receipts, `markMessagesAsRead`, `deleteMessage`, the "read by everyone" of the mapper | `message`, `receipt`, `members` |

`MC*.tla` extend them with the definitions the `.cfg` files need: symmetry sets
and small functions. Some hold the instances of several modules: components
that share no row (or only rows that neither of the two can tell apart) are
checked in one run whose behaviours choose at the start which `part` moves, while
the others stay as they begin; two runs of `MCSessionBooking` share its parts out by
the constant `Parts`. Each part is explored as if it were alone; the
MC module names its properties again (`CodesDie`, `RatingsAreEarned`) and asserts
its assumptions about constants. `MCNotifications` and `MCPages` are instances throughout,
with names of their own for the constants, so that a module of proofs, and
`MCFriendship` in the case of `MCPages`, can extend them beside another component. Where a part would grow too large, its disjunct of
`PartsNext` has a bound with a name (`PlacesOnly`, `ImagesOnly`, `ThirdIsQuiet`, `InTurn` in
`MCSessionBooking`, `FewFailures` in `MCSessionInvitations`); the theorems are about the
modules without these bounds. Modules hold, beside the definitions of the code, their
*mutants*: the same action with a plausible mistake, marked `Mutant:`. No
specification uses them. Each property is shown, with such a mutant in place of
the original, to be violated; `mutants` in `PROJECT.json` lists the pairs.

Data is abstracted to what the properties tell apart. A session is its limit,
visibility and whether it has started; a message is its status; a slot is a
field with two instants; a token is the account and the sign-in it stems from;
an image is the key of an object in the storage, and a key a millisecond with the name
of a file; an e-mail address is one of its spellings; a refund is its status; a row of a collection is its place in the
order, and a page the set of its rows. Times are small numbers, and uids are model values.

## Runs

Bounds are the constants of the `.cfg` files. Two requests suffice for every
race of two handlers, three where a third party matters. `CHECK_DEADLOCK FALSE`
is set throughout: when uids and failures are used up and nobody asks for
anything, the server is idle, which is a legal end.

| run | bounds | shows |
|---|---|---|
| `roster` | 3 users, 1 team of 2, private and public, a friend and blocks that come and go, 2 requests, 1 failure | `NoStandingObjection`: friendship, full team, seat and blocks, while the session is updated and users ask twice at once |
| `roster_atomic` | 2 teams, one request per user, no failure | `RosterMatchesChat`, refinement of `AtomicRoster`, and `SeatLeadsToChat` under fairness |
| `invitations` | Invitations: 3 users, lists of two, every answer, 2 requests. Conversations: 3 users, 2 of whom may block each other, 2 conversations, 2 requests, 1 failure while nobody is blocked | `InvitationsAreSound` (`InvitesAreSound`, `AcceptsAreSound`), `OnlyOwnRoleWrites`; `PrivateIsAPair`, `KnownPairIsReused`, `MessagesGoWhereTheyMay` (`PostedWhereAddressed`, `BlockStopsMessages`) |
| `booking` | 2 requests, 1 failure. Bookings: 1 private field, 2 slots, 2 sessions of which one moves, 3 instants. Partner: 3 accounts, opened in turn, and 2 events as long as the third is not open | `BookingsAreSound` (`NothingStood`, `BookedIsMarked`), refinement of `SlotLedger`; `RowNamesTheAccount` (`NoLostAccount`, `ClosedIsCleared`), `StatusFollowsStripe` |
| `fields` | 2 requests, 1 failure. Places: 2 public fields, 3 spots, 2 addresses of which one is placed differently by a create and an update, coordinates of the client. Images: 2 private fields, 2 keys, up to 2 files in the requests at work | `PlacesAreVerified` (`TwinsAreExcused`, `SpotIsOfAddress`, `AddressesAreExcused`), `ImagesAreStored` |
| `friends` | Friends: 2 users, 3 requests, every handler, 1 failure. Pages: 4 rows, limits 1 and 2, 2 changes, up to 2 invitations of a friend. Rooms of the chat: 2 users, 2 sockets, a session and a private conversation | `RequestsAreSound`, `NoRowIsLeftOver` (`BlockIsFinal`, `CancelledIsDeleted`), `OnlyReceiverAccepts`; `PagesShowRowsOnce` (`MessagesShownOnce`, `TurnLosesOne`, `RepeatsNeedMovedCursor`, `OffsetDrift`); `RoomsAreExplained` (`MembersHear`, `StrangersWereHanded`) |
| `webhooks` | 3 events and 2 refunds in 5 scenarios (a dispute, and a refund in two parts of which one has no status yet; a failure first; a refund in a status the enum lacks; a payment without metadata and a charge without its refunds; an account that is rejected), 2 deliveries at once, the session deleted or not, 1 failure or crash | `AckedWasHandled`, `PaymentFollowsStripe`; `MoneyEventsAreHandled` under fairness |
| `lifecycle` | Accounts: 2 users, one from Apple, one who may have paid, 2 days of grace, 1 of retention, 2 failures or crashes. Preferences: 2 sports, 2 modes, hours of a day and a date, lists with repetitions, 2 requests, 1 failure. Ratings: 2 users, 2 notes, one of them named twice, 2 requests, 1 failure | `OnlyDueIsAnonymized`, `AnonymizedIsRevoked`; `DeletionHappens`, `AnonymizedIsPurged` under fairness; `ListsStayWhole` (`ModesComeTogether`, `SportsAreReplaced`, `HoursAreSettled`); `RatingsAreEarned` (`RatersAreValidated`, `PlayersRatePlayers`) |
| `messages` | 3 users, one of whom comes and goes, 1 message, 3 requests, 1 failure | `StatusFollowsReceipts` (`ReadReceiptShows`, `ReadHasReader`), `MembersGetReceipts`, `SomeoneLearns` |
| `auth` | Tokens: an address in two spellings and another one, 2 uids of accounts, 2 of access and 3 of refresh tokens, 2 requests, 1 failure. Codes: 2 codes, 2 tokens made of them | `OneAccount`, `OneTokenPerSignIn`, `RefreshKeepsSignIn`, `EndedIsOver`; `CodesDie` (`CodesSuperseded`, `RedeemedOnce`) |
| `notifications` | 2 users, 2 sockets, 2 devices, 1 event at a time, 1 failure | `TrackedAreOpen`, `EveryRecipientIsReached` (`NobodyIsForgotten`, `EmittedIsReceived`, `PushReachesSteadyDevices`) |
| `invitations_accept` | 2 users, 1 request | a violation: see [findings](#findings) |

Properties in brackets are the named conjuncts of the one before them. Each module
states its `TypeOK`; the run `roster` checks that of `SessionRoster`, and those of the
modules with proofs are theorems.

Why these bounds are enough. A team of limit 2 with three users meets both "one
place left" and "full"; three instants give slots that are equal, overlapping,
adjacent and disjoint; two users give both directions of a friend request; the
three users of one message are its sender, two *last* readers, and among them
one who joins late. Failures are bounded to a few because a failing await ends
its request, so a second failure in the same request cannot occur. Days of grace and
retention differ from zero, so a request, a cancellation and a second request fall
into one period, and 30 days or two years add none of their own. Handlers of
several messages at once treat each by itself, so one message is enough for the
properties, which are about single messages. Four rows and two changes let a
collection have more pages than one, with a row moving across each boundary. Two
keys and two files make uploads that are apart, of one name in one request, and of one
name in two requests. A
sign-in needs an access and a refresh token, so two and three uids make room for
a second sign-in or for two refreshes of one. Of three accounts at Stripe two can be opened
side by side, and a third after one of them was closed. Uids that have been used are not used again, so
that a row that comes later is never taken for one that is gone.

The run whose expectation is a violation is the [finding](#findings).

### What the less obvious properties say

* `NoStandingObjection` (roster): the friend, limit, seat and block checks are
  made by five awaits, on rows read at different moments. Whoever reaches the
  insert has seen each objection lifted at some moment of the join.
* `RequestsAreSound`, `NothingStood`, `InvitesAreSound`, `AcceptsAreSound`:
  the same statement for the other handlers.
* `BlockIsFinal` (friendship): between two users of whom one has blocked the
  other there is no friendship row, unless a create that was already past its
  checks has inserted it after the block. Late updates of a row that the block
  has wiped must not bring it back.
* `CancelledIsDeleted` (friendship): a cancel is an update and a delete. Answers,
  removals, blocks and new requests in between leave no cancelled row behind; a
  failing call does, and its key keeps the sender from asking again.
* `SomeoneLearns` (messages): when all receipts of a message are READ, a call of
  `markMessagesAsRead` has had it among its results or is still at work. Two
  last readers who mark their receipts at once may both see the message as
  complete, but not both miss it.
* `AckedWasHandled` (webhooks): Stripe gets a 2xx for an event only after a
  handler has run to its end; otherwise a retry that finds the row PROCESSED
  would lose it.
* `PaymentFollowsStripe`: as long as deliveries have come one at a time and in
  the order of the events (`ordered`), the rows agree with Stripe when nothing
  is left to deliver, in spite of failures and crashes: the payment with its last
  event, and each refund with the last list it was in. Without order it is not
  claimed.
* `MoneyEventsAreHandled` (webhooks): a success or a refund gets its 2xx in the end.
  `Refused` names the two that cannot: the row of a payment whose session or user is
  gone, which a foreign key refuses, and that of a refund with a status that
  `RefundStatus` lacks. Both fail on every retry.
* `OneAccount` (tokens): the column tells capitals from small letters, and only
  some of the ways of signing up put an address in small letters. Two accounts of one
  address are spelt differently, and one of them has capitals from Google or from
  a change of the address; no race adds to this.
* `OnlyDueIsAnonymized` (lifecycle): at midnight the date had come, *and* the
  deletion was asked for at some moment since the transaction of the account
  began. The first part is due to the list, the second to the second look at
  `deletedAt`; neither can be had from the other. It does not say that the date
  has come for the request that stands: see below.

* `BookedIsMarked` and `RatersAreValidated` are about two rows that belong
  together: a session and its slot, the ratings of a player and the status of his
  seat. The first are written by separate statements, so the property has to name
  what may come in between; the second in one transaction, so that only leaving
  the session and sitting down again tears them apart.
* `EndedIsOver` (tokens): what a logout or a reset had to end is what was there
  when it came and was not being renewed at that moment. A refresh whose
  transaction runs beside the logout either renews before, and its token is
  deleted, or finds its record deleted; only a refresh that has its new token
  uncommitted when the second delete runs survives it.
* `RefreshKeepsSignIn` (tokens): wherever a refresh fails, even aborted by a
  deadlock, its sign-in still has the token that was presented.
* `RedeemedOnce` (codes): the token is inserted first and the code deleted last.
  A failure in between makes a token that nobody gets, but the code is *handed out*
  once, because the delete throws for the second of two requests.
* `PrivateIsAPair`, `KnownPairIsReused` (conversations): the three inserts that make
  a private conversation are in no transaction and look for no key. The
  properties name the accidents: two first messages at once, and a failure
  between the inserts. Everything else would be a fault of the code.
* `BlockStopsMessages`: a block is looked for by recipient and again by
  conversation; a message is stored between two users only if the block came
  after the message.
* `TurnLosesOne`, `RepeatsNeedMovedCursor`, `OffsetDrift`, `MessagesShownOnce`
  (pages): how far each way of cutting pages can be off. The first is a bound and not a
  zero: see below. A repeat is a row on a *second page*: a friend invited by several
  users comes several times on one page, but is never split over two.
* `RoomsAreExplained` (chat): not that rooms and members agree, which they do not, but
  that there are no more ways for them to differ than these. A connected
  socket misses a room of its user only if it left it or the user was added after the
  memberships were read, and is in that of a conversation its user never was in only if
  it was handed it as it connected. That the last can happen is one of the behaviours
  listed [below](#findings).
* `TrackedAreOpen` (notifications): a socket that closes while it is being
  authenticated stays in `connectedUsers` for good; its user is a *ghost*, and
  the other properties hold for everybody else.
* `NoLostAccount`, `ClosedIsCleared` (partner): Stripe and the row change in
  two calls. The properties name the accidents, a failing await, two requests that
  open accounts at once, and after these a clear that comes late and takes the row
  from an account it did not close; they exclude all others.
* `TwinsAreExcused`, `SpotIsOfAddress`, `AddressesAreExcused` (fields): likewise for the
  place of a field, which is verified before it is written. The place of an address
  is another one for a create (`Details`: what is known near the coordinates found) than
  for an update (`Geo`: the coordinates found), so where a field has to be depends on
  which of them wrote its address last (`moved`), and two fields of one address are not
  found by the verification when one was created there and the other moved there.
* `ImagesAreStored` (fields): the images of a field are in the storage and are those of the
  last request with files, in spite of updates side by side, uploads that fail and
  transactions rolled back. Two fields share one only if its key was given to
  two files (`twice`), which the clock allows within a millisecond.
* `ModesComeTogether` (preferences): lists that are saved at once may win or lose
  as a whole, or lose their modes; a sport never has the modes of another list.

## Fairness

* `WF` of the work of each request: Node runs the continuation of a database
  call that has returned, so a handler is not left in the middle. Failures are
  finite in every run, and `roster_atomic` has none.
* `SF` of the delivery of each event (webhooks): Stripe retries an event that
  has no 2xx (for three days; that this is long enough for failures to end is assumed). Strong, because a delivery waits for one of the bounded slots.
* `WF` of midnight and of the jobs (lifecycle): days pass, and the cron starts
  both jobs each night. Failures are finite, so some night goes well.
* No fairness on users: nobody has to join, answer or read. The modules of this
  list apart, what is stated is safety.

## Findings

A run that TLC ends with a counterexample; it states what a test of the
repository says. The quote and lines are in `PROJECT.json`.

| run | the code |
|---|---|
| `invitations_accept` | accepting uses the uid of the session as the uid of the team; the foreign key rejects it, so no accept ever seats a player |

Further behaviours of the models that a reader may not expect, without a run of
their own:

* two creates on overlapping slots of one field both insert
  (`sessions.service.ts:129`, 160), which a unit test of the service says is
  refused when it happens one after the other; `BookingsAreSound` is what holds;
* reading a deleted message brings it back: `markMessagesAsRead` sets READ on
  every message the user has not read (`messages.service.ts:318`);
* one anonymized account with a payment keeps all the others from being purged,
  for good: all are deleted by one statement, and `Payments_user_uid_fkey`
  restricts it (`user-lifecycle.service.ts:127`); `AnonymizedIsPurged` is about
  the users of a server where nobody has paid;
* two joins that both see the last place free both take it
  (`session-players.service.ts:379`, inserted at 104); switching teams counts no
  players (316), and neither does lowering the limit of a session;
* a creator who left and came back has no membership, so the next leave deletes
  the player and then throws (134, 272);
* a reject is answered with success and never written
  (`session-invitations.service.ts:413`);
* two offers of one slot both insert (`field-slots.service.ts:45`); a session on
  one private field may take the slot of another (`sessions.service.ts:112`); a
  failure after the transaction leaves a sold slot shown as free (236);
* two users who ask each other at once get two open requests
  (`friends.service.ts:75`); a cancel that races with the accept deletes the
  friendship (347); a failure between the update and the delete keeps a
  cancelled row, and its key keeps the sender from asking again (381);
* a duplicate reopens a PROCESSED event (`webhooks.service.ts:46`); the status
  of a rejected account is never written, because the enum has no such value and
  the error is swallowed (222); the upsert of a refund whose status is
  `requires_action` throws on every retry (159), and so does the first row of a payment
  whose session or user has gone (107); a charge that comes without its refunds marks
  the payment as refunded and leaves no row of the refund (157);
* before the sender's receipt is inserted, the mapper takes an unread message to
  one recipient as read by everyone (`message.mapper.ts:78`);
* an owner who cancels and asks again while the job has the account on its list is
  anonymized 30 days early, and one who cancels between the two statements of the
  transaction is anonymized without a request (`user-lifecycle.service.ts:104`,
  35, 59); cancelling after that keeps the row from the purge for good
  (`users.service.ts:683`);
* the avatar of an anonymized account is never deleted: `deleteFile` wants the key
  of a file and gets its URL (`user-lifecycle.service.ts:84`,
  `storage.service.ts:96`);
* `suggestPlayerFromPreviousSessions` selects sessions whose `endDate` lies ahead
  (`session-players.service.ts:217`) while the controller speaks of previous ones
  (`session-players.controller.ts:71`);
* `createMessage` drops the result of `markMessagesAsRead`
  (`messages.service.ts:44`), so nobody is told what it has read.

Of the chat:

* guards do not run for `handleConnection`, so `client.data.userUid` is undefined
  there, and Prisma takes `userUid: undefined` for no condition
  (`chat.gateway.ts:68`): a socket that connects enters the rooms of all
  conversations that have a member. The comments at 51, 54, 58 and 67 expect the guard to
  have run; `StrangersWereHanded` says that there is no
  other way into the room of strangers. `NotificationsGateway.handleConnection`
  looks whether the guard has run and authenticates by hand if not;
* the sockets of a player who leaves a session stay in the room of its
  conversation until they close, and members who are added later are in no room
  until they ask, connect again or are written to;
* a message to oneself is put into any private conversation of the sender
  (`conversations.service.ts:584`) and is not checked for blocks;
* a conversation that a member has hidden (`isVisible`) is never shown again, and
  `displayMessagesAfter` is written and never read.

Of the pages:

* the row beyond a page is popped, becomes the cursor, and the next page skips the
  cursor: it is on neither (`sessions.service.ts:739`, and the same in
  conversations, fields and friends);
* conversations asked for without a limit never have a second page; that of friend
  requests is refused by the database (the cursor is compared with an alias that
  the query does not have), and so is that of the fields of a partner, whose
  cursor, a cuid, is parsed as a number;
* a friend whom several users have invited to the session comes once for each of them,
  since the invitations are joined by receiver alone (`friends.service.ts:140`), and takes
  the place of other friends on the page;
* notifications always have the cursor null; lists of invitations have one row
  more than the limit, and the cursor null as well;
* "consistent pagination to avoid duplicates" (`sessions.service.ts:547`) holds
  while nothing changes between two pages.

Of the notifications:

* a socket that closes while it is being authenticated is tracked for good, and its
  user gets no push any more, against the comment at
  `notifications.gateway.ts:151`;
* `sentViaPush` is set even if Firebase has accepted the push for no device.

Of authentication:

* Google looks an address up and inserts it as it is given (`auth-b2c.service.ts:142`,
  179), register and login in small letters (`users.service.ts:67`), so one address may have
  two accounts; `updateEmail` writes it as it is given, too (`users.service.ts:514`), and
  whoever has a password and changed to an address with capitals cannot log in;
* a refresh gives a new value to some access token of the user, maybe that of
  another device (`auth-b2c.service.ts:586`);
* a deactivated user may log in, but not refresh;
* a refresh and a logout at once may deadlock;
* an anonymized user keeps the tokens, and an update of the profile writes personal
  data back (`users.service.ts:429`).

Of the rest:

* `deleteStripeConnectAccount` has no endpoint; the endpoints of bank accounts
  pass the uid of the user where that of the partner is expected; a partner who
  opens an account after having closed one keeps the status of the old one;
* coordinates of the client override those that were verified, an update of the
  coordinates alone is not verified, and one that names the address of its own
  field meets its own row and is refused; a create puts a field where the thing nearest
  to its address is, an update where the address is, and verifies there
  (`geolocalisation.service.ts:226`, `fields.service.ts:311`), so one address may have
  two public fields for a sport; any user may update any public field;
  images stay in the storage after a rollback; files of
  one name that are uploaded in one millisecond share a key, and the last one is what all
  show (`storage.service.ts:37`); nothing limits the number of files; a coordinate of 0 counts as none;
* a list of sports that names one twice is refused by the unique key only after
  the old list is gone; an hour of type ONE_TIME without a day fails after the
  clear; two lists saved at once merge, or lose their game modes; hours may then
  be there twice;
* an empty list of ratings marks its sender as having rated; the notes of a player
  who has sat down again are skipped as duplicates, and his status starts anew;
  whoever names someone twice, or himself, is refused by nothing but the count of
  players; sessions may be rated before they have begun, and not after their end
  (`ratings.service.ts:49`).

## Proofs

Each theorem is about the specification, so about every reachable state or step, for
all values of the constants that satisfy the assumptions of the module. Those are few:
counters are natural numbers, finite lists are finite, the sets of a `.cfg` have the
elements the handlers name, and a null (`NoRow`, `Gone`, `NoPair`) is no row
(`RowAssumption`). No theorem assumes anything about how requests interleave or fail
unless it says so. The argument is the same throughout: an inductive invariant
that TLC has accepted on the run of the module, a lemma per handler or kind of step,
and the property as a consequence.

`SessionRoster_proofs` holds for every set of users, teams, limits, requests and
blocks, from `RosterAssumption` alone unless said otherwise.

* **`TypeCorrect`**: `Spec => []TypeOK`. `TypeOK` includes that the program
  counter of a request belongs to its handler, which the later proofs need to
  tell the steps of a join from others. One lemma per handler, and
  `ObserveType` for the history.
* **`ChecksClearAlways`**, **`JoinsAreSound`**: `Spec => []NoStandingObjection`.
  The property itself speaks of requests at the insert only and is not
  inductive: the step *before* the insert has to know what the earlier reads
  have seen. `ChecksClear` says, for each `pc` of a join, which objections have
  been done away with; for blocks it needs that the list of players read by the
  handler contains every foe who has been seated since the join began. The
  proof is one lemma per kind of step: objections on record only shrink
  (`Lasting`), a check removes its own objection, the other steps leave the
  request alone.
* **`RosterAndChatAgree`**: `Spec => []RosterMatchesChat`, if users wait for
  their answers (`SingleFlight`) and no await fails (`MaxFailures = 0`); with
  either the property is false. The inductive invariant adds `OnePerUser` (a
  user has one request in flight) and `SeatWhileWriting` (who is between the two
  inserts holds a seat and is not the creator; who is between the two deletes
  has none): without them a second request of the same user could undo the
  first.
* **`RosterIsAtomic`**: `Spec => ImplementsAtomicRoster`, under the same two
  assumptions. The conversation of `AtomicRoster` is the one its readers could
  see if each handler wrote both tables at its first write (`SeenChat`), so the
  first write of a handler is the abstract join, leave or switch and the second one a
  stutter. `QuietWindows` and `OwnWindows` say whose window between two writes a step
  may open or shut; `RosterInductive` says that the request that shuts it finds
  the seat as its first write left it.

`SessionBooking_proofs` holds for any fields, slots, times, sessions and failures,
from `BookingAssumption` and `RowAssumption`.

* **`TypeCorrect`**: `Spec => []TypeInv`, where `TypeInv` adds to `TypeOK` that a
  create past the check of its slot has a slot that is there.
* **`BookingsSound`**: `Spec => []BookingsAreSound`. `ChecksInv` adds to the
  property what a create knows of its slot between the two checks (`SlotWasFree`).
  `LedgerInv`: no two sessions have a slot in common (`SoldOnce`, the unique key), a
  create at `reserve` has sold its slot (`SoldBeforeMarked`), so what is marked is sold
  (`MarkedIsSold`).
* **`BookingImplementsLedger`**: `Spec => ImplementsSlotLedger`. The owner of a slot in
  `SlotLedger` is the session that has it (a `CHOOSE`): `SoldOnce` makes it
  unique, from the unique key of `Sessions.slotUid`.

The same module proves what is stated of `ConnectAccounts` and `Fields`, whose instances are
in `MCSessionBooking`, for any accounts, events, addresses, spots, sports, objects and files;
`PartsAssumption` says that `NoRow` is none of these and the counters are natural numbers.

* **`AccountIsNamed`**: `Partner!Spec => []RowNamesTheAccount`. `PartnerInv` has a conjunct per
  thing a request relies on: of two that open an account neither counts as alone
  (`NoneIsAlone`), past the check the row names none but that of a rival (`FoundNone`), the
  account about to be saved is known to nobody else (`SavesItsOwn`), and an account is
  closed by one request, which clears it (`ClosesOnce`, `ClearsItsOwn`). The proof failed for a reason: with three accounts,
  which TLC had not been given, the property was false. After two creates at once, with
  the first account closed and not yet cleared, the second can be saved, closed and
  cleared and a third be opened by the book, before the clear of the first comes and
  takes the row from it. The accident has a history of its own now (`forgotten`), the property says
  that it needs two creates at once, and the run has three accounts.
* **`StatusIsInStep`**: `Partner!Spec => []StatusFollowsStripe`. `StatusInv` names the event
  the status comes from, all later ones being rejections, instead of the `CHOOSE` of the
  property.
* **`ImagesAreKept`**: `Place!Spec => []ImagesAreStored`. `UploadsApart`: what a transaction has
  uploaded is no one else's, but under a key given twice; `FieldsAreLocked`: two transactions never
  write one field, and an update has in `gone` all the images its field has, which is the lock
  of the row, so that what it leaves is its own `batch`. Nothing is assumed about how
  many files come or how many of them have one name.
* **`PlacesAreChecked`**: `Place!Spec => []PlacesAreVerified`, for any two functions `Geo` and
  `Details`. `Knows` says what a request may rely on in each step: its coordinates are those of its
  address by the one for a create or by the other for an update, and the place it
  has verified is free but for the fields written in the meantime. `NearIsExcused` is the
  statement about twins for any place a field may be asked about.

`SessionInvitations_proofs` holds for any users, teams, lists and requests, from
`InvitationAssumption`.

* **`TypeCorrect`**: `Spec => []TypeOK`; whoever holds a row is its sender or receiver.
* **`ChecksAreSound`**: `Spec => []InvitationsAreSound`. The property is about
  the two writing steps; `AllSound` is about all steps of the checks before them, and
  for an invite about every receiver it has passed. What has been done away
  with stays so because objections on record only shrink.
* **`RolesAreKept`**: `Spec => OnlyOwnRoleWrites`, from the same invariant.

The same module proves what is stated of `Conversations`, whose instance is in
`MCSessionInvitations`, for any writers, players, quarrels, conversations, requests and
failures, from `ConversationsAssumption`.

* **`PrivatesArePairs`**, **`PairsAreReused`**, **`MessagesAreAddressed`**: `Conv!Spec` implies
  `[]PrivateIsAPair`, `[]KnownPairIsReused` and `[]MessagesGoWhereTheyMay`. `ConversationInv` says of
  each request which conversation it has found (`Addressed`), whom it may write to
  (`Allowed`) and which conversation it is making (`Making`). A step of one request keeps
  this for the others because conversations only become more (`Later`): a private one
  has its two members from the second insert on and keeps them.

The proof of the last one found a mistake of the model: the code lets users block
themselves, and such a block stops none of their messages to others. What stands against a
message is a block of *another* user.

`Messages_proofs` holds for any users, messages, requests and failures, from
`MessagesAssumption` and `RowAssumption`.

* **`TypeCorrect`**: `Spec => []TypeInv`; what a read has found unread is there and is by
  somebody else.
* **`StatusFollows`**: `Spec => []StatusFollowsReceipts`. Two additions make it
  inductive: sends in flight have messages of their own with no receipt yet
  (`SendInv`); a read that is about to update receipts has set the status
  of their messages, and nothing takes it back (`StatusInHand`).
* **`MembersReached`**: `Spec => []MembersGetReceipts`. `AudienceInv` carries the
  steadfast members from the insert of the message through the read of the members to
  the receipts.
* **`SomeoneIsTold`**: `Spec => []SomeoneLearns`, inductive with `SendInv`: the update that
  leaves no receipt unread is followed by the list of a call that has not made it yet.

`AuthTokens_proofs` holds for any accounts, tokens, requests and failures, from
`AuthAssumption` and `RowAssumption`.

* **`TypeCorrect`**: `Spec => []TypeOK`. One lemma per handler says how its request
  moves and one how it changes the tables (`TablesMove`); the proofs below use
  these instead of the actions.
* **`AddressHasOneAccount`**: `Spec => []OneAccount`, for any spellings. `EmailsAreUnique`: the
  column has no value twice, other addresses included only as far as the owner's go;
  `CapitalsAreExcused`: an account without a history of Google or of a change has its address
  in small letters. Two accounts differ in the first, so not both are such.
* **`SignInHasOneToken`**, **`EndedStaysOver`**: `Spec => []OneTokenPerSignIn` and
  `Spec => []EndedIsOver`. Both follow from `TokenInv`: sign-ins have distinct names and a new one
  is known to nobody (`NamesAreGiven`, `NewSignInIsFresh`); an open refresh holds its
  record alone, and it is that of its sign-in (`RecordInHand`, `RecordIsHeld`: the row
  lock of the first delete); a logout at its second delete has all tokens it has to
  end in its list, and no refresh has one of them open (`ClearCovers`).
* **`SignInsAreKept`**: `Spec => RefreshKeepsSignIn`: the step that takes the old
  token gives its sign-in a new one.
* **`OldCodesAreDead`**: `PartsSpec => []CodesDie`, about `VerificationCodes`, whose instance is in
  `MCAuthTokens`; all that is assumed is `CodesAssumption`. `CodesInv`: a code once sent is
  not sent again; a request at the insert has in its list every older code that still lives;
  who is at the drop of a code has made a token; a code that was handed out is gone.

The proof found two mistakes of the model, which are put right: the removal of an
account did not wait for the locks of a single request, and a reset
of a user who had been removed went on.

`StripeWebhooks_proofs` holds for any events, concurrent deliveries, failures and
crashes, from `WebhookAssumption`.

* **`TypeCorrect`**: `Spec => []TypeOK`, with `RightHandler` (a handler runs for events of its
  type) and `EmittedInOrder` (an event happens once; refunds follow the success).
* **`AckedIsHandled`**: `Spec => []AckedWasHandled`. `AckInv`: a row is PROCESSED, or a
  delivery about to set it, only after the handler has run to its end.
* **`PaymentIsInStep`**: `Spec => []PaymentFollowsStripe`. `OrderInv` holds while
  deliveries come in order: one is at work, on the first event without a 2xx, and the
  events with one are those before it. `PayInv` says what the rows are at any
  moment: the image of the last event with a 2xx or, once its handler
  has begun, of the one at work; a handler that is through has
  written, a crash in between included. `RefundInv` says the same of each refund and
  of the loop: a refund is that of the last list with it, or of the list at work
  (`RefundIsLatest`), none has a row that no list has named (`RefundIsListed`), and the
  loop has written what is not `left` of its list (`LoopHasWritten`). "The last event that
  concerns the payment" is a place in the sequence (`IsLatest`) and not a fold over it, about which
  nothing could be proved without induction.

`AccountLifecycle_proofs` holds for any users, periods, payers and failures, from
`LifecycleAssumption`.

* **`TypeCorrect`**: `Spec => []TypeOK`. That a token is revoked only for users of
  Apple is part of `TypeOK`, as the types could not be shown without it.
* **`TokensAreRevoked`**: `Spec => []AnonymizedIsRevoked`. The property is about
  accounts that *are* anonymized; `RevokedFirst` adds the one that is about to
  be: at the update, the token of the user in hand has been revoked.
* **`OnlyDue`**: `Spec => OnlyDueIsAnonymized`. `DueInHand` ties the histories to
  what the job has in its memory: list and user in hand are among the accounts
  due at midnight, and from the second look at `deletedAt` on the deletion has
  been asked for. It needs that no account falls due in the course of a day, so
  `Grace > 0`. `AnonymizedByJob` shows that no other step anonymizes anybody.

The same module proves what is stated of `Ratings` and `Preferences`, whose instances are in
`MCAccountLifecycle`, for any users, notes, sports, modes, days, dates, requests and
failures and lists of any length, from `PartsAssumption`.

* **`RatingsEarned`**: `Rating!Spec => RatingsAreEarned`. `RequestOK` says what a request may
  rely on in each step: once the players have been counted all of its list were
  seated together. That the count keeps a user from rating himself is `CountedOnce`: as
  many players as uids means that no uid is there twice. `RowsApart`: no two open
  transactions of one evaluator hold the same row, which is the unique key.
* **`ListsAreWhole`**: `Preferred!Spec => ListsStayWhole`. `LoneIsUndisturbed`: a request that is
  still alone has no other of its kind beside it, so what it has cleared is clear
  when it inserts. `ValidIsSettled`: of a list of hours, of any length, nothing is kept
  twice or beside a preference that covers it. For this the loop of
  `validateHourPreferences` is stated as what it leaves (an entry is kept if none before
  it covers it) and not as a fold, about which nothing could be proved without
  induction.

`Friendship_proofs` holds for any users, requests, handlers and failures, from
`FriendshipAssumption`.

* **`TypeCorrect`**: `Spec => []TypeOK`, by one lemma per kind of change.
  `WellFormed` says of a request what `TypeOK` says of all: its step is one of its
  handler and its user is one of the two. The rows it may find are those between the
  two, so that a request that goes on with another row stays well formed.
* **`CreatesAreSound`**: `Spec => []RequestsAreSound`, which is inductive by itself:
  the one step that leads to an insert has seen no row in either direction, and
  what is on record against a create only shrinks.
* **`BlocksAreFinal`**: `Spec => []BlockIsFinal`, also inductive: the insert is the
  only step that makes a row, since an answer to a row that is gone throws.
* **`CancelsAreDeleted`**: `Spec => []CancelledIsDeleted`, inductive with the types: only the
  update makes a row `CANCELED`, and it puts its own request at the delete.
  The two make **`NothingIsLeftOver`**: `Spec => []NoRowIsLeftOver`.
* **`ReceiversAccept`**: `Spec => OnlyReceiverAccepts`. The step that writes does not
  look at the roles again; `WritersMay` says that the row in hand is the one they
  were checked for.

The same module proves what is stated of `Notifications`, whose instance is in
`MCNotifications`, for any recipients, sockets, devices, events and failures, from
`AlertsAssumption` (nobody is not a user).

* **`TrackedStayOpen`**: `Notify!Spec => []TrackedAreOpen`, inductive with the types of the
  sockets (`SocketInv`): a socket that was never opened is in no room.
* **`RecipientsReached`**: `Notify!Spec => []EveryRecipientIsReached`. `Fits` says of a listener in
  each step what it has still to do: whoever has no result is left to be served, or
  is the one at hand; the steady devices are his and active until their tokens are
  read, and among these from then on.

`Messages_proofs` also proves **`RoomsStayExplained`**: `Chat!Spec => []RoomsAreExplained`, about
`ChatRooms`, whose instance is in `MCPages`, for any users, sockets and
conversations, from `PagesAndRoomsAssumption`. `RoomAgrees` extends the property to
sockets that are still connecting: from the look at the memberships on, a
conversation of the user is among those handed over, entered or excused. That a
message brings members only into a room is part of the types: nobody leaves a private
conversation, and `sendMessage` makes rooms of no other.

The same module proves **`PagesAreSound`**: `Paging!Spec => []PagesShowRowsOnce`, about `Pages`,
for any number of rows, limits, invitations and changes. The inductive invariant (`PageInv`) has a part for each
way of cutting pages:

* by the key of the last row shown (`MessagesBehind`): of the messages that were there from the
  start, exactly those up to the cursor have been shown, and a new one goes before them all;
* by a popped uid (`TurnsPayLosses`): what lies behind the cursor and was not shown
  (`LostBehind`) is fewer than the pages turned. A page passes over one row at most, the row of
  the cursor or, if that has left, the first one after it, and the turn of the page pays for it;
  what others do takes no unchanged row behind the cursor unless rows are moved;
* by either (`ShownBehind`): until the row of a cursor is moved, every row shown is behind the
  cursor, so none is shown again;
* by an offset (`OffsetInv`): rows behind the offset that were not shown are as few as the rows
  that left or moved, and rows before it that were shown as few as those that came or moved.

The pages of friends are cut from a join that gives a friend several times. `JoinedAreOrdered` and
`AheadIsNumber` number the rows of the join, and `FromStartIsCut` takes a cut from the first of
them for a set of friends that ends where the cursor begins: the friend at the end of the page who
becomes the cursor is behind the page to come, with all his copies.

For the last, the *number* of a row is how many stand before it. Rows and numbers correspond
one to one (`NumbersFollowPlaces`, `EveryNumberIsGiven`), so a cut has the length that was asked
for (`CutIsAsLong`); a change of one row moves the number of another by one at most, and only one
way (`NumbersDriftByOne`), and just one row has the number at the offset. None of this
needs induction over the pages or the rows: cardinalities and injections do (`FS_Injection`).

Only model-checked is liveness (`SeatLeadsToChat`, `MoneyEventsAreHandled`, `DeletionHappens`,
`AnonymizedIsPurged`): it rests on fairness, hence on `ENABLED`, which the prover
does not handle.

## What is not modelled

* What a search looks for and how a score is made up; the mappers but for that of
  messages and ratings; statistics and view counts.
* Adapters (FCM, Apple, Google Places, S3, e-mail), metrics, formatting,
  hashing, encryption and signatures: input and output without a state the handlers
  rely on. What a caller relies on is part of its actions (an upload that throws,
  a push that fails, an answer of Stripe that is lost).
* Guards, for most components: a request carries its user. In `AuthTokens` and
  `VerificationCodes` they are part of the steps.
* Handlers that write one row nobody else's handler depends on: marking
  notifications as read, muting and archiving a conversation, reports, changes of a
  profile other than of its e-mail address, bank accounts and payment intents (calls to Stripe), typing events.
* Code without a caller: `cleanInvalidTokens`, `usersService.remove`, the
  broadcast and the endpoint for a test push.
* Isolation below READ COMMITTED, and partial statements: a statement is atomic.
* Seeds, migrations of data, deployment, load tests.

## Plan

1. Core (done): roster, invitations, booking, friendship, webhooks, messages,
   account lifecycle.
2. Extension (done): conversations, rooms, pages, notifications and devices,
   tokens and codes, preferences, ratings, fields, the Connect account.
3. Proofs: every invariant and action property of the runs, and the refinements of
   `AtomicRoster` and `SlotLedger` (done). Liveness stays with TLC.
