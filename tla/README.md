# Akalynth server: a verification project in TLA+

This directory holds TLA+ models of the game server in `apps/server` and of the
receipt logger in `packages/coordination-kernel`, the TLC configurations that
check them and proofs that TLAPS checks. Paths below are relative to the
repository; `index.ts` is `apps/server/src/index.ts`.

    tlc -config MCHouseMarket.cfg MCHouseMarket
    tlc -config MCHouseDurable.cfg MCHouseDurable
    tlc -config MCReceiptLog.cfg ReceiptLog
    tlc -config MCItemCustody.cfg MCItemCustody
    tlc -config MCWitnessQuorum.cfg MCWitnessQuorum
    tlc -config MCChillZone.cfg MCChillZone
    tlc -config MCAttendance.cfg MCAttendance
    tlapm HouseMarketProofs.tla        # and HouseDurableProofs, ReceiptLogProofs,
                                       # ItemCustodyProofs, WitnessQuorumProofs,
                                       # ChillZoneProofs, AttendanceProofs, FoldLemmas

## The system

The server is one Node process with one thread. Sockets push messages on a queue
per session; a `setInterval` tick drains the queues, expires witness requests and,
once a second, settles due auctions. HTTP routes run between ticks. Every effect
that matters is a *receipt*: `audit.write` appends a line to `receipts.jsonl`,
fsyncs, links it by `prev_hash`, applies the in-memory reducers and writes the
receipt through to SQLite, all before it returns. At boot the log is replayed into
the projections and, from a marker on, into the tables; some projections are then
overridden by rows ("hydrated").

| component | state | operations | hard behaviour | what makes it correct |
|---|---|---|---|---|
| house market (`world/property.ts`, `world/auction-loop.ts`, handlers in `index.ts`, `economy/router.ts`) | owner, status, price of each house; its latest auction | buy, list, unlist, open, bid, cancel, settle | an auction and a listing of one house at once; escrow without an account; settlement by a clock | gold conserved; displaced bidders and owners paid; auctions close |
| treasury (`world/treasury.ts`) | balance per player; a lock per player for HTTP | credit, debit, afford, lock | a check and a later debit; a debit the reducer refuses | balances never negative, no debit lost |
| house persistence (`persist/materializers.ts`, `persist/replay.ts`, `loadPropertiesAndSeed`) | `properties`, `property_auctions` | materialize, replay, hydrate | two sets of guards; replay over full tables; crash between two receipts of a handler | tables, replay and memory agree; no gold made |
| receipt log (`receipt/logger.ts`, `audit/logger.ts`, `persist/replay.ts`, `world/origin.ts`) | the file, `lastHash`, `lastSequence`, `_meta`, marker | append, fsync, reduce, materialize, nested seal, boot | crash, power loss, torn lines, thrown errors that a caller survives | chain linked, nothing acknowledged is lost, tables behind the log |
| items (`index.ts`, `world/combat.ts`, `world/mobs.ts`, item materializers) | inventories, world items, house storage, protected slot, and their tables | mint, buy, loot, drop, die, pick up, decay, protect, store, retrieve, use | two or three receipts per move; tables written first, memory last | an item is in one place and nowhere lost; tables and replay give memory back |
| sessions (`index.ts`) | session, player, map, `worlds[m].players`, the sovereign | connect, login, enter, gate, close | two sockets as one player; a login over a login | one sovereign; worlds list who is there |
| gather (`world/gather.ts`) | nodes, claims, held slot | gather, refine, deliver, leave, tick | timers against leaving; two sockets of a player | nodes come back, a yield is delivered once |
| presence (`world/presence.ts`) | place per player, co-presence clocks, observed pairs | move, enter, disconnect, tick, replay | leaving is no receipt; state kept over `enter_world` | who is recorded is there; observed after the threshold |
| witness quorum (`world/witness.ts`) | requests, answers, cooldowns | request, answer, TTL, clean up | an answer against the TTL; two sessions of a player | decided once, by all accepted answers |
| work contracts (`world/work_contracts.ts`) | active contract and cooldown per player | start, tick, complete, fail | payout after completion | not modelled |
| anti-cheat and heat (`anticheat/*`, `world/heat.ts`) | signals, challenge, throttle, heat | detect, challenge, answer, time out, kick | late answers; counters under replay | not modelled |
| world events, death and respawn, NPCs, quest, echo, skills | per-player progress and runtime state | many small handlers | timers, restart | see `PROJECT.json` |
| chronicle (`crates/chronicle`, `witness/chronicleAdapter.ts`) | a second hash chain | append, commit, reveal | failure to open is cached | chain linked |
| principals, accounts, characters, beta | SQLite stores | challenge, verify, session, recovery | store before receipt | a challenge is used once |
| clients, governance and verification packages, simulation, builder | none shared with the server | | | not modelled |

Components call each other synchronously. The market calls the treasury through
receipts only; the reducers never look at each other; the only callback is
`onWrite`, and the only receipt written from inside it is the origin seal. Sockets meet
gather and presence in the close handler, which looks at the player of the socket and
not at whether another socket is logged in as the same one.

## Modules

- `GoldLedger` - the abstract promise: wallets, stakes and a supply; coins are made
  by faucets, destroyed by sinks and otherwise only move. It models no code.
- `HouseMarket` - one action per handler with *all* the receipts it writes. That is
  what the process does as long as it lives: handlers are synchronous. A settlement
  pass is one `StartSettlement` and one `SettleNext` per due auction, and no
  message is handled in between. `gold`, `prop` and `auction` are the maps of
  `treasury.ts` and `property.ts`; `supply` is auxiliary. It implements
  `GoldLedger` with the standing bid of each open auction as the stake of its house.
- `HouseReceipts` - the receipts of one house as records, the reducers
  (`TreasuryReducer`, `PropertyReducer`), the materializer (`Materialize`, each
  UPDATE with its WHERE) and the folds of both over a log. No state of its own.
- `HouseDurable` - the same handlers one receipt at a time: a handler checks once and
  queues its receipts in `todo`; `WriteReceipt` makes the next one durable, applies
  it and materializes it. The process may die before any receipt (`Crash`) and
  between fsync and reducers (`CrashAfterFsync`). Under an HTTP route, whose error
  `index.ts:2867` catches, it goes on (`RouteCatches`) after an append that failed, after
  an fsync that failed with the line in the file (the log alone has the receipt), and
  after a materializer that threw (log and memory have it, the tables do not). `Boot`
  replays, materializes the whole log again and hydrates. `overlapped` remembers that a
  house was listed or unlisted with its auction open, `torn` that a handler was cut in two
  or a receipt never applied, `survived` which of the two caught errors left log, memory
  and tables apart; a boot makes up for the tables, for a survived fsync it does not.
- `ReceiptLog` - `appendReceiptSync` as a stack of frames (two, because of the
  nested seal), each at a stage: written, synced, projected, materialized; the file,
  what of it is certainly on disk, the marker and the tables; `ShortWrite`, `Throw`,
  `ProcessCrash`, `PowerLoss`; `Boot` and `BootRefuses`. From it
  `HouseDurable` and `ItemCustody` take that a boot reads every line that is in the log,
  in its order. Power loss, torn lines, the marker and the fork of the chain after a
  survived fsync are here only; the two caught errors that leave log, memory and tables
  apart are in all three.
- `ItemCustody` - where each item is, in `mem` (the maps of `index.ts`) and in `db` (the
  item tables). A handler checks `mem` once and queues its receipts; `WriteReceipt` makes
  one durable and materializes it; `mem` changes with the last one. `Crash`,
  `CrashAfterFsync` and `Boot` are those of `HouseDurable`; `RouteCatches` is the HTTP shop,
  whose write leaves its receipt either nowhere or in the log and in no table. `lost` names
  what the code may lose: the item of a handler cut between its receipts, and loot, which
  lies in `worldItems` and in no table until somebody picks it up. `missed` names an item
  whose `item_added` is in the log and not in the tables, until the next boot; `used` what
  `item:use` took from memory and left in the table.
- `QuorumVote` - the abstract promise of a witness quorum: a question, seats, one ballot
  per voter, one decision by all ballots. It models no code.
- `WitnessQuorum` - `world/witness.ts` and its handlers. Sessions move and may be several
  of one player; `Candidates` are sessions, `asked` are players, as in the code. `Elapse`
  may come between the expiry scan of a tick and a handler of the same tick, which reads
  the clock again. `receipts` is what the log says of a request; it implements
  `QuorumVote`.
- `Sessions` - sockets, players, worlds and the sovereign, without a next-state relation.
- `Gather` - nodes, activities and held items of `world/gather.ts`; the specification of
  the loop alone is `GatherSpec`.
- `ChillZone` - `Sessions` and `Gather` composed: intents come from a logged-in socket on
  Azura, `Close` makes the player leave the loop, a restart forgets both.
- `Presence` - places, co-presence clocks and observations of `world/presence.ts`.
- `Attendance` - `Sessions` and `Presence` composed: login, `enter_world`, moves, the gate
  and close as the handlers call them, the tick over the sessions in the world, a restart
  that replays the receipts. `stale` names whom a login or a replay left recorded without
  a socket, `restless` who entered while still recorded.
- `MC...` - instances; `...Proofs` - theorems.
- `FoldLemmas` - induction over numbers and sequences stated with sets, the equations of
  `FoldLeft` and `FoldFunction`, and sums over finite sets. It models no code.

`HouseDurable` composes reducers, materializer, log and market for one house;
`HouseMarket` has several houses and no failures; `ReceiptLog` has all failures and
no meaning of receipts.

## Runs

| run | instance | what it shows |
|---|---|---|
| `house_market` | 3 players, 1 house, amounts 1..2, supply 4 | the three invariants, the refund and payment action properties, `AuctionCloses`, refinement of `GoldLedger` |
| `house_market_double_sale` | the same | **violated**: a house sold during its own auction is taken from the buyer |
| `house_durable` | 3 players, 10 receipts, 2 failures | tables = memory after every handler and boot, hydration = replay, every balance is its receipts, standing bids survive, sales are counted once; each but for those of `overlapped`, `torn`, `survived` and `CameBack` that it names |
| `house_durable_hydration` | 9 receipts, 1 failure | **violated**: a re-opened auction makes row and replay differ |
| `house_durable_mint` | 9 receipts, 1 failure | **violated**: a settlement cut in two pays twice |
| `receipt_log` | 5 receipts, 3 failures | chain linked, nothing acknowledged is forgotten silently, tables behind the log and rebuilt at boot, one origin seal |
| `item_custody` | 2 players, 2 items, 9 receipts, 2 failures | no item in two places; nowhere are only used, decayed, missed and lost ones (torn handlers, lying loot); tables show memory but for used items and loot, and are the replay but for missed ones; a protected item stays until it is used, dropped or stored |
| `item_custody_nowhere` | 6 receipts, 1 failure | **violated**: a drop cut in two leaves an item nowhere |
| `witness_quorum` | a target, 2 witnesses, 4 sessions, 2 requests | every accepted answer counts; a verdict needs as many players as seats; one request per target; refinement of `QuorumVote`; requests end |
| `chill_zone` | 2 players (one the sovereign), 2 sockets, 1 node | one sovereign; worlds list who is there; claims exclusive; yields delivered once; absent players hold nothing; nodes come back |
| `attendance` | 2 players, 2 sockets, threshold 1 | who is recorded is there, but for two named causes; nobody is observed early, but for one |
| `receipt_log_fork` | 2 receipts, 1 failure | **violated**: the chain forks when a caller survives a failed fsync |

The five violated runs are disagreements between the code and what its own comments
and documents say; `PROJECT.json` quotes them under `findings`. A passing run states the
same property with the exception spelled out, so that it shows the exception to be the only
one: `OwnerPaidOnSale`, `HydrationIsReplay`, `EscrowSurvivesRestart`, `ChainUnbroken` and
`ItemsAccountedFor`. Two more exceptions are disagreements with a comment and have no run of
their own. `EveryDebitCounts` leaves out a survived fsync (the cause of `receipt_log_fork`),
after which the log has a debit that no balance counts until a restart takes the gold;
`world/treasury.ts:2` says "source of truth is receipts". `SalesCountedOnce` leaves out a
house that came back to an earlier owner (`CameBack`): the owner predicate of an old
transfer holds again, and each boot counts the sale once more; the comment at
`persist/materializers.ts:579` says that it "never double-counts". Without either exception
TLC finds the counterexample on the same instance. G7 of `apps/server/docs/CIVIL_GUARANTEES.md`
has two halves: "An item exists in exactly one place" is what torn items and lost loot
break, and `item_custody_nowhere` reports it; "never both" holds (`NeverInTwoPlaces`).

Behaviour that is named in the same way and reported by no run: a used item comes back after
a restart (`used`); `docs/PERSISTENCE_MATRIX.md:56` calls inventories "Not release-claimed
durable". A player whose socket logs in as somebody else in the world stays listed
(`ghosts`) and keeps its claim (`adrift`); a player who enters again on a second socket keeps
an old co-presence clock (`restless`).

### Bounds

Three players are a seller, a bidder and a rival, the most one auction can tell apart;
a fourth only repeats the rival. One house: houses share nothing but the wallets, and
two prices with a supply of 4 let every wallet be rich enough and too poor. (The
proofs have no such bound.) A duration of one tick separates "open" from "due".
Ten receipts are a primary sale (2), an auction with two bids by different players
(1 + 2 + 3) and its settlement (2); a house that comes back (`CameBack`) needs all
ten. The constraint `AllSeenSoFar` ends a behaviour of `HouseDurable` where a failed
fsync was survived: from there every property but the types is exempt (the proofs follow
it further). Two failures are one and one more after its boot. In `ReceiptLog` five receipts
are two acts before, one at and two after a failure, with the nested seal among them;
three failures are a failed write, the crash that follows and the power loss after the
next boot, the longest story any of its exceptions needs. `SupplyCap`, `MaxReceipts`,
`MaxCrashes`, `MaxIds` and `MaxFaults` are bounds of the model and of nothing in the
code. `HouseDurable` and `ReceiptLog` are checked without the deadlock check, since they
stop at these bounds and a refused boot waits for an operator; `HouseMarket` never
stops and is checked for it. Symmetry in players is used only where all properties
are invariants or name no player.

`ItemCustody`: two players exchange items, two items compete for one protected slot and
make one death of two drops; nine receipts are a mint (2) and three moves of two receipts
with one to spare, so that an item can go to the world and back, or to a house, and be
cut at each point; two crashes as above. It is checked without the deadlock check, since
it stops at its bounds. `WitnessQuorum`: one player with two sessions and one with one
are all the ways two seats can be filled; only the target raises suspicion; two requests
let one follow the other; TTL and cooldowns of one unit separate before and after; one
map and no map are enough to leave. "uncertain" is left out of the instance (the proofs
have it): it can only make `insufficient`. `ChillZone`: two sockets can be one player or
two, and one node is all they can quarrel about. A refine time of zero still needs a tick.
`Attendance`: one unit of time is the threshold, so that "too early" exists; no
sovereigns, since `ChillZone` has them; the state view drops the worlds' lists of
players and their ghosts, which no guard and no property of `Attendance` reads.

### Fairness

`FairSpec` has weak fairness of `Tick` (the clock), `StartSettlement` and
`SettleNext`: the scan runs from `setInterval` as long as the process lives and handles
every auction it finds due. Players owe nothing. `AuctionCloses` uses it.
`WitnessQuorum` has weak fairness of `Expire` and `Elapse`, `ChillZone` of `Tick` and
`Elapse`: the head of the tick, `tickGather` and the clock, from the same `setInterval`
(`index.ts:6692`). Witnesses owe no answer and gatherers no close; `RequestsEnd` and
`NodesComeBack` hold without either. `ItemCustody`, `Attendance`, `HouseDurable` and
`ReceiptLog` state no liveness and no fairness.

## Proofs

Every safety invariant and every action property that a passing run checks, but for
`SalesCountedOnce`, is also a theorem, for every value of the constants.

`HouseMarketProofs` holds for any players, houses, prices and durations. It uses the
four named assumptions of `HouseMarket`: the null player is no player, prices and bounds
are naturals and `MaxGoldAmount` positive, durations positive, players and houses finitely
many (only `GoldIsConserved` needs the last).

- `MarketInvariantHolds`: `MarketInvariant` is inductive. The checked invariants alone
  are not: that a cancel or settlement leaves the owner alone needs
  `OpenAuctionWellFormed` (an open auction has a player for seller and its house an
  owner; a bid has a bidder exactly when it has an amount), that a primary sale never
  hits an auctioned house needs `UnownedHouseHasNoOwner`, and that the second auction
  of a settlement pass is still open needs `SettlingIsDue`. One lemma per action.
- `TypeCorrect`, `AuctionedHouseStaysWithSeller`: its parts.
- `StakesReturnOrWin`, `OwnersArePaid`: the action properties, each from one lemma that
  goes through the actions that can displace a bid or change an owner.
- `MarketImplementsLedger`: every action is a `Mint`, `Burn`, `Pay`, `Stake` or
  `Release` of `GoldLedger` or leaves its variables alone. `MarketInvariant` is needed
  because a settlement releases the stake to a seller who must not be its holder
  (`StandingBidIsNotTheSellers`).
- `GoldIsConserved`: the supply is the sum of the wallets and of the standing bids. Each
  action changes a few summands, and `SumChanges` of `FoldLemmas` says what that does to a
  sum.

`HouseDurableProofs` holds for any players, terms and bids, finitely many players, logs of
any length and any number of crashes. A fold over a log is the fold over all but its last
receipt and one step more (`FoldAppend`), so a statement about replays is kept by a step
when one more receipt keeps it. `Sound` is inductive, in three parts:

- `WalletInvariant`: `todo` is the end of a handler's receipts (`Plans`), its debits are
  covered (`Paid`), and memory is the replay of the log (`GoldReplayed`), whose balances
  are sums of its receipts (`Counts`); the last two as long as memory has seen every
  receipt (`AllSeen`: no failed fsync was survived).
- `HouseInvariant`: a handler's last receipt fits the house (`Fitting`); for a coherent
  house such a receipt has the same effect in the reducer and in the materializer. At a
  boot the log is materialized over tables that may already have it: `Follows` says how far
  tables may be off while older receipts run over newer rows, `Reaches` that a row is the
  house's from the first receipt that fits the owner it shows, and `Converges` that this
  holds of *any* tables. Tables that missed a receipt (`Lags`) are such that the log has a
  receipt of that kind, and so the boot makes up for it. All this is claimed while
  `Intact`: not overlapped, and `AllSeen`.
- `Whole`: wallets, standing bid and price of the house add up to the coins granted, with
  what a running handler still has to move set against the house that it ends in.

Theorems `WellTyped`, `TablesConverge`, `TablesMirror`, `HydrationChangesNothing`,
`BalancesAreTheLog`, `EscrowIsKept`.

`ItemCustodyProofs` holds for any players, items, logs and number of crashes.
`CustodyInvariant` says of a handler what it owes: when its receipts have been replayed the
tables agree, item by item, with the memory it ends with (`HandlerEnds`), and after any
number of them no item is in two places and none out of sight unless the next receipt names
it (`HandlerRuns`). Writing a receipt then keeps the invariant whichever handler runs, a
crash leaves tables that a boot can load (`BootFinds`), and each handler shows the two facts
about its own receipts once. That replaying the log over the tables, or over nothing, gives
the same tables needs `TablesFromLog`: the tables hold nothing that the log does not settle,
and are its replay but for missed items. Those have a row in the replay and none in the
tables, and no receipt to come is about them (`MissedRows`): memory does not have them either,
so that no handler can touch one before a boot has given it its row. What a caught failure
of the shop leaves is `ShopStopped`.
Theorems `CustodyInvariantHolds`, `CustodyTypes`, `NoDuplicates`, `NothingVanishes`,
`RestartKeepsItems`, `ReplayRebuildsItems`, `ProtectionHolds`.

`WitnessQuorumProofs` holds for any players, sessions, witnesses per request, TTL and
cooldowns, finitely many sessions, and any map of sessions to players. `QuorumInvariant`
is inductive; the checked invariants are not. That an accepted answer is counted needs
`Faithful` (while a request is open, memory holds the answers the log has and nothing is
decided; once it is resolved, it has run out or everybody has answered, so no further
answer can pass the guards, which is why writing the receipt before asking
`recordWitnessResponse` is harmless); that a decision stays right needs `Counted`; that
nobody is judged twice needs `CooldownCovers` (an open target is on its cooldown for as
long as its TTL). Theorems `QuorumTypes`, `AnswersAreCounted`, `VerdictsAreUnanimous`,
`OneJudgementAtATime`, and `QuorumImplementsVote`: every step is an `Ask`, `Cast` or
`Close` of `QuorumVote` or leaves its variables alone.

`ChillZoneProofs` holds for any players, sockets, sovereigns, nodes and durations, finitely
many players. `ZoneInvariant` adds `HandsFree` to the checked invariants: whoever gathers
holds nothing, without which a yield could overwrite an item and `YieldsInHand` would not
be inductive. The loop and the sockets are proved apart (`LoopInvariant`,
`SocketInvariant`) and meet in `AbsentHoldNothing`. Theorems `ZoneTypes`, `SovereignIsOne`,
`WorldsList`, `ClaimsAreExclusive`, `YieldsAreKept`, `AbsentLetGo`.

`AttendanceProofs` holds for any players, sockets, sovereigns and threshold.
`AttendanceInvariant` adds `TimesAreReal`: a running co-presence clock is never ahead of
the time its pair has been recorded together, unless one of them is restless. Theorems
`RecordsAreBacked` and `ObservationsTakeTime`.

`ReceiptLogProofs` holds for any number of receipts and failures. The checked invariants
are not inductive: `LogInvariant` adds that the line of a write that is not synced is the
last of the file (`FramesInFile`), that hash and sequence in memory are the last line's
(`MemoryAtEnd`, which is what a caller that survives a failed fsync breaks), that whatever
is acknowledged lies in the synced part (`AckedSynced`), which no power loss takes, and is
in the projections but for the receipt whose reducers are next (`AckedKnown`: no error hits
a write between fsync and reducers), and that the tables come from the synced part until a
boot refuses or reads past it (`TablesSynced`). `ReadableLines` says what the search for the
first torn line finds, from the well-foundedness of the naturals. Theorems `LogTypes`,
`ChainHolds`, `NothingLost`, `LogFirst`.

Those say that the tables have no more than the log. That they have no less is
`TablesInvariant`, on top of `LogInvariant` and as long as no caller has survived a failed
write: ids grow along the file (`Ordered`); in a running process every line is a row but the
one being written and one without its newline (`Materialized`), which is why the seal's check
sees every earlier seal; a row has the rows of all earlier readable lines before it
(`InOrder`), so that whatever end of the tables a power loss takes, a marker that still
matches the newest row may be trusted (`MarkerNames`); and a cut seal is never cut again
(`CutSealsSynced`). Theorems `TablesInvariantHolds`, `OriginSealedOnce`, `BootRebuilds`.

Induction over data. The library's induction theorems take an operator as a parameter, which
the provers cannot instantiate. `FoldLemmas` states induction with the *set* of the numbers
or sequences that have the property, and unfolds from it the recursive functions inside
`FoldLeft` and `FoldFunction`, once; the other modules cite `FoldEmpty`, `FoldAppend`,
`FoldType`, `SumChanges` and `FoldedSum`.

Only model-checked: liveness, which is out of the prover's reach (`AuctionCloses`,
`RequestsEnd`, `NodesComeBack`), `SalesCountedOnce`,
whose count the proofs leave out, and the five claims that runs refute.

## Not modelled

Primary-kind auctions (no handler opens one); lenient replay (refused in production);
signatures and hashes, whose values are taken to be distinct; byte offsets and
chunked decoding in `replay.ts` (lines are whole); names, places, timestamps and owner
histories. Item types, tiles, decay times and the weights of death drops (any unprotected
items may drop). Distances to witnesses, nodes and stations. Lingering, which only the
greetings of NPCs read. Tokens, guest expiry, starter kits, death and respawn of sessions.

Work contracts are one player's counter, and what a restart should do to one is left open
by `docs/PERSISTENCE_MATRIX.md`; the human check is one challenge and one queue of one
player. Their hazards are listed with that reason. The HTTP services for principals,
accounts, characters and moderation keep records in SQLite and share no state with the
world. Components without a module are listed with their reason in `PROJECT.json`.

## Plan

The first four items of the original plan are done but for the human check. What is left,
in order of worth:

1. An abstract specification of a durable log (append once, read back what was
   acknowledged) that `ReceiptLog` implements and `HouseDurable` and `ItemCustody` use, so
   that their common assumption about receipts is a refinement too.
2. Death and respawn in `Sessions`, in a run of its own: combat judges the last session of
   its target and kills the first, and a respawn puts a player into the world's list and
   at the spawn without telling presence.
3. `AntiCheat`: detector, human check and throttle with the persisted counters, once it is
   decided what a replay should do to them.
4. `WorkContracts` under `Sessions`, once it is decided what a restart does to a contract.
5. `WorldEvents`, `TreasuryLock`, `ChronicleChain`, `Principals`.
