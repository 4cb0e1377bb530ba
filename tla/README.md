# Torando Control: specifications

TLA+ modules, TLC configurations and TLAPS proofs for the privileged daemon of
Torando Control (`src/backend/torando_gui/`), which routes one user's traffic
through Tor behind an iptables killswitch and pins the host's DNS to Tor's
resolver. All paths below are relative to that directory unless they begin
with `src/`.

## 1. The system

| Component | State it keeps | Operations | Hard behaviour |
|---|---|---|---|
| `App` (`app.py`) | configuration, `_oplock`, log bus | connect, disconnect, update_config, new_identity, status, recover_orphaned_dns | handler threads interleave; every step of connect can fail and is rolled back; the process dies anywhere |
| Command line (`__main__.py`) | none of its own | start, `--disconnect`, `--restore-dns` | the commands act on the host beside a running daemon, with no common lock |
| `Firewall` contract (`firewall.py`) | the kernel's rules | apply, remove, status | apply is all or nothing; remove is best effort |
| Linux firewall (`engine.py`, `firewall.py`) | OUTPUT chains of nat, filter, ip6 filter | apply_list, remove_list, status_list | one subprocess per rule: refused appends and deletes, checks that fail, rules left by earlier calls |
| Resolver pin (`netcfg.py`, `dns.py` FileDns) | resolv.conf, its backup, the immutable flag | lock, restore, is_pinned | DHCP rewrites the file; crashes between file operations; chattr missing or useless |
| Log bus and SSE (`app.py`, `server.py`) | ring, one queue per page | emit, recent, subscribe, unsubscribe, events | bounded queues, pages that stop reading or leave |
| Windows firewall and proxy (`winfw.py`) | profile policies, allow rules, proxy, state file | apply, remove, teardown, status | capture once, failure between policy and proxy |
| macOS/BSD firewall (`pf.py`) | anchor, anchor file, pf.conf | apply, remove, status | file, main ruleset and kernel can disagree |
| macOS and Windows DNS (`dns.py`) | state file, adapters | lock, restore, is_pinned | several adapters, one after the other |
| torrc block (`netcfg.py`) | torrc | apply_torrc | text outside the markers must survive |
| Configuration (`config.py`) | config.json | load, save | in force before it is saved |
| HTTP server (`server.py`) | none | routes, token, host and origin gates | order of the gates |
| Tor control, services (`torctl.py`, `services.py`) | a socket | NEWNYM, bootstrap, reload | reply framing |
| Exit check, GeoIP, MMDB (`socks.py`, `netcheck.py`, `geoip.py`, `mmdb.py`) | read-only data | check_exit, lookup | pure parsing and bisection |
| Page (`webroot/app.js`) | last status, last exit, busy | render, toggle, setConfig, events | answers out of order |
| Desktop shell, launcher, platform, packaging | - | - | no shared state |

How they interact: handler threads of the HTTP server call `App`; `App` calls
the firewall and the resolver backends under `_oplock`, probes Tor, and logs to
the bus while it holds that lock; pages follow the bus through connections of
their own; the daemon and the one-shot commands meet only in the kernel's
rules, in resolv.conf and in the configuration file.

What makes each component correct:

- **App**: a pinned resolver always has armed rules behind it; a failed connect
  leaves the host as it was; nobody is blocked by rules the daemon does not
  know; the lock always comes free; nothing is served over an orphaned pin.
- **Firewall**: a failed apply restores the chains, a successful one lets no
  packet out beside Tor (but for one kind, see the known limits); remove takes everything of the user and nothing of
  others; the page stays reachable at every instant.
- **Resolver pin**: a file pinned over a resolver has a backup that is not the
  pin; a restore
  that reports success left no pin; only the pin is ever immutable.
- **Log bus**: no line twice, in order, none lost to a subscriber; logging
  never holds up an operation for good while every page reads.
- **Windows and macOS**: outbound traffic is never blocked without Tor and
  loopback being allowed, nor anything of ours in force without a record of what could be
  read to go back by; the killswitch outlives whoever reloads the firewall; a disconnect
  that reports success gave back what the user had.
- **Page**: never shows as secured a host that was not; comes to show the host
  as it is, whatever order the answers take.
- **Helpers**: an answer is taken for the question it belongs to; the lookups
  name the network the databases say; what the user wrote around a managed
  block survives; nothing is done for a request that may not ask for it.

`PROJECT.json` lists the hazards behind these, each at its line.

## 2. Modules

| Module | What it is | Code |
|---|---|---|
| `Session` | abstract: resolver, armed, serving - what the user is promised | `app.py` |
| `Firewall` | abstract: a backend over the *set* of installed rules | `firewall.py` |
| `LogFeed` | abstract: one stream without a bound for each page | `app.py` _LogBus and events |
| `Netfilter` | the rules of one user, packets, and the verdict of the chains | `engine.py` build_rules; the kernel (external) |
| `LinuxFirewall` | the engine, one iptables invocation per step, over chains as sequences; proved to implement `Firewall` | `engine.py`, `firewall.py` |
| `Daemon` | App, the commands and the life of the process; calls the actions of `Firewall`; implements `Session` | `app.py`, `__main__.py` |
| `LinuxFirewallInv`, `DaemonInv`, `MachineInv` | the inductive invariants of `LinuxFirewall`, `Daemon` and `Machine`, one named part per reason; those of `ResolvConf`, `LogBus` and `Page` are short and stand in their modules | |
| `ResolvConf` | lock_resolv and restore_resolv, one file operation per step | `netcfg.py` |
| `LogBus` | emitters, subscribers and streams; proved to implement `LogFeed` | `app.py`, `server.py` |
| `Calls` | the frame of a backend call that runs one command after another | |
| `WindowsFirewall` | apply, remove, `_teardown` and status, one netsh command or registry access per step | `winfw.py` |
| `PfFirewall` | apply, remove and status over anchor file, hook, main ruleset and anchor, on macOS | `pf.py` |
| `AdapterDns` | MacDns and WindowsDns, adapter by adapter, with the state file | `dns.py` |
| `Machine` | connect, disconnect, the recovery at start and the life of the machine over the three above | `app.py`, `firewall.py` |
| `Page` | the page, the ways it learns a status, and the daemon's operations beside it | `webroot/app.js`, `app.py` status, `server.py` |
| `Sockets` | reading to an end of line or to a length, from a peer that may stop anywhere | `torctl.py`, `socks.py` |
| `ControlPort`, `Socks` | a session with each of Tor's two ports | `torctl.py`, `socks.py` |
| `GeoData` | the range table; the tree, pointers and documents of a MaxMind database | `geoip.py`, `mmdb.py` |
| `ManagedBlock` | the marked block in torrc and in pf.conf | `netcfg.py`, `config.py`, `pf.py` |
| `Requests` | the routes and the gates before them | `server.py` |
| `Helpers` | one session or one question to the six above, against what they are for | |
| `Daemon_proofs`, `LinuxFirewall_proofs`, `ResolvConf_proofs`, `LogBus_proofs`, `Machine_proofs`, `Page_proofs`, `Helpers_proofs` | the theorems about each component and their lemmas; `LinuxFirewall_proofs` ends with the proof that `LinuxFirewall` implements `Firewall` | |
| `SequenceLemmas` | lists as sets: heads, tails, appends, reversals; what is computed step by step exists; shared by the proofs | |
| `MC...` | the instances TLC checks | |

Composition: `Daemon` instantiates `Firewall` on its own variables `installed`
and `call`, so the steps of `apply` and `remove` interleave with everything
else; `LinuxFirewall` shows that the real engine does no more than those steps,
which `LinuxFirewall_proofs` proves.
`Daemon` sees the resolver as "real" or "pin"; `ResolvConf` is the same
component with its files. `Machine` instantiates the backends of Windows and
macOS, which share the frame of `Calls` because App runs one backend call at a
time; handler threads are the matter of `Daemon`, failures between two commands
that of `Machine`. A definition whose comment begins with "Mutant:" is
a deliberately wrong variant of one that follows it; nothing uses it. With the
variant in the place of the original, TLC finds the property that
`PROJECT.json` pairs with it violated: the property would notice that bug.

### LinuxFirewall

State: `chain` (a sequence of rules per table), `ip6` (ip6tables installed),
`w` (the operation that changes the chains: which loop, which invocation comes
next, the list still to do, what was added), `rd` (a `status` request reading
the chains beside it), `faults`, and `candid` (history: no delete was refused and
no check was wrong so far). Actions follow the code's calls:
`Exists` is `existed = rule_exists(rule)`, `AddFindsIt`/`AddMustAppend` the
second look inside `_add`, `AppendRule`/`AppendRefused` its `-A`,
`DelLooks`/`DelDeletes`/`DelRefused` the loop of `_del`, `Ip6Missing` the
refusal of `_apply_v6`. The chains begin with rules of other programs
(`Others`, any sequence per table that says nothing about the users routed
through Tor), which never change by themselves. Any invocation may fail, a check may fail and read as
"absent", and the process may die in between. `Verdict` says what the kernel
does with a packet of the user; it is external, from the semantics of the
matches the engine uses. The packets are of every protocol (TCP, UDP, any
other) to every port in `Port`, at an outside address.

### Daemon

`pc` is the place in connect, disconnect or update_config; `using`, `applied`
are their locals; `found` is history (the host as the call found it). Each
backend call is a step of its own, and inside the firewall each rule is.
`RollbackDns` and `RollbackRules` are the handler of connect, with its single
`suppress`: an exception of `unlock_resolv` goes straight to `failed`.
`Crash` kills every handler thread where it is; `Reboot` also flushes the
rules; `Start`, `RecoverChecks` and `RecoverRestores` are `main` up to
`make_server`. Faults are named by place: "lock" makes lock_resolv
fail to write the pin, so that connect rolls back what apply did; "crash" lets
the daemon be killed anywhere, "stop" only while no thread is inside the
firewall; "raise" makes
lock_resolv and unlock_resolv raise; "note" makes unlock_resolv return without
having written the resolver back; "blind" does the same to the recovery at
start; "probe" makes a look at the rules fail, which the code takes for "not
routing" (`Probes`: in update_config that unfreezes the routing fields, in the
recovery it un-pins), and so does a missing ip6tables. Inside apply and remove a
look that fails is a matter of `LinuxFirewall` (its fault "check"). The six
routing rules of a user are one rule here and so is the IPv6 pair, since App
tells no more apart.

### ResolvConf and LogBus

`ResolvConf` separates the truncation and the write of the backup (which is
written in place), the replacement of the file (atomic) and the two `chattr`
calls. The file may be missing ("missing"): then nothing is captured, and the
pin is written without a backup; `bare` remembers that. "bytes" is a file or a
backup that is not UTF-8, on which restore_resolv raises.

`LogBus` separates the append under the lock of the bus from the
blocking `put` into each queue outside of it, and the replay of the ring from
the subscription. What lies in the ring a page replays, in its queue and in the
hand of its thread is, in that order, its stream in `LogFeed`; what emitters
have still to put is due to it.

### Machine and its backends

`call` says which backend call of which operation runs and `pc`, `todo` where
in it: a loop over profiles, allow rules or adapters is one step per turn, and
each turn may be refused. `Connect`, `Armed`, `ArmFails`, `PinReturns`,
`RollsBackRules` and `RolledBack` are connect with its handler; `Disconnect`,
`RestoreReturns` and `RemoveReturns` the other way. The kernel's side of pf is
explicit: the rules of `anchor` count only while the main ruleset refers to it,
and `OthersReload` (any other program that loads pf.conf) and a reboot load
what the hook and the anchor file say. `found` and `last` are history (what an
operation found, how it ended); `lost` marks a second refusal inside the
teardown of the first and a remove without a state file, after which the code
cannot keep the promises (see the known limits). A setting of the user that
cannot be read when it is captured ("read") goes into the record as the code
puts it there: an adapter as DHCP, also one that is gone since it was listed, a
proxy as off. `missed` names these adapters and those that came after the
capture, `unread` says it of the proxy; what the properties promise is the rest.
On macOS a target `user` is selected or not (`SelectUser`), and without one
disconnect leaves the firewall as it is; a look at what is in force may fail
("probe", `Looks`). `last` is "rebooted" when a connected macOS was started
again: nothing enables pf then, and the killswitch is in force if something
does. What the user had set up at the start is what he wants
back: he changes nothing himself.

### Page

`armed` and `pinned` are the host, `op` the operation that changes it (this
page's or somebody else's), `call` the requests in flight: status() reads the
rules in one step and the resolver in another, with no lock. A status reaches
`shown` from the stream, the poll, the first request or the button, in any
order. `held` travels inside a status and is history: were the rules in at the
instant the resolver was read.

### Helpers

Each behaviour is one session of a socket client (`ControlPort`, `Socks`, with
answers in pieces, cut off, of the wrong kind or absent) or one question to an
algorithm. What the two peers may answer is a constant: any set of answers that
keep to their protocol (`AnswersAssumption`: nothing follows the end line of a
reply; `SocksAssumption`: a granting answer is as long as its address says). What the answer is compared with is not the algorithm: the database
is built from the networks it is to hold and the documents from the values
they encode, so `LookupRight` checks reader against writer; `BlocksReplaced`
looks at the user's lines; `ActsOnlyWhenAllowed` is the rule of who may make
the daemon act, not the order of the gates.

## 3. Runs

Passing runs (`<run>.cfg` with the module `MC<component>`):

| Run | Question | Bounds |
|---|---|---|
| `LinuxFirewall_calls` | the inductive invariant; does a failed apply restore the chains, which packets of an armed user leave beside Tor, has he the page, does remove take everything, are others' rules untouched and in their order, does every call end | one user, TCP, UDP and other packets to the ports 53, 443, 9040 (TransPort) and 9053 (DNSPort), toggle on and off, chains of other programs with an order of their own (`TheirChains`), any 2 faults of five kinds, false checks among them, fairness |
| `LinuxFirewall_contract` | refinement of `Firewall`, a status that races a change is truthful | one user, 1 fault of four kinds, a concurrent status |
| `Daemon_session` | the inductive invariant, refinement of `Session`, the lock comes free | 2 threads, 2 users and "no user", both toggles, ten kinds of faults without a limit, fairness |
| `Daemon_rollback` | the inductive invariant with the parts that do without a kill; a failed first connect leaves nothing; no stale rules | 2 threads, 2 users, 2 port sets, six kinds of faults, "lock" among them so that the rollback has rules to remove, reboots, and kills between two calls of the firewall |
| `Daemon_command` | nobody stranded beside the commands and across crashes | 1 thread, 1 command, 2 users, IPv4 |
| `ResolvConf_daemon` | the inductive invariant; backup, truthful restore, flag | 3 leases or no file, all faults without a limit |
| `LogBus_delivery` | the inductive invariant; order, refinement of `LogFeed`, delivery, progress | 2 operations and a request, 1 page, a queue of 1, a ring of 2, 2 lines per operation, fairness |
| `Machine_session` | the inductive invariant; never locked out, a way back, enforced while connected, given back by disconnect and by a failed connect | Windows with 2 of its 3 profiles and macOS, 2 adapters of which one comes and goes, lock_resolv on and off, any 2 faults of refused netsh or pfctl, settings that cannot be read, full disk, failed unlink, missing Tor, closed registry key; failing looks, deaths and reboots without a limit |
| `Page_statuses` | the inductive invariant; what is shown as secured was; the page settles | 1 poll, 1 status in the stream, 2 operations or losses, 1 exit check; the rules, the pin, the way back and the first request may fail; fairness |
| `Helpers_answers` | replies in step, lookups, blocks, gates | replies of every form, in pieces; tables of up to 5 lines over the numbers 0 to 9; trees of networks of 1 to 3 bits at record sizes 24, 28, 32; sizes and pointers at the limits of their encodings, up to 2^31 - 1; nested documents with pointers, recursion limit 8; every text of up to 5 lines and marks; every combination of method, host, origin, token, body and path |

Why the bounds are enough: one user gives every order of the nine rules and
their leftovers; two faults reach a failed rollback over the leftovers of a
failed call, and a false check followed by a failure; that second copy is what
the loop of `_del` runs twice for in `CallsEnd`. The four ports are those the
rules name and one they do not: a rule tells no others apart. Two threads suffice for
App since the lock admits one operation and the other one is whoever may come
in. In `LogBus` the queue and the ring are shorter than the number of lines, so
they fill up, which is all that their sizes (256 and 500) mean; pages share
nothing but the emitter that waits for them. In `Machine` two faults reach a
teardown that fails after an apply that failed; two profiles and two adapters
let a loop stop before, between and after its turns (with the third profile,
which the loops treat like the others, and the allow rule for DHCP the instance
has five million states and holds too; `Machine_recapture` has all three). In `Page` two operations
give an answer of the first that arrives after the second, and a buffer of one
lets the stream lag behind the button. The trees of `Helpers` have nodes that
branch, end, and are empty on either side, which is all the reader tells apart;
numbers stop at 2^31 - 1 because TLC's integers do.

Type correctness is a conjunct of each inductive invariant and checked with it.

`MaxFaults` bounds the faults of `LinuxFirewall` and `Machine`, `MaxEvents` the
operations of `Page`, `MaxBuffer` and `MaxChecks` what is on its way to it; the
faults of `Daemon` and `ResolvConf` are not counted.

Deadlock is checked except in `LogBus`, whose emitters and pages are used once,
and in `Helpers`, whose sessions and questions come to an end.

Runs that show a property false, each with a finding in `PROJECT.json`:

| Run | What the code does |
|---|---|
| `Daemon_toggle` | turning `ipv6_killswitch` on while connected unfreezes the routing fields, and the old user can be stranded |
| `Machine_recapture` | when netsh cannot show the policy at the first connect, the state file records none, and the next connect captures our own block as the user's policy |

Fairness. `LinuxFirewall!FairWriterSpec` and `Daemon!FairSpec`: a thread inside an
operation goes on (threads are scheduled, subprocesses return); nobody has to
call anything, and no fault has to end. The start and the recovery go on too.
`LogBus!FairSpec`: emitters go on when they can, and the stream of a page that
reads goes on; taking the lock is weakly fair, which is enough because an
operation runs once. The liveness properties of `LogBus_delivery` are stated
for as long as every page reads and stays (`Heeded`): a page that stops reading
does hold up the operation that logs to it. `Page!Spec`: threads and callbacks
are scheduled, Tor bootstraps in the end and the check service answers or times
out; nobody has to click, and the network need not drop. `Machine` and
`Helpers` state no liveness.

What the passing runs leave out, and why:

- `Daemon_session` has no "note": disconnect then removes the rules under a
  pin, by design, and the note in the log is all the user gets. Nor does it
  combine "blind" with reboots: a recovery that cannot write the resolver gives
  up and serves. Both are in `DaemonInv!Alone`; "note" is in `Daemon_rollback`
  and "blind" in `Daemon_command`.
- `Daemon_rollback` has no "raise" (first of the known limits below), no
  "delete" and no "crash": after a kill inside the firewall or a refused delete
  rules may be left half removed, the killswitch reads as off, and the user or
  the ports may be changed over what is left. Nor has it "save" beside "stop":
  the daemon would come back with another configuration than the rules are of.
  These are `DaemonInv!Undoable` and `DaemonInv!Steady`.
- `Daemon_rollback` and `Daemon_command` have no "probe" (nor a missing
  ip6tables): a look at the rules that fails unfreezes user and ports, and
  `NoStaleRules` and `NoStrandedUser` fall with it (a known limit).
  `Daemon_session` has it, and what it checks holds with it.
- No run combines "save" with crashes and more than one user
  to be stranded: `Daemon_session` has both, and does not check
  `NoStrandedUser` (`DaemonInv!Recorded`, and the known limits).
- `Daemon_command` and `Daemon_rollback` keep the IPv6 toggle as it is (that is
  `Daemon_toggle`).
- `ResolvConf` has no file that cannot be read at all (an OSError, other than a
  missing one).
- `Page` ends an operation whose unlock_resolv raises, or whose removal fails,
  like one that could not do it (`Unpin`, `Disarm`): the page is told no more.
- `Machine_session` has no "show" (that is `Machine_recapture`), and no "list",
  "networksetup", "flush" or "stuck", whose outcomes are known limits below; the
  actions keep them as faults a configuration may add.

### Known limits of the code

Behaviours seen while modelling that no run is kept for.

The daemon on Linux:

- connect's handler has one `suppress` for all of its rollback (`app.py:384`):
  when unlock_resolv raises (a chattr that is missing or refuses), the rules
  stay, although the comment above it promises the host as it was found.
- A second connect that fails (Tor went down, say) un-pins the resolver of the
  session that runs (`app.py:385`): the handler restores without asking whether
  it was this call that pinned.
- A page that stops reading fills its queue, and `emit` blocks on it
  (`app.py:250`) under `_oplock`, so connect and disconnect wait for good;
  leaving does not wake the emitter.
- The backup of resolv.conf is written in place (`netcfg.py:142`), so a death
  during it leaves a cut-short resolver to restore; the module says "Every
  write is atomic" (`netcfg.py:9`). A full disk cuts it short as well, and the
  rollback of that very connect (unlock_resolv) then puts the torn backup into
  resolv.conf, although a failed connect is to leave the resolver as it was
  (the fault "full" of `ResolvConf`).
- update_config puts the configuration in force before it saves it
  (`app.py:479`). If the save fails, a user connected with it and the daemon is
  then killed, it comes back with the old configuration and leaves that user
  blocked.
- A look at the rules that fails reads as "not routing": an exception
  (`app.py:491`), a check that exits with an error (`engine.py:203`), or an
  ip6tables that is gone (`firewall.py:109-112`). update_config then changes
  user and ports under armed rules and strands the old user, which the comment
  at `app.py:456-458` says the freeze is there to prevent; recover_orphaned_dns
  un-pins a session whose rules are in.
- The rule that lets the redirected queries pass (`engine.py:139-144`) names no
  address: a datagram to the number of the DNSPort at any host passes it, and
  leaves beside Tor. `firewall.py:16` says that apply "must never return having
  armed a killswitch that still leaks". `ArmedFailsClosed` names these datagrams
  (`ToDnsPort`) and shows that they are the only ones.
- Without a resolv.conf at the lock there is nothing to capture
  (`netcfg.py:137`): the pin is written with no backup, and a restore leaves it,
  with a note. A backup that is not UTF-8 raises out of restore_resolv
  (`netcfg.py:205`; a UnicodeDecodeError is no OSError), so disconnect ends there
  with pin and rules in.
- `--disconnect` between `apply_rules` and `lock_resolv` of a daemon's connect
  (`__main__.py:107`) removes the rules, and the connect then pins the resolver
  with none behind it; `--restore-dns` (`__main__.py:96`) between the capture
  and the write of the pin drops the backup just captured. The commands have no
  lock in common with the daemon.
- When the DROP cannot be deleted, `remove_list` (`engine.py:246`) goes on and
  takes the loopback ACCEPT before it, so the user loses the page.
- A status that spans a disconnect, a change of the TransPort and a connect
  reads the rules one by one (`engine.py:252`) and can report as armed a mix of
  two rulesets, neither of which was whole while it read.
- A lease that replaces a pin which could not be made immutable is overwritten
  by the older backup on disconnect (`netcfg.py:205`).
- A lease between the write of the pin and `chattr +i` (`netcfg.py:176`) makes
  the client's own resolver immutable while lock_resolv reports a pin.

Windows:

- The proxy is set last (`winfw.py:219`): when the registry key cannot be
  opened, apply raises with outbound blocked and the rules in. The record is
  kept, so the next disconnect goes back; nothing does before.
- A second refusal inside `_teardown` leaves a profile blocked and still deletes
  the allow rules and the record.
- remove without a state file falls back to a policy of its own for inbound,
  and turns off a proxy that was the user's.
- The proxy that cannot be read when it is captured (`winfw.py:331`), and the
  adapter whose setting cannot be, or that has gone since it was listed
  (`dns.py:257`), are recorded as disabled and as DHCP. Every later restore puts
  that back, so a static resolver is lost; the failed connect of an untouched
  machine does it too.
- A state file that cannot be deleted is taken for the record of the next
  session, however old. WindowsDns keeps its state when a captured adapter is
  gone, and an adapter that came after the capture is never given back.

macOS:

- apply writes the anchor file and the hook before it loads them (`pf.py:218`);
  when the load fails they stay, and the next reload or reboot arms a
  killswitch nobody is connected by, until a disconnect empties the file. Inside
  a session, a second connect whose reload fails flushes the anchor of the
  session that runs.
- A failure to empty the anchor file is swallowed and the flush of the anchor is
  not looked at, so remove may report success over rules in force.
- Nothing enables pf at the start of the machine: after a reboot the hook and the
  anchor load, but the killswitch of a session is in force only if pf is enabled
  by something else.
- disconnect without a target user (`app.py:402`) leaves the firewall as it is
  and answers all the same; a user can be deselected while connected after a
  look that failed.
- A service whose setting cannot be read (`dns.py:138`) is recorded as DHCP, as
  on Windows.
- The SOCKS proxy the user had is not recorded. `pf_anchor` is not among the
  fields frozen while connected (`app.py:459`).
- MacDns looks at no exit status: lock reports a pin and restore a way back that
  were refused, and restore drops the record. A listing that fails once writes
  an empty record, and a later lock pins what was never captured. is_pinned is
  false while only some services are pinned.
- `unwire_pf_conf` is called an exact inverse (`pf.py:139`); a file that did not
  end in a newline keeps the one that was added. `wire_pf_conf` strips only the
  first of several stale blocks (`pf.py:131`), and the others stay active.

Page and helpers:

- An exit check that began before a disconnect may be answered after it, and
  overwrites the reading (`app.js:223`). One that failed counts as a reading and
  is not tried again (`app.js:158`).
- While Tor bootstraps and the rules are not in, the button says "Cancel" and
  sends connect (`app.js:120`).
- ControlError is no OSError, so a refused authentication passes the `except
  OSError` of control_bootstrap (`app.py:100`): status raises, a connect that
  succeeded answers with an error, and the event stream ends. A connection whose
  authentication fails is not closed (`torctl.py:50`).
- `merge_torrc` and `unwire_pf_conf` drop everything after a begin mark that has
  no end (`netcfg.py:65-66`, `85-86`), also lines of the user's; `netcfg.py:5`
  says that "text outside the markers is preserved verbatim". `Own` counts what
  is behind such a mark as the block's.

## 4. Proofs

TLC checks a small instance; the theorems below hold for every value of the
constants: any number of threads, users, configurations, profiles, adapters,
pages, lines and faults. Each module assumes what its `...Assumption` says of its
constants (that sets which stand for different things are disjoint, that bounds are numbers, that
other programs have no rules about the users routed through Tor) and TLC
evaluates these assumptions in every run. What a theorem assumes beyond that is in
its statement, and each such hypothesis is the exclusion of something the code
does not notice or does not undo, named below or in the known limits.

Every safety theorem follows one argument: the properties are not inductive as
they stand, so each module has an inductive invariant `IInv`, conjunction of
named parts; TLC checks it in a run; the proof has one lemma per action (or per
family of actions that touch the same variables), and under it one step per part
the action can disturb; `Invariant` combines them, and each property follows
from the parts it needs.

### Daemon (`Daemon_proofs`)

| Theorem | States | Hypothesis |
|---|---|---|
| `Invariant` | `IInv`: each part below under its hypothesis | none |
| `TypeCorrect` | `TypeOK` | none |
| `PinnedArmed` | `PinnedOnlyWhileArmed` | `Alone` |
| `Refinement` | `ImplementsSession` | `Alone` |
| `FirstFailureLeavesNothing` | `FailedFirstConnectLeavesNothing` | `Undoable` |
| `NothingStale` | `NoStaleRules` | `Steady` |
| `NobodyStranded` | `NoStrandedUser` | `Recorded` |

`Frame` is the part that holds of every daemon, beside any commands and under
every fault: who holds the lock, that a process inside the firewall is where its
operation calls it, that its lists are rules of the configuration it uses, and
that this is the configuration in force. The other four parts stand on it.

*Alone* (no one-shot command, a resolver that can be written back or a call that
raises, and a recovery after a reboot that can write it). "Pinned implies
armed" is not inductive. A thread deleting rules has to be kept from a pinned
host, so `UnpinIsFirst` says that whoever is about to remove rules has a
resolver that is the user's own, and `LockIsHeld` that nobody else can pin it
meanwhile. The rollback inside a *second* apply runs with the resolver pinned;
what saves the first session is that apply only takes back what it added, so
`PinIsGuarded` names a configuration whose two rules are in no undo list and
not about to be remembered as new (`Spares`). A pin is written by a connect
whose apply has returned, so `ApplyInstalls` follows the list through the loop
and `PinIsLast` hands it to the pin. After a reboot the rules are gone and the
daemon is not serving, which is the other half of `PinIsGuarded`;
`RecoverChecks` ends it. `Refinement` maps each step: only `Ensure` can arm,
only `Pin` can pin, only `Delete` and `Reboot` can disarm, and the invariant
says the resolver is then the user's own, or the daemon down.

*Undoable* (no one-shot command, every rule can be deleted, and unlock_resolv
reports a failure instead of raising it; crashes, reboots, refused appends and
pins are all allowed). A failed connect says nothing about the way there, so
`TracesOwnSteps` follows a connect of an untouched host from its first step:
what is installed is in its own list of additions while it applies, in the undo
list during the rollback inside apply, in the rules of its configuration once
apply has returned, and in the removal list while connect's handler removes.
With a command beside it, a rule could vanish between apply's look and its
append and would not be remembered; with "raise" the handler skips the removal.

*Steady* (also: the daemon is killed only while no thread is inside the
firewall, and never if its configuration may fail to be saved; the IPv6
killswitch is the same in every configuration; the look at the rules does not
fail; unlock_resolv may raise). Between two calls of the firewall
there are no rules or exactly those of the configuration in force (`Whole`).
Then `update_config` is safe: rules that are all in read as an armed
killswitch, and user and ports are frozen. Inside a call, `Settles` says how far
it is from one of the two states to the other; a second connect adds nothing
and takes nothing back (`Again`). A daemon that comes back reads its
configuration from the file, which, while rules are in, routes the same users to
the same ports (`FileRoutes`). Killed half way inside a call, the daemon leaves half of the rules,
which read as "not armed" (known limits; `Daemon_toggle` for the toggle).

*Recorded* (IPv4 rules only; the look at the rules does not fail; not both a configuration that cannot be saved and a
kill before it is). Commands, kills, reboots and refused deletions are all
allowed, so rules may be left in any number; what remains true is that each
DROP is the configured user's, and that the configuration file names that user
whenever a kill could make it count (`FileNamesUser`).

### Linux firewall (`LinuxFirewall_proofs`)

| Theorem | States | Hypothesis |
|---|---|---|
| `Invariant`, `TypeCorrect` | `IInv`, `TypeOK` | none |
| `FailedApply` | `FailedApplyRestores` | none |
| `KeepsEarlier` | `ApplyKeepsEarlierRules` | none |
| `ForeignKept` | `ForeignRulesUntouched` | none |
| `RemoveComplete` | `RemoveTakesEverything` | none |
| `FailsClosed` | `ArmedFailsClosed` | none |
| `PageReachable` | `GuiReachable` | `OnePortSet` |
| `Reads`, `KillswitchTrue` | `ReadInOrder`; a reported killswitch was on | none |
| `StatusTrue` | `StatusTruthful` | `OneRuleset` |
| `EngineImplementsFirewall` | `ImplementsFirewall` | no check gives a false answer |
| `WithoutReader` | the specification of `LinuxFirewall_calls` is a part of `Spec` | none |

"A failed apply restores the chains" compares sequences at two instants far
apart. `Grown` says what they look like in between: beyond what a chain held
before the call lies a stack of the rules this call has added, in the order of
its list, so that the rollback, newest first, always takes the last rule of a
chain; `-D` takes the first rule that matches, and `OnlyItsOwn` says there is no
other. `ApplyInstalls` and `RemoveClears` say what is behind a call in its list.
`LoopbackFirst` keeps the rules that let the page through ahead of those that
would take it away.

`FailsClosed` is about packets. Whatever order the rules of a user have come
into after failed calls, the verdict on a packet that leaves the machine is a
drop, because each accepting rule of the list matches only loopback or a port
that `REDIRECT` has put there, with one exception: rule 6 accepts a datagram to
the number of the DNSPort wherever it goes. `ToDnsPort` is that exception, part
of the property (the DNSPort of the configuration in force or of an earlier one
of the same user), and the theorem says that there is no other, for every set of
ports. The rules of IPv6 have none.
`OnePortSet` says that the configurations of a user have the same TransPort,
which `update_config` enforces while he is connected. A check that reads "absent" for a rule that is there
makes apply add a rule twice and remember it as new, which the contract,
being about sets, does not have; hence the hypothesis of
`EngineImplementsFirewall`. Its proof says of each invocation which step of the
contract it is: the first look is `Probe`, the append or the second look that
finds the rule is `Ensure`, an invocation that finds the rule gone is `Delete`,
every other one is invisible.

`StatusTrue` is about two actors that go through the same list: the status looks
at the rules one by one while the writer adds and removes them. `ReadInOrder`
says that a verdict that still stands and has not been true since the request
began has a missing rule ahead of the reader. A delete and a reboot only add to
what is missing; an append takes the last missing rule away only when it
completes the ruleset, because apply adds in the order in which the status
reads (`SamePlace`), and at that instant the verdict is true. `OneRuleset` says
that the configurations of a user have the same ports. TLC violates
`StatusTruthful` without it: a status that spans a disconnect, a change of the
TransPort and a connect can take the redirect of the old port and the DROP of
the new session for one ruleset. The verdict on the killswitch stands on the
DROPs alone, which name no port, and needs no hypothesis (`KillswitchTrue`).
`ReadInOrder` is in no run of its own; its consequence is checked in
`LinuxFirewall_contract`.

### Resolver pin, log bus, page

| Theorem | States |
|---|---|
| `ResolvConf_proofs`: `Invariant`, `TypeCorrect`, `BackupKept`, `RestoreTruthful`, `FlagOnPin` | `IInv`, `TypeOK`, `PinnedHasBackup`, `RestoreUnpins`, `OnlyThePinIsImmutable` |
| `LogBus_proofs`: `Invariant`, `Ordered`, `Once`, `Refinement` | `IInv`, `LinesInOrder`, no line twice on its way to a page, `ImplementsFeed` |
| `Page_proofs`: `Invariant`, `TypeCorrect`, `RoutedTrue` | `IInv`, `TypeOK`, `RoutedWasTrue` |

None has a hypothesis.

- `ResolvConf`: what is captured is never the pin, the pin is written only when
  the backup is there (or there was no file to capture, `bare`), and the backup goes only after it was put back. The
  parts say so for each place a crash can strike.
- `LogBus`: a page gets a line from the ring or from its queue. The two could
  hold the same line if the snapshot of the ring were taken after it and the
  subscription before; the invariant says that what lies on the way of a page
  (sent, in hand, in the replay, in the queue) is in the order of logging and
  holds no line some emitter has still to put there. An emitter counts its lines
  down, so "in order" makes them distinct. `Refinement` maps each step to one of
  the stream: an append to the ring makes the line due to every page that
  follows (`Log`), a put into a queue adds it to the page's stream (`Deliver`),
  a write is the receipt of the next line (`Receive`); taking a record out of
  the replay or the queue moves nothing. A line
  carries its emitter, so one put takes exactly one line out of what is due.
- `Page`: `pinned` implies `armed`, or a resolver that could not be given back;
  this holds through the list of steps an operation has still to take, each of which names
  what it needs. Every status on its way to the page was then true at
  the instant its resolver was read, and no order of arrival can make it false.

### Windows and macOS (`Machine_proofs`)

| Theorem | States | Hypotheses |
|---|---|---|
| `Invariant` | `IInv` | none |
| `Enforced` | `EnforcedWhileConnected` | none |
| `LockedOut` | `NeverLockedOut` | `PolicyIsRead` |
| `RecordKept` | `WayBack` | `PolicyIsRead`, `AdaptersAreRead` |
| `GivesBack` | `DisconnectGivesBack` | `PolicyIsRead`, `AdaptersAreRead`, `AnchorEmpties` |
| `FirstFailure` | `FailedFirstConnectGivesBack` | `PolicyIsRead`, `AdaptersAreRead` |

`PolicyIsRead`: netsh shows the policy when it is asked (`Machine_recapture` is
what happens when it does not). `AdaptersAreRead`: the adapters are listed, and
networksetup, whose exit status MacDns does not look at, obeys; an adapter of the
list that cannot be read is in `missed`, and needs no hypothesis.
`Enforced` says of macOS after a reboot what is left to say: all of the
killswitch but pf itself (`Hooked`) is as it was. `AnchorEmpties`:
the anchor and its file can be emptied, which `pf.py` does not look at either.
Each loop over profiles, adapters and allow rules has a part that says what is
behind it: blocked, allowed, captured or given back (`BlockedBehind`,
`AllowedFirst`, `RestoredBehind`, `RecordFits`, `AdaptersDone`); `Recorded` and
`Remembered` say that whatever is ours in the machine is on record with what
the user had, as far as it could be read.

### Tor's two ports, the server's gates and the managed blocks (`Helpers_proofs`)

| Theorem | States |
|---|---|
| `Invariant` | `IInv` of `Helpers_proofs` |
| `InStep` | `RepliesInStep` |
| `OnlyWhenAllowed` | `ActsOnlyWhenAllowed` |
| `Blocks` | `BlocksReplaced` |

The hypotheses are the two protocols and, for the blocks, that a file is a
sequence of pieces and that an anchor is not named like a marker
(`FilesAreTexts`; a marker is a comment line of its own, and the anchor is
called `torando-gui` unless the configuration file says otherwise).

Both clients read one stream from its front, and neither property is inductive:
whether a line is the end of a reply depends on all the lines before it, and
whether a byte belongs to the tunnel on bytes that were dropped long ago.
`Follows` ties a client to the stream: what it holds and what is still on the
wire is the stream from a place on, as far as the peer has sent it; receiving,
using and breaking off keep it (`Arrives`, `IsUsed`, `BreaksOff`). For
TorControl that place is behind a whole number n of lines (`Midway`): what it
has collected is what those lines say, and `data` is whether line n + 1 lies in
a block of data, which `DataStep` computes from line to line. So the line it takes for
the end is the end, nothing is left of the answer when the next command goes
out, and that answer is read from its own first line. For socks5_connect the
place is counted from the end of the answer (`SocksOK`): `need` bytes are
missing, and it never asks for more. The runs have answers of at most four
lines and four lengths of address; the theorem has every one.

The texts of `Blocks` are any: several blocks, one inside another, one cut
short, marks that stand alone; only a mark whose halves lie on both sides of a
block, which cutting it out would join, is not among them. `Own`, what is the user's, is read piece by
piece (`OwnStep`), and behind a text in which every block is closed the rest
can be read alone (`OwnJoin`). So cutting one block out changes nothing of it
(`StripOne`), and a block of ours adds nothing to it wherever it stands
(`BlockIsOurs`). `_strip_managed_blocks` takes away a begin each time and so
ends with none (`StripAll`, by induction over the blocks left). Then
merge_torrc writes a front A, the block and a rest C, where A and C depend only
on the file and hold no marker to begin with (`Merged`): there is one block,
and writing another configuration finds the same A and C (`BlockBehind`). Of
pf.conf the proof counts the begins: taking a block out never adds one
(`CountBegins`, `UnwireFewer`), and where there is at most one the hook that is
written is the only one (`WiresOnce`).

### What stays with TLC

- The liveness properties, which need fairness and ENABLED: `CallsEnd`,
  `LockComesFree`, `SubscribersGetEveryLine`, `OperationsEndWhenHeeded`,
  `PageSettles`.
- `LookupRight`. It compares what the readers of `GeoData` compute with what the
  writers of the databases put there: byte arithmetic with powers of 256, trees
  of any depth, documents inside documents, a sorted table. It takes induction
  over data, and folds, which the provers do not look into.
- The daemon beside a one-shot command, except for `NobodyStranded`: the
  commands take no lock, and the known limits say what happens.

## 5. Not modelled

- The service control of Tor (`services.py`): calls of the init system of the
  day; `Daemon` knows that Tor may come up or go down at any time.
- `config.py` beyond the saved value and its atomic write, and the HTTP of the
  exit check (`netcheck.py`), which is one request through the tunnel of
  `Socks`; in `Page` its answer comes at any time.
- pf on the BSDs, the rules inside the anchor, the anchor's name as a field of
  the configuration, and which network services carry the SOCKS proxy.
- Of the page, the settings, the user menu, the map and the console.
- Of status(), the state of the Tor service and the circuits.
- iptables vanishing in the middle of a call (an exception other than
  EngineError): App checks that it is there first.
- A resolv.conf that is a symbolic link, and the mode bits of the files.
- Strings, numbers and the metadata marker of MaxMind databases, and IPv4
  addresses beyond 2^31 - 1.
- Platform detection, MockBackend, the desktop shell, packaging: no state, or
  none the daemon shares.

## 6. Plan

The models planned are done: the daemon on Linux with its backends, the
machine-wide backends of Windows and macOS, the page, and the pure algorithms;
every safety property but `LookupRight` is proved, and every
implementation of an abstract module. What remains open:

1. `LookupRight` for every database: the reader against the writer, by
   induction over trees and documents.
2. `NothingStale` for a daemon killed inside the firewall, which needs the code
   to tell half of a ruleset from none.
