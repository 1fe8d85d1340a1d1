----------------------------- MODULE Services -----------------------------
(***************************************************************************)
(* The remote console service (kernel/service.c) with what it depends on:  *)
(* the configuration file in ARFS, the listening endpoint of the IPv4      *)
(* stack, the event log, and the boot sequence that ties them together     *)
(* (arch/x86_64/boot/entry.c).  Sector writes and reads can fail, and      *)
(* power can be lost while the configuration is being saved.               *)
(***************************************************************************)
EXTENDS Config, EventLog

CONSTANTS
    Keys,          \* keys typed at the prompt, acceptable or not
    OtherTexts,    \* what an owner may `write' over the file by hand
    MaxErrors,     \* device errors in one behaviour
    MaxLosses,     \* losses of power in one behaviour
    MaxEvents      \* events recorded after one boot

VARIABLES
    disk,      \* the physical disk
    fs,        \* the mounted ARFS (config->filesystem)
    config,    \* struct arwill_config
    net,       \* endpoint 0 of the IPv4 stack: ready, bound port, listening
    service,   \* remote_console_state
    log,       \* the event ring
    promised,  \* the settings a load may find in the file
    errors, losses

vars == <<disk, fs, config, net, service, log, promised, errors, losses>>

(***************************************************************************)
(* Service operations, as a record of what they change.                    *)
(***************************************************************************)
\* An endpoint that is bound stays bound: another port is refused.
arwill_ipv4_tcp_listen(n, port) == n.bound \in {<<>>, port}

start_remote_console(c, n, l, code) ==
    IF c.valid /\ arwill_ipv4_tcp_listen(n, c.settings.port)
        THEN [service |-> "running",
              net |-> [n EXCEPT !.bound = c.settings.port, !.listening = TRUE],
              log |-> arwill_event_log_record(l, <<"info", code>>)]
        ELSE [service |-> "failed", net |-> n,
              log |-> arwill_event_log_record(l, <<"error", code>>)]

StoppedService(n, l) ==
    [service |-> "stopped", net |-> [n EXCEPT !.listening = FALSE],
     log |-> arwill_event_log_record(l, <<"info", "service stopped">>)]

arwill_service_manager_init(c, n, l) ==
    IF ~n.ready THEN [service |-> "unavailable", net |-> n, log |-> l]
    ELSE IF c.valid /\ c.settings.enabled
        THEN start_remote_console(c, n, l, "service started")
    ELSE StoppedService(n, l)

Adopt(s) == service' = s.service /\ net' = s.net /\ log' = s.log

(***************************************************************************)
(* Boot: mount, fresh log, load the configuration, bring up the network on *)
(* the configured port, then the service.  With no filesystem the load     *)
(* finds no file.                                                          *)
(***************************************************************************)
arwill_ipv4_init(ready, port) ==
    [ready |-> ready, bound |-> IF ready THEN port ELSE <<>>, listening |-> ready]

Booted(c, ready) ==
    LET started == arwill_event_log_record(arwill_event_log_init, <<"info", "boot">>)
        loaded == arwill_event_log_record(started,
                    IF c.valid THEN <<"info", "config loaded">> ELSE <<"error", "config error">>)
    IN  arwill_service_manager_init(c, arwill_ipv4_init(ready, c.settings.port), loaded)

\* A boot without device errors.
Boot(d) ==
    LET m == MountView(d)
        loaded == CHOOSE r \in arwill_config_load(m, d) : ~r.fault
    IN  fs' = m /\ config' = loaded.config /\ Adopt(Booted(loaded.config, net.ready))

\* One where the mount or the load meets one.
FaultyBoot(d) ==
    \E m \in arwill_arfs_mount(d) : \E r \in arwill_config_load(m, d) :
        /\ r.fault \/ m # MountView(d)
        /\ fs' = m /\ config' = r.config /\ Adopt(Booted(r.config, net.ready))

ShippedSettings == Settings(TRUE, DefaultPort, <<>>)

\* The disk image, with the file that create_test_disk.sh puts there.
OwnerDirectory ==
    [kind |-> "directory", path |-> Front(ConfigPath), type |-> "binary",
     lba |-> 0, size |-> 0]

ShippedDisk ==
    LET entries == <<OwnerDirectory,
                     [kind |-> "file", path |-> ConfigPath, type |-> "text",
                      lba |-> DataLba, size |-> Len(ConfigText(ShippedSettings))]>>
    IN  [s \in 0..DiskSectors - 1 |->
            LET lba == s - RegionFirst
            IN  IF lba = SuperblockLba THEN Superblock
                ELSE IF lba \in ManifestLba .. ManifestLba + ManifestSectors - 1
                    THEN ManifestImage(ManifestText(entries))[lba - ManifestLba + 1]
                ELSE IF lba = DataLba THEN WriteImage(ConfigText(ShippedSettings))[1]
                ELSE [u \in 1..SectorSize |-> Nul]]

Init ==
    /\ disk = ShippedDisk
    /\ fs = MountView(disk)
    /\ config = Configured(ShippedSettings)
    /\ \E ready \in BOOLEAN :
        LET s == Booted(config, ready)
        IN  service = s.service /\ net = s.net /\ log = s.log
    /\ promised = {config}
    /\ errors = MaxErrors
    /\ losses = MaxLosses

(***************************************************************************)
(* Saving something in the file: `after' is what a load may find then.  An *)
(* attempt that failed or was cut short may have replaced the text but not *)
(* the length the manifest gives it.                                       *)
(***************************************************************************)
Disturbed(after, o) ==
    IF o.ok THEN after ELSE IF o.disk = disk THEN promised
    ELSE promised \cup after \cup {Malformed}

Room == Recorded(log) < MaxEvents

Save(outcomes, after, event) ==
    \/ \E r \in outcomes :
        /\ errors > 0 \/ ~r.o.fault
        /\ errors' = IF r.o.fault THEN errors - 1 ELSE errors
        /\ disk' = r.o.disk
        /\ fs' = [fs EXCEPT !.entries = r.o.entries]
        /\ config' = r.config
        /\ log' = IF r.o.ok /\ event # "" THEN arwill_event_log_record(log, <<"info", event>>) ELSE log
        /\ promised' = Disturbed(after, r.o)
        /\ UNCHANGED <<net, service, losses>>
    \/ \E o \in {[ok |-> FALSE, disk |-> r.o.disk] : r \in outcomes} :
        /\ losses > 0
        /\ losses' = losses - 1
        /\ disk' = o.disk
        /\ promised' = Disturbed(after, o)
        /\ Boot(o.disk)
        /\ UNCHANGED errors

ConfigureValue(key, value) ==
    /\ Room
    /\ LET outcomes == arwill_config_set(config, fs, disk, key, value)
       IN  Save(outcomes, {r.config : r \in {x \in outcomes : x.o.ok}}, "config changed")

SetRemoteKey(key) ==
    /\ Room
    /\ LET outcomes == arwill_config_set_remote_key(config, fs, disk, key)
       IN  Save(outcomes, {r.config : r \in {x \in outcomes : x.o.ok}}, "config changed")

\* The owner replaces or removes the file with the shell's file commands.
ByHand(outcomes) == {[o |-> o, config |-> config] : o \in outcomes}

WriteByHand(text) ==
    /\ fs.mounted
    /\ Save(ByHand(arfs_write_bytes(disk, fs.entries, ConfigPath, "text", text)),
            {Malformed}, "")

RemoveByHand ==
    /\ fs.mounted
    /\ Save(ByHand(arfs_remove(disk, fs.entries, ConfigPath)), {set_defaults}, "")

(***************************************************************************)
(* The `service' command.                                                  *)
(***************************************************************************)
ServiceStart ==
    /\ Room
    /\ service \notin {"running", "unavailable"}
    /\ Adopt(start_remote_console(config, net, log, "service started"))
    /\ UNCHANGED <<disk, fs, config, promised, errors, losses>>

ServiceStop ==
    /\ Room
    /\ service \notin {"stopped", "unavailable"}
    /\ Adopt(StoppedService(net, log))
    /\ UNCHANGED <<disk, fs, config, promised, errors, losses>>

\* Wrong variant, for the mutation runs: a failed load does not stop
\* the start.
arwill_service_remote_console_restart_unchecked(r, n, l) ==
    start_remote_console([r.config EXCEPT !.valid = TRUE], [n EXCEPT !.listening = FALSE], l,
                         "service restarted")

\* Stop, reload, start; a file that does not load leaves the service failed.
arwill_service_remote_console_restart(r, n, l) ==
    LET down == [n EXCEPT !.listening = FALSE]
    IN  IF r.ok THEN start_remote_console(r.config, down, l, "service restarted")
        ELSE [service |-> "failed", net |-> down,
              log |-> arwill_event_log_record(l, <<"error", "service restarted">>)]

ServiceRestart ==
    /\ Room
    /\ service # "unavailable"
    /\ \E r \in arwill_config_load(fs, disk) :
        /\ errors > 0 \/ ~r.fault
        /\ errors' = IF r.fault THEN errors - 1 ELSE errors
        /\ config' = r.config
        /\ Adopt(arwill_service_remote_console_restart(r, net, log))
    /\ UNCHANGED <<disk, fs, promised, losses>>

\* Power is lost while nothing is being saved.
Reboot ==
    /\ losses > 0
    /\ losses' = losses - 1
    /\ \/ Boot(disk) /\ UNCHANGED errors
       \/ errors > 0 /\ errors' = errors - 1 /\ FaultyBoot(disk)
    /\ UNCHANGED <<disk, promised>>

Next ==
    \/ \E b \in BOOLEAN : ConfigureValue("remote.enabled", b)
    \/ \E p \in PortTexts \cup {<<>>} : ConfigureValue("remote.port", p)
    \/ \E level \in {"info", "debug"} : ConfigureValue("log.level", level)
    \/ \E k \in Keys : SetRemoteKey(k)
    \/ \E t \in OtherTexts : WriteByHand(t)
    \/ RemoveByHand
    \/ ServiceStart
    \/ ServiceStop
    \/ ServiceRestart
    \/ Reboot

Spec == Init /\ [][Next]_vars

-----------------------------------------------------------------------------
TypeOK ==
    /\ fs.mounted \in BOOLEAN
    /\ config.settings.enabled \in BOOLEAN
    /\ config.settings.port \in PortTexts
    /\ copy_remote_key(config.settings.key)
    /\ net.bound \in PortTexts \cup {<<>>}
    /\ service \in {"stopped", "running", "failed", "unavailable"}
    /\ log.count \in 0..LogCapacity /\ log.head \in 0..LogCapacity - 1
    /\ errors \in 0..MaxErrors /\ losses \in 0..MaxLosses

\* Loading the file again, now through the table in memory (service restart)
\* or after a loss of power, gives the settings that were last reported
\* saved.  If a save failed or was cut short since, it may instead give the
\* settings of that save, or reject the file; it never gives a mixture.
LoadFindsPromised ==
    \A view \in {MountView(disk)} \cup (IF fs.mounted THEN {fs} ELSE {}) :
        \A r \in arwill_config_load(view, disk) : r.fault \/ r.config \in promised

\* The service says "running" exactly when endpoint 0 listens, and a
\* malformed file keeps it down (ADR-0045), through boot, start, stop, failed
\* restarts and settings changed in between.
ServiceMatchesListener ==
    /\ TypeOK
    /\ (service = "running") <=> net.listening
    /\ service = "running" => config.valid

\* `logs' prints the newest events, oldest first, each once, and counts the
\* ones it lost: print_logs over the ring that arwill_event_log_record wraps.
LogKeepsNewest ==
    LET printed == print_logs(log)
        total == Recorded(log)
    IN  /\ log.overwritten > 0 => log.count = LogCapacity
        /\ \A i \in DOMAIN printed : printed[i].time = total - log.count + i

\* README.md: "Restart the service after changing its port or key."  After a
\* restart that loaded the file, the service runs on the port it names.
RestartAppliesPort ==
    [][ServiceRestart /\ config'.valid =>
        net'.listening /\ net'.bound = config'.settings.port]_vars
=============================================================================
