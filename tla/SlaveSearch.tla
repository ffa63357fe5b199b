------------------------------ MODULE SlaveSearch ------------------------------
(***************************************************************************)
(* find_slave_ and what it does to the driver's parameters: the sensor is  *)
(* looked for on the bus at every activation, slave by slave, while slaves *)
(* may be plugged and unplugged; the alias and position of the one found   *)
(* replace the configured ones for the life of the driver object, and are  *)
(* what the slave configuration is asked for.                              *)
(*                                                                         *)
(* The bus is external.  A call for a slave fails when it is gone, or for  *)
(* any other reason; the information of the slave at a position of the     *)
(* ring has that position in it.                                           *)
(***************************************************************************)
EXTENDS Integers, Sequences

CONSTANTS
    Aliases,         \* the aliases slaves have, 0 for none
    MaxSlaves,       \* bound: the slaves on the bus
    AliasIsRelative  \* external: whether ecrt_master_slave_config counts a
                     \* position from the slave with the alias, if it is not 0

ASSUME SearchAssumption ==
    /\ Aliases \subseteq Nat /\ 0 \in Aliases
    /\ MaxSlaves \in Nat
    /\ AliasIsRelative \in BOOLEAN

VARIABLES
    bus,     \* external: the slaves of the ring, from position 0
    wanted,  \* the alias and position of the hardware description
    slave,   \* parameters_.slave: the alias and position looked for
    pc,      \* "idle", "search", "found" or "active"
    count,   \* master_info_.slave_count
    next,    \* the position the loop has come to
    pinned,  \* history: this driver object has found its slave before
    steady   \* history: in this activation every call for a slave succeeded
             \* and the bus stayed as it was

vars == <<bus, wanted, slave, pc, count, next, pinned, steady>>

Slaves == [axia : BOOLEAN, alias : Aliases]
Buses == UNION {[1 .. n -> Slaves] : n \in 0 .. MaxSlaves}
Places == [alias : Aliases, position : Nat]

TypeOK ==
    /\ bus \in Buses
    /\ wanted \in Places /\ slave \in Places
    /\ pc \in {"idle", "search", "found", "active"}
    /\ count \in 0 .. MaxSlaves /\ next \in 0 .. MaxSlaves
    /\ pinned \in BOOLEAN /\ steady \in BOOLEAN

\* The slave at a position of the ring.
On(b, i) == i < Len(b)
At(b, i) == b[i + 1]

Init ==
    /\ bus \in Buses
    /\ wanted \in [alias : Aliases, position : 0 .. MaxSlaves]
    /\ slave = wanted
    /\ pc = "idle" /\ count = 0 /\ next = 0
    /\ pinned = FALSE /\ steady = TRUE

Plug ==
    /\ bus' \in Buses \ {bus}
    /\ steady' = FALSE
    /\ UNCHANGED <<wanted, slave, pc, count, next, pinned>>

\* request_master_: the slaves are counted once.
Request ==
    /\ pc = "idle"
    /\ pc' = "search" /\ next' = 0
    /\ count' = Len(bus)
    /\ steady' = TRUE
    /\ UNCHANGED <<bus, wanted, slave, pinned>>

\* Mutant: a slave with no alias matches any alias looked for.
MatchesLoosely(p, s, i) ==
    s.axia /\ (p.alias = 0 \/ s.alias = 0 \/ s.alias = p.alias) /\ p.position = i

Matches(p, s, i) ==
    s.axia /\ (p.alias = 0 \/ s.alias = p.alias) /\ p.position = i

\* A slave that is gone, or whose information cannot be had, is passed over.
SkipSlave ==
    /\ pc = "search" /\ next < count
    /\ next' = next + 1
    /\ steady' = FALSE
    /\ UNCHANGED <<bus, wanted, slave, pc, count, pinned>>

PassSlave ==
    /\ pc = "search" /\ next < count
    /\ On(bus, next) /\ ~Matches(slave, At(bus, next), next)
    /\ next' = next + 1
    /\ UNCHANGED <<bus, wanted, slave, pc, count, pinned, steady>>

\* The parameters become those of the slave found.
Find ==
    /\ pc = "search" /\ next < count
    /\ On(bus, next) /\ Matches(slave, At(bus, next), next)
    /\ slave' = [alias |-> At(bus, next).alias, position |-> next]
    /\ pinned' = TRUE
    /\ pc' = "found"
    /\ UNCHANGED <<bus, wanted, count, next, steady>>

\* Mutant: the loop ends one slave too early.
MissEarly ==
    /\ pc = "search" /\ next + 1 >= count
    /\ pc' = "idle"
    /\ UNCHANGED <<bus, wanted, slave, count, next, pinned, steady>>

\* The search throws: the activation fails.
Miss ==
    /\ pc = "search" /\ next = count
    /\ pc' = "idle"
    /\ UNCHANGED <<bus, wanted, slave, count, next, pinned, steady>>

\* The rest of the activation.
Configure ==
    /\ pc = "found"
    /\ pc' = "active"
    /\ UNCHANGED <<bus, wanted, slave, count, next, pinned, steady>>

\* Shutdown, at the end of a session or of an activation that failed later.
Shutdown ==
    /\ pc \in {"found", "active"}
    /\ pc' = "idle"
    /\ UNCHANGED <<bus, wanted, slave, count, next, pinned, steady>>

\* on_configure makes a new driver from the parameters of the plugin.
NewDriver ==
    /\ pc = "idle"
    /\ slave' = wanted
    /\ pinned' = FALSE
    /\ UNCHANGED <<bus, wanted, pc, count, next, steady>>

Next ==
    \/ Plug \/ Request \/ SkipSlave \/ PassSlave \/ Find \/ Miss
    \/ Configure \/ Shutdown \/ NewDriver

Spec == Init /\ [][Next]_vars

----------------------------------------------------------------------------
(* Properties. *)

\* What the driver looks for is what is configured, or a slave it found that is.
SlaveIsWanted ==
    /\ slave.position = wanted.position
    /\ wanted.alias # 0 => slave.alias = wanted.alias
    /\ ~pinned => slave = wanted

\* A driver object that has found its sensor finds it again, or one with the same
\* alias, or none: never another one that the hardware description would allow.
SameSlaveAgain ==
    [][Find /\ pinned /\ slave.alias # 0 => slave' = slave]_vars

\* A search over a bus that did not change misses the configured sensor only when
\* an earlier search of this object found it with an alias it has no longer.
MissHasReason ==
    [][Miss /\ steady =>
        \A i \in 0 .. Len(bus) - 1 :
            Matches(wanted, At(bus, i), i) => pinned /\ slave.alias # At(bus, i).alias]_vars

\* The slave that ecrt_master_slave_config resolves an alias and a position to.
IsAnchor(b, alias, i) ==
    On(b, i) /\ At(b, i).alias = alias /\ \A j \in 0 .. i - 1 : At(b, j).alias # alias
IsAddressed(b, p, i) ==
    IF AliasIsRelative /\ p.alias # 0
      THEN \E a \in 0 .. Len(b) - 1 : IsAnchor(b, p.alias, a) /\ i = a + p.position
      ELSE i = p.position

\* The slave that is configured is the slave that was found exactly when it has no
\* alias, or the first slave with its alias is the first of the ring: where an
\* alias makes the position relative, another slave, or none, is asked for.
ConfiguredIsFound ==
    pc = "found" =>
        (IsAddressed(bus, slave, next)
            <=> ~AliasIsRelative \/ slave.alias = 0 \/ IsAnchor(bus, slave.alias, 0))

\* What is looked for, and what is configured when it was found.
SearchIsTrue == TypeOK /\ SlaveIsWanted /\ ConfiguredIsFound

\* How a search may end after the searches there were.
SearchesAgree == SameSlaveAgain /\ MissHasReason
================================================================================
