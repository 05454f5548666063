-------------------------- MODULE RedisPersistence --------------------------
(* The runtime a deployment command acts on: the Compose topology of one      *)
(* deployment, the Redis process inside it, the two persistence files on the  *)
(* Redis volume, and the tool that prepares a change of persistence mode      *)
(* (scripts/tools/prepare_redis_persistence_transition.py).                   *)
(*                                                                            *)
(* The data set is abstracted to the number of writes it holds: "mem" in the  *)
(* process, "rdb" and "aof" on the volume.  Docker, systemd and Redis are     *)
(* external: Redis loads the AOF in AOF mode and the RDB in RDB mode, saves   *)
(* the RDB on an orderly stop, and appends to the AOF as it acknowledges.     *)
EXTENDS Naturals

CONSTANTS
    Deployment,     \* deployment ids
    None,           \* no deployment
    Mode,           \* [Deployment -> {"rdb", "aof"}]: persistence mode of its redis.conf
    MaxWrites       \* bound on acknowledged writes

ASSUME ModeAssumption == Mode \in [Deployment -> {"rdb", "aof"}]
ASSUME NoneAssumption == None \notin Deployment

VARIABLES
    run,            \* the deployment whose containers exist, or None
    writers,        \* TRUE iff the six write-capable services run
    redis,          \* [up, mode, mem]: the Redis process and its runtime mode
    rdb,            \* writes held by /data/dump.rdb
    aof,            \* writes held by /data/appendonlydir, or Absent
    ack             \* writes the services were told are stored

redisVars == <<run, writers, redis, rdb, aof, ack>>

Absent == MaxWrites + 1

RedisTypeOK ==
    /\ run \in Deployment \cup {None}
    /\ writers \in BOOLEAN
    /\ redis \in [up : BOOLEAN, mode : {"rdb", "aof"}, mem : 0 .. MaxWrites]
    /\ rdb \in 0 .. MaxWrites
    /\ aof \in 0 .. Absent
    /\ ack \in 0 .. MaxWrites

----------------------------------------------------------------------------
(* External: Redis and the container runtime.                                 *)

\* The volume after an orderly stop of Redis in mode m holding n writes.
SavedRdb == IF redis.up THEN redis.mem ELSE rdb
SavedAof == IF redis.up /\ redis.mode = "aof" THEN redis.mem ELSE aof

\* A Redis process started in mode m over the volume contents r and a.  With
\* appendonly on and no AOF it starts empty, whatever dump.rdb holds.
Loaded(m, r, a) ==
    [up |-> TRUE, mode |-> m,
     mem |-> IF m = "rdb" THEN r ELSE IF a = Absent THEN 0 ELSE a]

\* Redis runs deployment d over the volume r, a.
StartedRedis(d, r, a) ==
    /\ redis' = Loaded(Mode[d], r, a)
    /\ rdb' = r
    /\ aof' = IF Mode[d] = "aof" THEN redis'.mem ELSE a

\* A client write that is answered: the services are up and Redis appends it to
\* the AOF in AOF mode.
ClientWrite ==
    /\ writers /\ redis.up /\ ack < MaxWrites /\ redis.mem < MaxWrites
    /\ ack' = ack + 1
    /\ redis' = [redis EXCEPT !.mem = @ + 1]
    /\ aof' = IF redis.mode = "aof" THEN redis.mem + 1 ELSE aof
    /\ UNCHANGED <<run, writers, rdb>>

\* A background save of the RDB by the configured save points.
BackgroundSave ==
    /\ redis.up /\ rdb # redis.mem
    /\ rdb' = redis.mem
    /\ UNCHANGED <<run, writers, redis, aof, ack>>

----------------------------------------------------------------------------
(* docker compose up / stop, as the executor calls them.                      *)

\* docker compose up -d --wait of deployment d: Redis is recreated unless it
\* already runs that deployment in that mode.
ComposeUp(d) ==
    /\ run' = d
    /\ writers' = TRUE
    /\ IF run = d /\ redis.up
       THEN UNCHANGED <<redis, rdb, aof>>
       ELSE StartedRedis(d, SavedRdb, SavedAof)
    /\ UNCHANGED ack

\* The same command failing: before it touched a container, or after Redis was
\* recreated, with the services up but unhealthy or not started.
ComposeUpFails(d) ==
    \/ UNCHANGED redisVars
    \/ /\ run' = d
       /\ writers' \in BOOLEAN
       /\ IF run = d /\ redis.up
          THEN UNCHANGED <<redis, rdb, aof>>
          ELSE StartedRedis(d, SavedRdb, SavedAof)
       /\ UNCHANGED ack

\* docker compose stop: every container stops, Redis saves the RDB first.
ComposeStop ==
    /\ writers' = FALSE
    /\ redis' = [redis EXCEPT !.up = FALSE]
    /\ rdb' = SavedRdb
    /\ aof' = SavedAof
    /\ UNCHANGED <<run, ack>>

----------------------------------------------------------------------------
(* prepare_redis_persistence_transition.py: one operator per step of execute  *)
(* for a change from mode "source" to mode "target".                          *)

\* actual_mode: what CONFIG GET reports; a Redis that is down answers nothing.
ActualMode == IF redis.up THEN redis.mode ELSE "unreachable"

\* The mode the tool requires before it freezes anything: already the target
\* (an earlier attempt got that far) or still the source.
ModeAccepted(source, target) == ActualMode \in {source, target}

\* freeze_writes: stop the six write-capable services and check they stopped.
FreezeWrites ==
    /\ writers' = FALSE
    /\ UNCHANGED <<run, redis, rdb, aof, ack>>

\* checkpoint: a fresh BGSAVE with no change left unsaved.
Checkpoint ==
    /\ rdb' = redis.mem
    /\ UNCHANGED <<run, writers, redis, aof, ack>>

\* prepare_aof_directory: back to RDB the AOF must be there, to be kept and made
\* readable; towards AOF there must be none, a found one needs a manual merge.
AofDirectoryAccepted(source) ==
    IF source = "aof" THEN aof # Absent ELSE aof = Absent

\* validate_existing_aof: Redis already runs in AOF mode and its AOF is there.
ExistingAofAccepted == ActualMode = "aof" /\ aof # Absent

\* What the tool requires of the AOF directory once the checkpoint is written.
DirectoryAccepted(source, target) ==
    IF ActualMode = target /\ target = "aof"
    THEN ExistingAofAccepted
    ELSE AofDirectoryAccepted(source)

\* Mutant: appendonly is switched on by the restart alone.
SeedNothing(source, target) == UNCHANGED redisVars

\* seed_aof_from_rdb: switch appendonly on at run time and rewrite the AOF from
\* the key space.  Only on the way from RDB to AOF.
SeedAof(source, target) ==
    /\ IF source = "rdb" /\ ActualMode # target
       THEN /\ redis' = [redis EXCEPT !.mode = "aof"]
            /\ aof' = redis.mem
       ELSE UNCHANGED <<redis, aof>>
    /\ UNCHANGED <<run, writers, rdb, ack>>

----------------------------------------------------------------------------
(* verify_release_deployment.py: what the checks of verify establish.         *)

\* verify_service_state: every required service is running and healthy.
ServiceStateOk(d) == run # None /\ writers /\ redis.up

\* verify_container_images: the running containers have the image ids of d.
ContainerImagesOk(d) == run = d

\* validate_redis_aof_runtime: for a deployment in AOF mode, the effective
\* configuration is AOF and the manifest is there.
RedisAofRuntimeOk(d) ==
    Mode[d] = "aof" => redis.mode = "aof" /\ aof # Absent

============================================================================
