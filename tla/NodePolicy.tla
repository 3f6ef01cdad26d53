----------------------------- MODULE NodePolicy -----------------------------
(***************************************************************************)
(* What a node lets a DeployProject have.  The configuration is checked    *)
(* once at startup (config.rs of the binary); limits and timeouts of a     *)
(* payload are resolved against it three times, by three components that   *)
(* do not know of each other: the container engine (containers/limits.rs), *)
(* the runtime (config.rs) and the command processor, which sets the       *)
(* deadline of the whole command.  The theorems say that the three agree.  *)
(***************************************************************************)
EXTENDS Naturals, TLAPS

\* A field the payload leaves out; a request that is refused.
None == CHOOSE n : n \notin Nat

Resources == {"memory_mb", "cpu_millis", "pids_limit"}
Timeouts  == {"build", "start", "command"}

\* Environment variables that parse as numbers of their width.
Settings == [default : [Resources -> Nat], maximum : [Resources -> Nat], timeout : [Timeouts -> Nat]]

\* resources and timeouts of a payload.
Requests == [resources : [Resources -> Nat \union {None}],
             timeouts : [Timeouts -> Nat \union {None}]]

\* A payload that leaves everything to the node.
Unspecified == [resources |-> [r \in Resources |-> None], timeouts |-> [t \in Timeouts |-> None]]

Positive(n) == n # 0

\* Resource limits the agent starts with, and all its settings.
resource_safety(c) ==
    \A r \in Resources : /\ Positive(c.default[r]) /\ Positive(c.maximum[r])
                         /\ c.default[r] <= c.maximum[r]

from_values(c) ==
    /\ resource_safety(c)
    /\ \A t \in Timeouts : Positive(c.timeout[t])
    /\ c.timeout["build"] < c.timeout["command"] /\ c.timeout["start"] < c.timeout["command"]

\* The container engine looks at its limits again for every deployment.
validate_safety_config(c) ==
    \A r \in Resources : ~(c.default[r] = 0 \/ c.maximum[r] = 0 \/ c.default[r] > c.maximum[r])

\* A value out of range is refused, never cut down.
resolve_limit(requested, default, maximum) ==
    LET value == IF requested = None THEN default ELSE requested
    IN IF value = 0 \/ value > maximum THEN None ELSE value

Resource(c, q, r) == resolve_limit(q.resources[r], c.default[r], c.maximum[r])
Timeout(c, q, t)  == resolve_limit(q.timeouts[t], c.timeout[t], c.timeout[t])

\* ResourceSafetyConfig::resolve and TimeoutSafetyConfig::resolve succeed.
ResourcesAccepted(c, q) ==
    validate_safety_config(c) /\ \A r \in Resources : Resource(c, q, r) # None

TimeoutsAccepted(c, q) ==
    /\ \A t \in Timeouts : Timeout(c, q, t) # None
    /\ Timeout(c, q, "build") < Timeout(c, q, "command")
    /\ Timeout(c, q, "start") < Timeout(c, q, "command")

\* command_policy: the deadline of the command.
Deadline(c, q) ==
    LET requested == IF q.timeouts["command"] = None THEN c.timeout["command"]
                     ELSE q.timeouts["command"]
    IN IF requested = 0 \/ requested > c.timeout["command"] THEN None ELSE requested

------------------------------------------------------------------------------
\* Leaving a field out is not the same as asking for a number.
LEMMA NoneIsNoNumber == None \notin Nat
  BY NoSetContainsEverything DEF None

\* What is accepted lies within the node's limits, never zero.
LEMMA ResolvedInRange ==
    ASSUME NEW q \in Nat \union {None}, NEW d \in Nat, NEW m \in Nat, resolve_limit(q, d, m) # None
    PROVE  resolve_limit(q, d, m) \in 1..m
  BY NoneIsNoNumber DEF resolve_limit

\* A container never gets more memory, CPU or processes than the node allows,
\* and never none at all (docker reads 0 as "no limit").
THEOREM ResourcesWithinNode ==
    ASSUME NEW c \in Settings, NEW q \in Requests, ResourcesAccepted(c, q)
    PROVE  \A r \in Resources : Resource(c, q, r) \in 1..c.maximum[r]
  <1> TAKE r \in Resources
  <1>1. q.resources[r] \in Nat \union {None} /\ c.default[r] \in Nat /\ c.maximum[r] \in Nat
    BY DEF Settings, Requests
  <1>2. resolve_limit(q.resources[r], c.default[r], c.maximum[r]) # None
    BY DEF ResourcesAccepted, Resource
  <1> QED BY <1>1, <1>2, ResolvedInRange DEF Resource

\* The processor and the runtime agree: whatever timeouts the runtime accepts,
\* the processor has accepted the command with a deadline that is longer than
\* the build's and longer than the start's, so that a build or a start that
\* hangs ends with its own error and not with the deadline of the command.
THEOREM DeadlineCoversSteps ==
    ASSUME NEW c \in Settings, NEW q \in Requests, TimeoutsAccepted(c, q)
    PROVE  /\ Deadline(c, q) \in 1..c.timeout["command"]
           /\ Timeout(c, q, "build") < Deadline(c, q)
           /\ Timeout(c, q, "start") < Deadline(c, q)
  <1>1. q.timeouts["command"] \in Nat \union {None} /\ c.timeout["command"] \in Nat
    BY DEF Settings, Requests, Timeouts
  <1>2. Timeout(c, q, "command") # None
    BY DEF TimeoutsAccepted, Timeouts
  <1>3. Timeout(c, q, "command") \in 1..c.timeout["command"]
    BY <1>1, <1>2, ResolvedInRange DEF Timeout
  <1>4. Deadline(c, q) = Timeout(c, q, "command")
    BY <1>1 DEF Deadline, Timeout, resolve_limit
  <1> QED BY <1>3, <1>4 DEF TimeoutsAccepted

\* A node that starts can deploy: with settings that pass the startup check a
\* payload that leaves limits and timeouts to the node is accepted by all three.
THEOREM DefaultsAccepted ==
    ASSUME NEW c \in Settings, from_values(c)
    PROVE  /\ ResourcesAccepted(c, Unspecified) /\ TimeoutsAccepted(c, Unspecified)
           /\ Deadline(c, Unspecified) = c.timeout["command"]
  <1>1. /\ \A r \in Resources : c.default[r] \in Nat /\ c.maximum[r] \in Nat
        /\ \A t \in Timeouts : c.timeout[t] \in Nat
    BY DEF Settings
  <1>2. validate_safety_config(c)
    BY <1>1 DEF from_values, resource_safety, validate_safety_config, Positive
  <1>3. \A r \in Resources : Resource(c, Unspecified, r) = c.default[r]
    BY <1>1 DEF Resource, resolve_limit, Unspecified, from_values, resource_safety, Positive
  <1>4. \A t \in Timeouts : Timeout(c, Unspecified, t) = c.timeout[t]
    BY <1>1 DEF Timeout, resolve_limit, Unspecified, from_values, Positive
  <1>5. ResourcesAccepted(c, Unspecified)
    BY <1>1, <1>2, <1>3, NoneIsNoNumber DEF ResourcesAccepted
  <1>6. TimeoutsAccepted(c, Unspecified)
    BY <1>1, <1>4, NoneIsNoNumber DEF TimeoutsAccepted, from_values, Timeouts
  <1>7. Deadline(c, Unspecified) = c.timeout["command"]
    BY <1>1 DEF Deadline, Unspecified, from_values, Positive, Timeouts
  <1> QED BY <1>5, <1>6, <1>7
==============================================================================
