---------------------------- MODULE RetryPolicy ----------------------------
(***************************************************************************)
(* How a failed attempt is classified and how many attempts its class may  *)
(* use: core/errors.py.  Pure operators; JobRunner calls them from the     *)
(* exception handler of run_one.                                           *)
(*                                                                         *)
(* A policy is a partial function from keys to limits.  Its keys are       *)
(* strings an operator wrote in the TOML file, so they need not name an    *)
(* error category, and its limits are any integers.                        *)
(***************************************************************************)
EXTENDS Integers

ErrorCategory ==
    {"config", "input", "auth", "translation", "validation", "babeldoc",
     "worker", "output", "resource", "cancelled", "unknown"}

NoCategory == "none"

\* Per-category maximum of total attempts before any operator policy.
DEFAULT_RETRY_LIMITS ==
    [c \in ErrorCategory |->
        CASE c \in {"translation", "resource"} -> 3
          [] c \in {"babeldoc", "worker"}      -> 2
          [] OTHER                             -> 1]

AtLeastOne(n) == IF n < 1 THEN 1 ELSE n
Capped(n, ceiling) == IF n > ceiling THEN ceiling ELSE n

\* The total-attempt ceiling both the loop of run_one and the policy use.
Ceiling(defaultMax) == AtLeastOne(defaultMax)

resolve_retry_limits(policy, defaultMax) ==
    [c \in ErrorCategory |->
        Capped(IF c \in DOMAIN policy
                 THEN AtLeastOne(policy[c])
                 ELSE DEFAULT_RETRY_LIMITS[c],
               Ceiling(defaultMax))]

retry_limit_for(category, policy, defaultMax) ==
    IF category \in ErrorCategory
      THEN resolve_retry_limits(policy, defaultMax)[category]
      ELSE Ceiling(defaultMax)

(***************************************************************************)
(* An exception is a record: the class it belongs to and, for the classes  *)
(* that carry one, the error category and the retryable flag inside it.    *)
(* "worker_client" is WorkerClientError: it wraps a WorkerError but is not *)
(* a BabelCodexError, so the classification below never opens it.          *)
(***************************************************************************)
ExceptionClass ==
    {"babelcodex", "worker_client", "file_not_found", "timeout", "other"}

Exception ==
    [class : ExceptionClass, category : ErrorCategory, retryable : BOOLEAN]

classify_exception(exc) ==
    CASE exc.class = "babelcodex"     -> [category |-> exc.category, retryable |-> exc.retryable]
      [] exc.class = "file_not_found" -> [category |-> "input", retryable |-> FALSE]
      [] exc.class = "timeout"        -> [category |-> "translation", retryable |-> TRUE]
      [] OTHER                        -> [category |-> "unknown", retryable |-> FALSE]
=============================================================================
