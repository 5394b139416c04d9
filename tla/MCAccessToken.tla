--------------------------- MODULE MCAccessToken ----------------------------
(***************************************************************************)
(* StkServer for TLC: a configuration with everything but what may be      *)
(* missing, and those that miss one key more.                              *)
(***************************************************************************)
EXTENDS StkServer

Enough ==
  {"JWT_SIGNING_KEY", "STK_STATUS_QUERY_STATUS_ENABLED", "STK_PROCESS_CHANNEL"}
    \cup (UNION {OptionKeys[o] : o \in RequiredOptions}
            \ {"STK_CONSUMER_KEY", "STK_CONSUMER_SECRET"})

\* Two tokens of one length and one that is a byte longer.
MCLength == [t1 |-> 28, t2 |-> 28, t3 |-> 29]

OneKeyMissing == {Enough} \cup {Enough \ {key} : key \in Enough}
=============================================================================
