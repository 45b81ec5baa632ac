------------------------------ MODULE LogMatch ------------------------------
(***************************************************************************)
(* utils/filters.py, check_if_log_matches and the checks it is made of:    *)
(* does a log entry satisfy the from_block, to_block, address and topics   *)
(* of a filter?                                                            *)
(*                                                                         *)
(* A log entry is [number, type, address, topics] (see BlockRange).  A     *)
(* filter topic is None (a wildcard), a topic, or a sequence of those (an  *)
(* "or" of topics).  An address filter is None, an address, or a sequence  *)
(* of addresses.                                                           *)
(***************************************************************************)
EXTENDS BlockRange, Sequences

CONSTANTS
    Topics,                                 \* 32-byte topics
    Addresses                               \* account addresses

ASSUME WildcardAssumption == None \notin Topics \cup Addresses

-----------------------------------------------------------------------------
is_topic(value) == value = None \/ value \in Topics

is_flat_topic_array(topics) == \A i \in DOMAIN topics : is_topic(topics[i])

check_single_topic_match(log_topic, filter_topic) ==
    filter_topic = None \/ filter_topic = log_topic

(* A wrong one: like zip, it stops at the end of the shorter sequence.     *)
check_if_common_topics_match(log_topics, filter_topics) ==
    \A i \in DOMAIN filter_topics \cap DOMAIN log_topics :
        check_single_topic_match(log_topics[i], filter_topics[i])

check_if_log_matches_flat_topics(log_topics, filter_topics) ==
    \/ filter_topics = << >>
    \/ /\ Len(log_topics) >= Len(filter_topics)
       /\ \A i \in DOMAIN filter_topics :
             check_single_topic_match(log_topics[i], filter_topics[i])

(***************************************************************************)
(* itertools.product over the positions: every way to pick one alternative *)
(* per position (a single topic is an "or" of one).                        *)
(***************************************************************************)
Alternatives(value) ==
    IF is_topic(value) THEN {value} ELSE { value[i] : i \in DOMAIN value }

extrapolate_flat_topic_from_topic_list(topics) ==
    { pick \in [DOMAIN topics ->
                  UNION { Alternatives(topics[i]) : i \in DOMAIN topics }] :
        \A i \in DOMAIN topics : pick[i] \in Alternatives(topics[i]) }

check_if_topics_match(log_topics, filter_topics) ==
    IF filter_topics = None THEN TRUE
    ELSE IF is_flat_topic_array(filter_topics)
    THEN check_if_log_matches_flat_topics(log_topics, filter_topics)
    ELSE \E combination \in
              extrapolate_flat_topic_from_topic_list(filter_topics) :
            check_if_log_matches_flat_topics(log_topics, combination)

check_if_address_match(address, addresses) ==
    \/ addresses = None
    \/ addresses \in Addresses /\ address = addresses
    \/ /\ addresses \notin Addresses \cup {None}
       /\ \E i \in DOMAIN addresses : addresses[i] = address

check_if_log_matches(log, from_block, to_block, addresses, topics) ==
    /\ check_if_blocks_match(log.number, log.type, from_block, to_block)
    /\ check_if_address_match(log.address, addresses)
    /\ check_if_topics_match(log.topics, topics)
=============================================================================
