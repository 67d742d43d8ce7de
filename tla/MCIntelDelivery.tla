--------------------------- MODULE MCIntelDelivery ---------------------------
(* Instances of IntelDelivery for TLC.                                     *)
EXTENDS IntelDelivery, TLC

CONSTANTS i1, e1, c1, c2, g1

\* All deliveries are of one intel and for one recipient.
OneIntel == [d \in Deliveries |-> i1]
OneRecipient == [d \in Deliveries |-> e1]
IntelImportance == [i \in Intels |-> 1]
\* c1 before c2; both take intel of this importance.
ChannelPriority == [c \in Channels |-> IF c = c1 THEN 1 ELSE 0]
ChannelMinImportance == [c \in Channels |-> 1]
EntryOfChannel == [c \in Channels |-> e1]
GroupsOfChannel == [c \in Channels |-> IF c = c2 THEN Groups ELSE {}]
=============================================================================
