------------------------------ MODULE MCArrival ------------------------------
EXTENDS Arrival
MCKinds == {"arrive", "settle", "pose"}
\* Enough for a motion seen to start and end, and for the hard cap and the silence after it.
MCBudget == [arrive |-> 3, settle |-> 5, pose |-> 3]
=============================================================================
