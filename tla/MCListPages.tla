---------------------------- MODULE MCListPages ----------------------------
EXTENDS ListPages

Bound(c, t, o) == [clicks |-> c, touches |-> t, others |-> o]

\* More of what a page is about: drafts, rows, or another admin beside this one.
MCBounds ==
    [ring_groups |-> Bound(3, 2, 1), extension_groups |-> Bound(3, 3, 0),
     holidays |-> Bound(3, 1, 0), outbound_rules |-> Bound(4, 1, 0),
     trunk_dids |-> Bound(3, 1, 1), presence_rules |-> Bound(3, 1, 0),
     phonebook |-> Bound(3, 2, 0), inbound |-> Bound(3, 3, 0),
     schedules |-> Bound(3, 2, 0), ivr |-> Bound(3, 3, 0), devices |-> Bound(4, 2, 0)]
=============================================================================
