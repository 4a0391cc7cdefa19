----------------------------- MODULE MCDirectories -----------------------------
EXTENDS Directories

\* Names that differ, in capitals only and altogether, of both lengths, there and not there.
MCDirEntries ==
    {[name |-> "x", capital |-> FALSE, len |-> 1, kind |-> "live"], [name |-> "x", capital |-> TRUE, len |-> 2, kind |-> "live"],
     [name |-> "y", capital |-> FALSE, len |-> 2, kind |-> "live"], [name |-> "y", capital |-> FALSE, len |-> 1, kind |-> "gone"],
     [name |-> "z", capital |-> FALSE, len |-> 2, kind |-> "gone"], [name |-> "z", capital |-> FALSE, len |-> 1, kind |-> "meta"]}
=============================================================================
