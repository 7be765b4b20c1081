---------------------------- MODULE ScheduleScan ----------------------------
(***************************************************************************)
(* A resolver's use of the schedule: for a name it plans the windows of a  *)
(* range of heights, and extends the range one block at a time.  The       *)
(* properties relate the two ends of the range: what the scan plan covers, *)
(* and what a COMMIT or a head at one end can still do at the other.       *)
(***************************************************************************)
EXTENDS Schedule

VARIABLES name, start, end

svars == <<name, start, end>>

SInit == name \in NameIds /\ start \in Height /\ end = start

Extend == /\ end < U32Max
          /\ end' = end + 1
          /\ UNCHANGED <<name, start>>

SSpec == SInit /\ [][Extend]_svars

plan == operation_windows_descending(name, start, end)

-----------------------------------------------------------------------------
\* The scan plan covers exactly the heights of the range at which the reducer
\* can accept an operation of the name, newest window first, no window empty
\* or reaching outside the range, across activation, partial windows at both
\* ends and epochs without a block of the range (operation_windows_descending
\* against accepts_operation).
ScanCoversExactly ==
    ~scan_fails(name, start, end) =>
        /\ \A h \in start .. end - 1 :
              accepts_operation(name, h) <=> \E i \in DOMAIN plan : contains(plan[i], h)
        /\ \A i \in DOMAIN plan : /\ plan[i].start < plan[i].end
                                  /\ start <= plan[i].start /\ plan[i].end <= end
        /\ \A i, j \in DOMAIN plan : i < j => plan[j].end <= plan[i].start

\* A COMMIT usable for a REVEAL was on chain before the REVEAL's window opened:
\* nobody can see a REVEAL in a window and still commit in time to answer it
\* (window_blocks <= commit_maturity_blocks).
CommitPrecedesWindow ==
    (accepts_operation(name, end) /\ accepts_commit(start, end))
      => start < window(name, epoch(end)).start

\* A COMMIT serves one epoch of a name at most: two heights at which it could
\* be revealed lie in the same window.
CommitServesOneEpoch ==
    \A h \in Height :
        (/\ accepts_operation(name, end) /\ accepts_commit(start, end)
         /\ accepts_operation(name, h) /\ accepts_commit(start, h))
           => epoch(end) = epoch(h)

\* A lease always reaches the next window: the owner of a head produced in a
\* window can renew it in the next epoch before it expires, unless the heights
\* run out of u32.
RenewalBeforeExpiry ==
    accepts_operation(name, start) =>
        window(name, epoch(start) + 1).start < expiry(start)

=============================================================================
