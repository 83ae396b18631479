------------------------------ MODULE IpSearch ------------------------------
(***************************************************************************)
(* The look-up of a region by address: common/region/ipparse.go.  A file   *)
(* of ranges is loaded in its order into a table, which is searched by     *)
(* bisection.  Addresses are compared as 16 bytes, so they are numbers     *)
(* here; an address that does not parse is nil and compares below all.     *)
(***************************************************************************)
EXTENDS Integers, Sequences

CONSTANTS
    Address,  \* the addresses, as numbers
    Files     \* the files of ranges

Nil == -1

\* A line of the file: the number of its fields, and its first two.
FileLine == [fields: Nat, s: Address \cup {Nil}, e: Address \cup {Nil}]

ASSUME AddressAssumption == Address \subseteq Nat
ASSUME FilesAssumption == Files \subseteq Seq(FileLine)

VARIABLES
    rest,    \* the lines of the file that are not read yet
    ips,     \* the table
    asked,   \* whether the table is loaded and the search has begun
    sip,     \* the address that is looked up
    low,     \* the bounds of the part still to be searched,
    height,  \* counted from 1 instead of 0
    region   \* where the answer is in the table; 0 is "0", the unknown region

searchVars == <<rest, ips, asked, sip, low, height, region>>

\* The text of the address has been parsed.
SearchInit ==
    /\ rest \in Files
    /\ ips = <<>>
    /\ asked = FALSE
    /\ sip \in Address
    /\ low = 1 /\ height = 0
    /\ region = 0

\* load_ips keeps the lines of three or four fields, and does not sort them.
LoadLine ==
    /\ rest # <<>>
    /\ rest' = Tail(rest)
    /\ ips' = IF Head(rest).fields \in {3, 4} THEN Append(ips, Head(rest)) ELSE ips
    /\ UNCHANGED <<asked, sip, low, height, region>>

\* Get_Region_Id: the whole table is before the search.
GetRegionId ==
    /\ rest = <<>> /\ ~asked
    /\ asked' = TRUE
    /\ low' = 1 /\ height' = Len(ips)
    /\ UNCHANGED <<rest, ips, sip, region>>

Covers(range, a) == range.s <= a /\ range.e >= a

Searching == asked /\ region = 0 /\ low <= height

Over == asked /\ ~Searching

\* Mutant: half open ranges.
StepStrict(mid) ==
    \/ /\ ips[mid].s <= sip /\ ips[mid].e > sip
       /\ region' = mid
       /\ UNCHANGED <<low, height>>
    \/ /\ ips[mid].s > sip
       /\ height' = mid - 1
       /\ UNCHANGED <<low, region>>
    \/ /\ ips[mid].s <= sip /\ ips[mid].e <= sip
       /\ low' = mid + 1
       /\ UNCHANGED <<height, region>>

\* Mutant: the lower bound becomes the middle.
StepStuck(mid) ==
    \/ /\ Covers(ips[mid], sip)
       /\ region' = mid
       /\ UNCHANGED <<low, height>>
    \/ /\ ips[mid].s > sip
       /\ height' = mid - 1
       /\ UNCHANGED <<low, region>>
    \/ /\ ips[mid].s < sip /\ ~Covers(ips[mid], sip)
       /\ low' = mid
       /\ UNCHANGED <<height, region>>

\* The three branches.  A range that starts at the address and ends below it
\* takes none of them: the loop goes round with the same bounds.
Step(mid) ==
    \/ /\ Covers(ips[mid], sip)
       /\ region' = mid
       /\ UNCHANGED <<low, height>>
    \/ /\ ips[mid].s > sip
       /\ height' = mid - 1
       /\ UNCHANGED <<low, region>>
    \/ /\ ips[mid].s < sip /\ ~Covers(ips[mid], sip)
       /\ low' = mid + 1
       /\ UNCHANGED <<height, region>>

IpSearch ==
    /\ Searching
    /\ Step(low + (height - low) \div 2)
    /\ UNCHANGED <<rest, ips, asked, sip>>

SearchNext == LoadLine \/ GetRegionId \/ IpSearch

SearchSpec == SearchInit /\ [][SearchNext]_searchVars /\ WF_searchVars(SearchNext)

-----------------------------------------------------------------------------
(***************************************************************************)
(* Properties.                                                             *)
(***************************************************************************)

\* The ranges are in order and apart, and none of them is empty.
WellFormed ==
    /\ \A k \in DOMAIN ips : ips[k].s <= ips[k].e
    /\ \A j, k \in DOMAIN ips : j < k => ips[j].e < ips[k].s

\* A range that is found contains the address, in any table; and if the table
\* is well-formed, an address that any range contains is found.
SearchCorrect ==
    /\ region # 0 => region \in DOMAIN ips /\ Covers(ips[region], sip)
    /\ (WellFormed /\ Over /\ region = 0) =>
          \A k \in DOMAIN ips : ~Covers(ips[k], sip)

\* What the loop cannot get past.
Trap == \E k \in DOMAIN ips : ips[k].s = sip /\ ips[k].e < sip

\* A search ends, on any table, sorted or not, but for a range that starts at
\* the address and ends below it (or has an end that does not parse).
SearchEnds == asked ~> (Over \/ Trap)
=============================================================================
