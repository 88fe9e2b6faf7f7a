------------------------------- MODULE MCScan -------------------------------
(***************************************************************************)
(* Instances of Scan for TLC: a file whose data pages start with records   *)
(* in both slots or in none, on two directory pages; and one of four data  *)
(* pages with a record each, on a single directory page.                   *)
(***************************************************************************)
EXTENDS Scan

MCStaleSlots == {{0, 1}, {}}
MCOneSlot    == {{0}}
=============================================================================
