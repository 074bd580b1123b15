--------------------------- MODULE ResourcePlan ---------------------------
(***************************************************************************)
(* How a value of a type is dropped: contract/ResourcePlan.cpp.  A type is *)
(* named by what the plan tells apart; "strs" is a fixed array of          *)
(* ArrayLength strings, the aggregate whose elements own resources.        *)
(***************************************************************************)
LOCAL INSTANCE Naturals

Types == {"void", "int", "bool", "row", "string", "array", "host", "strs"}

\* The number of elements of a "strs" and the type of each.
ArrayLength == 2
ElementType == "string"

\* planForType, the drop half: a nullable type has the plan of what it may be.
DropKind(type) ==
  CASE type = "string" -> "FreeString"
    [] type = "array"  -> "FreeArray"
    [] type = "host"   -> "Release"
    [] type = "strs"   -> "ElementWise"
    [] OTHER           -> "None"

\* ResourcePlan::needsDropForStorage
NeedsDrop(type) == DropKind(type) # "None"
============================================================================
