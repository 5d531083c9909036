---------------------------- MODULE MCSafeParts ----------------------------
(* Three parts that share nothing, each in behaviours of its own while the *)
(* others stay as they began: two servers constructed with one port, the   *)
(* table of the configuration with its files, and the conversions.         *)
EXTENDS MCTCPServer, MCSimpleIni, MCConvertUTF

VARIABLE part  \* the part this behaviour is of

partVars == <<vars, iniVars, convVars, part>>

NoText == [form |-> "UTF8", units |-> <<>>]

\* one initial state of a part that stays as it began
IniStays == IniInit /\ file = <<>> /\ ~m_bAllowMultiKey /\ ~m_bAllowMultiLine
ConvertStays == ConvertInit /\ src = NoText /\ to = "UTF16" /\ flags = "strict"

PartsInit ==
  \/ part = "servers" /\ Init /\ IniStays /\ ConvertStays
  \/ part = "table" /\ Init /\ IniInit /\ ConvertStays
  \/ part = "conversion" /\ Init /\ IniStays /\ ConvertInit

PartsNext ==
  \/ part = "servers" /\ Next /\ UNCHANGED <<iniVars, convVars, part>>
  \/ part = "table" /\ IniNext /\ UNCHANGED <<vars, convVars, part>>
  \/ part = "conversion" /\ ConvertNext /\ UNCHANGED <<vars, iniVars, part>>

PartsSpec == PartsInit /\ [][PartsNext]_partVars
=============================================================================
