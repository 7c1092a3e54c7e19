----------------------------- MODULE MySqlProtocol -----------------------------
(***************************************************************************)
(* The tables of the MySQL wire protocol the proxy knows about             *)
(* (src/src/packet.hpp and the static functions of src/src/packet.cpp):    *)
(* the command bytes, which of them are valid, which carry an SQL text,    *)
(* how they are named in the log, and how the first payload byte of a      *)
(* server packet is classified.                                            *)
(***************************************************************************)
EXTENDS Naturals

Byte == 0 .. 255

(***************************************************************************)
(* MySqlCommand::Command.  0x19 and 0x1A each stand for two commands of    *)
(* the protocol, told apart by the payload length.                         *)
(***************************************************************************)
UNKNOWN                 == 0
COM_QUIT                == 1
COM_INIT_DB             == 2
COM_QUERY               == 3
COM_FIELD_LIST          == 4
COM_REFRESH             == 7
COM_STATISTICS          == 8
COM_PROCESS_INFO        == 10
COM_PROCESS_KILL        == 12
COM_DEBUG               == 13
COM_PING                == 14
COM_CHANGE_USER         == 17
COM_STMT_PREPARE        == 22
COM_STMT_EXECUTE        == 23
COM_STMT_SEND_LONG_DATA == 24
COM_STMT_CLOSE          == 25
COM_STMT_RESET          == 26
COM_RESET_CONNECTION    == 31

\* MySqlCommand::is_valid
is_valid(command) ==
  command \in {COM_QUIT, COM_INIT_DB, COM_QUERY, COM_FIELD_LIST, COM_REFRESH,
               COM_STATISTICS, COM_PROCESS_INFO, COM_PROCESS_KILL, COM_DEBUG,
               COM_PING, COM_CHANGE_USER, COM_RESET_CONNECTION,
               COM_STMT_RESET, COM_STMT_PREPARE, COM_STMT_EXECUTE,
               COM_STMT_CLOSE, COM_STMT_SEND_LONG_DATA}

\* MySqlCommand::has_sql_field
has_sql_field(command) == command \in {COM_INIT_DB, COM_QUERY, COM_STMT_PREPARE}

\* The empty name of MySqlCommand::name: such a packet is not logged.
NoName == ""

\* MySqlCommand::name
name(command, length) ==
  CASE command = COM_QUIT                -> "COM_QUIT"
    [] command = COM_INIT_DB             -> "COM_INIT_DB"
    [] command = COM_QUERY               -> "COM_QUERY"
    [] command = COM_FIELD_LIST          -> "COM_FIELD_LIST"
    [] command = COM_REFRESH             -> "COM_REFRESH"
    [] command = COM_STATISTICS          -> "COM_STATISTICS"
    [] command = COM_PROCESS_INFO        -> "COM_PROCESS_INFO"
    [] command = COM_PROCESS_KILL        -> "COM_PROCESS_KILL"
    [] command = COM_DEBUG               -> "COM_DEBUG"
    [] command = COM_PING                -> "COM_PING"
    [] command = COM_CHANGE_USER         -> "COM_CHANGE_USER"
    [] command = COM_RESET_CONNECTION    -> "COM_RESET_CONNECTION"
    [] command = COM_STMT_PREPARE        -> "COM_STMT_PREPARE"
    [] command = COM_STMT_EXECUTE        -> "COM_STMT_EXECUTE"
    [] command = COM_STMT_SEND_LONG_DATA -> "COM_STMT_SEND_LONG_DATA"
    [] command = COM_STMT_RESET /\ length = 3 -> "COM_SET_OPTION"
    [] command = COM_STMT_RESET /\ length = 5 -> "COM_STMT_RESET"
    [] command = COM_STMT_CLOSE /\ length = 9 -> "COM_STMT_FETCH"
    [] command = COM_STMT_CLOSE /\ length = 5 -> "COM_STMT_CLOSE"
    [] OTHER                                 -> NoName

(***************************************************************************)
(* MySqlResponse::get_response: what the first payload byte of a server    *)
(* packet says, given the payload length of its packet.                    *)
(***************************************************************************)
OK_BYTE  == 0
EOF_BYTE == 254
ERR_BYTE == 255

\* Mutant: an OK packet is expected to be longer than its minimum of seven bytes.
get_response_LongOk(payload_0, length) ==
  CASE payload_0 = OK_BYTE /\ length > 7  -> "OK_PACKET"
    [] payload_0 = EOF_BYTE /\ length < 5 -> "EOF_PACKET"
    [] payload_0 = ERR_BYTE               -> "ERR_PACKET"
    [] OTHER                              -> "OTHER_PACKET"

get_response(payload_0, length) ==
  CASE payload_0 = OK_BYTE /\ length > 3  -> "OK_PACKET"
    [] payload_0 = EOF_BYTE /\ length < 5 -> "EOF_PACKET"
    [] payload_0 = ERR_BYTE               -> "ERR_PACKET"
    [] OTHER                              -> "OTHER_PACKET"
=============================================================================
