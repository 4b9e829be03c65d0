--------------------------- MODULE PortalSources ----------------------------
(***************************************************************************)
(* src/sources/portal.rs, the transport of src/sources/portal_beacon.rs    *)
(* and src/sources/era1.rs: what a source hands to its caller for a        *)
(* content key, given the reply of the Portal client behind it.            *)
(*                                                                         *)
(* A reply is a record: whether it arrived with a success status and a     *)
(* JSON body before the client's timeout, whether that body has an         *)
(* `error`, and the content of its `result`, as a set of at most one       *)
(* string.                                                                 *)
(***************************************************************************)
EXTENDS ProofConstruction

Reply(arrived, error, result) == [arrived |-> arrived, error |-> error, result |-> result]

Hex(valid, bytes) == [valid |-> valid, bytes |-> bytes]

Failed(error)  == [tag |-> "Err", error |-> error]
Fetched(bytes) == [tag |-> "Bytes", bytes |-> bytes]

(* get_content: an `error` wins over a `result`, and the bytes are passed on
   as they are. *)
GetContent(reply) ==
  IF ~reply.arrived THEN Failed("Http")
  ELSE IF reply.error \/ reply.result = {} THEN Failed("DataSource")
  ELSE LET content == CHOOSE c \in reply.result : TRUE
       IN  IF content.valid THEN Fetched(content.bytes) ELSE Failed("Hex")

(* The Beacon network's transport differs in its method and its timeout. *)
GetBeaconContent(reply) == GetContent(reply)

(* Content keys: a selector byte, then what it selects by. *)
BlockHeaderByNumber(number)   == [selector |-> 3, number |-> number]
BlockHeaderByHash(header)     == [selector |-> 0, hash |-> header]
HistoricalSummariesAt(epoch)  == [selector |-> 20, epoch |-> epoch]

(* What PortalSidecarSource may answer, when client[key] is the set of replies
   its Portal client may give for a key. *)
PortalByNumber(client, number) ==
  {GetContent(reply) : reply \in client[BlockHeaderByNumber(number)]}

PortalByHash(client, header) ==
  {GetContent(reply) : reply \in client[BlockHeaderByHash(header)]}

(* Era1FileSource reads no files yet. *)
Era1Answers == {Failed("DataSource")}

=============================================================================
