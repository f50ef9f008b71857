------------------------------ MODULE MCPipeline ------------------------------
(* The pipeline with the service's own sink after one its operator added.   *)
EXTENDS Pipeline
CONSTANTS siem, websocket
ServiceSinks == <<siem, websocket>>
=============================================================================
