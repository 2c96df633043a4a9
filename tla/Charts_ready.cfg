CONSTANTS
  Names = {"duckdb_export_query_arrow_ipc_buffer"}
  Origin = 0
  Connections = {0, 1}
  Queries <- Two
  Marks = {"barY", "dot"}
  MaxShows = 2
SPECIFICATION Spec
PROPERTY ChartShown
CHECK_DEADLOCK FALSE
