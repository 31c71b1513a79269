CONSTANTS
  Kinds = {"kafka", "kafkaSync", "nats", "jetstream", "tcp", "udp", "otlp", "snmp", "influx", "clickhouse", "prometheus"}
  MaxMsgs = 2
  MaxGen = 2
  MaxWorkers = 2
  Conf0 <- FirstConf
  Confs <- LaterConfs
SPECIFICATION SysSpec
INVARIANTS
  UpdateTakesEffect
PROPERTIES
  MembersConverge
  LoaderConverges
  CommandReturns
  OutputReturns
  InputReturns
  CacheSpreads
  OutputConverges
  StreamEnds
CHECK_DEADLOCK FALSE
