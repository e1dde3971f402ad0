CONSTANTS
    EmptyBulks = FALSE
    MaxReplies = 2
    MaxRequests = 2
    BufLen = 64
    Apis = {"del", "dump", "exists", "expire", "expireat", "keys", "move", "persist", "pexpire", "pexpireat", "pttl", "restore", "randomkey", "sort", "ttl", "type", "append", "decr", "decrby", "get", "getbit", "getrange", "getset", "incr", "incrby", "incrbyfloat", "mget", "mset", "psetex", "set", "setbit", "setex", "setnx", "setrange", "strlen", "hdel", "hexists", "hget", "hgetall", "hincr", "hincrby", "hincrbyfloat", "hkeys", "hlen", "hmget", "hmset", "hset", "hsetnx", "hvals", "lindex", "linsert", "llen", "lpop", "lpush", "lpushx", "lrange", "lrem", "lset", "ltrim", "rpop", "rpush", "rpushx", "sadd", "scard", "sismember", "smembers", "spop", "srandmember", "srem", "zadd", "zcard", "zcount", "zincrby", "zrange", "zrevrange", "zrangebyscore", "zrevrangebyscore", "zrank", "zrevrank", "zrem", "zremrangebyrank", "zremrangebyscore", "zscore", "flushall", "flushdb", "rename", "renamenx", "blpop", "brpop", "brpoplpush", "rpoplpush", "sdiff", "sdiffstore", "sinter", "sinterstore", "smove", "sunion", "sunionstore", "zinterstore", "zunionstore", "publish", "multi", "unwatch", "watch", "ping", "bgrewriteaof", "dbsize", "info", "lastsave", "slaveof", "exec", "old_get", "old_hget", "old_hgetall", "old_hgetall_map", "old_expire", "old_expireat", "old_hdel", "old_hset", "old_hmset"}
SPECIFICATION Spec
INVARIANTS
    EncodingRoundTrip
    ParseTotality
    ProjectionMeetsContract
    TextCommandWords
