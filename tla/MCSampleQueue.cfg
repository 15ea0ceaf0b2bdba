CONSTANTS
    h1 = h1
    h2 = h2
    s1 = s1
    s2 = s2
    s3 = s3
    w1 = w1
    c1 = c1
    c2 = c2
    Workers = {w1}
    QueueCap = 1
    EmitCap = 1
    Hashes = {h1, h2}
    Crawlers = {c1, c2}
    Samplers = {s1, s2, s3}
    CrawlerOf <- MCCrawlerOf
    MaxSamples = 1
    DropLimit = 1
SPECIFICATION SampleSpec
PROPERTIES
    AcceptedOncePerTwoRotations
    ResponseIsWorkedOff
